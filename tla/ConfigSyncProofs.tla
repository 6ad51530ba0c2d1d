--------------------------- MODULE ConfigSyncProofs ---------------------------
(***************************************************************************)
(* ConfigSync implements VerifiedRecord: whatever the configurations, the  *)
(* pods, the faults and the bound on them, an applied fingerprint is       *)
(* written, or confirmed, only by a pass that saw every replica converged. *)
(*                                                                         *)
(* The invariant says what the pass under way knows of the record: while   *)
(* the object is unchanged the pass holds the fingerprint that is stored,  *)
(* and a pass that only looks holds the one it is about to confirm.  And   *)
(* an object without finalizer has no record, so it can vanish at once.    *)
(*                                                                         *)
(* The second part shows that every variable keeps its type.               *)
(***************************************************************************)
EXTENDS ConfigCycleProofs, FiniteSetTheorems

\* Most steps are first-order, so Zenon is the prover unless a step names another.
USE Zenon

Checking == {"look", "settle", "clean"}

\* The fields of the objects.
Shape ==
    /\ DOMAIN cfgs = Configs
    /\ \A c \in Configs :
        /\ DOMAIN cfgs[c] = {"phase", "fin", "skip", "gen", "spec", "status"}
        /\ DOMAIN cfgs[c].status = {"hash", "synced", "gen", "ready", "degraded"}
    /\ due \in [Configs -> BOOLEAN]
    /\ DOMAIN work = {"pc", "c", "gen", "status", "want", "rds", "eps", "see",
                      "push", "done", "ok", "fresh", "told"}
    /\ DOMAIN work.status = {"hash", "synced", "gen", "ready", "degraded"}

\* No record without a finalizer.
Guarded ==
    \A c \in Configs :
        cfgs[c].status.hash # None => cfgs[c].phase # "absent" /\ cfgs[c].fin

\* What the pass under way knows.
Informed ==
    /\ work.pc # "idle" => work.c \in Configs
    /\ work.pc \in Checking /\ work.fresh =>
        /\ cfgs[work.c].phase # "absent" /\ cfgs[work.c].fin
        /\ work.status.hash = cfgs[work.c].status.hash
    /\ work.pc \in {"look", "clean"} =>
        work.status.hash = combinedSyncFingerprint(work.want, work.rds, work.eps)
    /\ work.pc = "look" =>
        /\ work.see # {}
        /\ work.see \cap work.push = {}
    /\ work.pc \in {"look", "settle"} =>
        work.see \cup work.push \cup work.ok \subseteq DOMAIN work.eps
    /\ work.pc = "look" => work.ok = {}

RecordInv == Shape /\ Guarded /\ Informed

----------------------------------------------------------------------------
(* Steps that leave records, clocks and the pass alone. *)

\* What happens to pods, Secrets and access concerns no record.
LEMMA Still ==
    ASSUME RecordInv, UNCHANGED <<cfgs, due, work>>
    PROVE  RecordInv' /\ V!Change
<1>1. RecordInv'
  BY SMT DEF RecordInv, Shape, Guarded, Informed, combinedSyncFingerprint
<1>2. V!Change
  BY DEF V!Change, Passing, Seen, Target
<1> QED BY <1>1, <1>2

\* Other fields of a configuration concern no record either.
LEMMA Unseen ==
    ASSUME \A c \in Configs : cfgs'[c].status.hash = cfgs[c].status.hash,
           due' = due, Passing' = Passing
    PROVE  V!Change
  BY DEF V!Change

\* A write by someone else only makes the pass fail later.
LEMMA OutdatedPass ==
    ASSUME Shape, NEW c, work' = Outdated(c)
    PROVE  /\ Passing' = Passing
           /\ DOMAIN work' = DOMAIN work
           /\ work'.fresh => work.fresh /\ work.c # c
           /\ \A f \in DOMAIN work \ {"fresh"} : work'[f] = work[f]
<1>1. /\ DOMAIN work' = DOMAIN work
      /\ \A f \in DOMAIN work \ {"fresh"} : work'[f] = work[f]
      /\ work'.fresh = (work.fresh /\ work.c # c)
  BY DEF Outdated, Shape
<1>2. /\ work'.pc = work.pc /\ work'.c = work.c /\ work'.want = work.want
      /\ work'.rds = work.rds /\ work'.eps = work.eps /\ work'.see = work.see
      /\ work'.push = work.push /\ work'.ok = work.ok
  BY <1>1 DEF Shape
<1>3. Passing' = Passing
  BY <1>2, SMT DEF Passing, Seen, Target
<1> QED BY <1>1, <1>3

----------------------------------------------------------------------------
(* Steps of users. *)

\* A new object has no record, whatever was recorded under its name before.
LEMMA CreateStep ==
    ASSUME RecordInv, NEW c \in Configs, CreateConfig(c)
    PROVE  RecordInv' /\ V!Change
<1> USE DEF RecordInv
<1>1. PICK s \in Specs[c] : cfgs' = [cfgs EXCEPT ![c] = Created(s)]
  BY DEF CreateConfig
<1>2. /\ due' = due /\ work' = work
      /\ cfgs[c].phase = "absent" /\ cfgs[c].status.hash = None
  BY DEF CreateConfig, Guarded
<1>3. /\ Created(s).status = NoStatus /\ NoStatus.hash = None
      /\ Created(s).phase = "live"
      /\ DOMAIN Created(s) = {"phase", "fin", "skip", "gen", "spec", "status"}
      /\ DOMAIN NoStatus = {"hash", "synced", "gen", "ready", "degraded"}
  BY DEF Created, Absent, NoStatus
<1>4. /\ DOMAIN cfgs' = Configs /\ cfgs'[c] = Created(s)
      /\ \A d \in Configs : d # c => cfgs'[d] = cfgs[d]
  BY <1>1 DEF Shape
<1>5. Shape' /\ Guarded'
  BY <1>2, <1>3, <1>4 DEF Shape, Guarded
<1>6. Informed'
  BY <1>2, <1>3, <1>4, SMT DEF Informed, combinedSyncFingerprint, Checking
<1>7. \A d \in Configs : cfgs'[d].status.hash = cfgs[d].status.hash
  BY <1>2, <1>3, <1>4
<1>8. Passing' = Passing
  BY <1>2 DEF Passing, Seen, Target
<1> QED BY <1>2, <1>5, <1>6, <1>7, <1>8, Unseen

\* An edit keeps the status, and puts the pass out of date.
LEMMA EditStep ==
    ASSUME RecordInv, NEW c \in Configs,
           due' = due, work' = Outdated(c),
           DOMAIN cfgs' = Configs,
           \A d \in Configs : d # c => cfgs'[d] = cfgs[d],
           DOMAIN cfgs'[c] = {"phase", "fin", "skip", "gen", "spec", "status"},
           DOMAIN cfgs'[c].status = {"hash", "synced", "gen", "ready", "degraded"},
           cfgs'[c].status.hash = cfgs[c].status.hash,
           cfgs'[c].status.hash # None => cfgs'[c].phase # "absent" /\ cfgs'[c].fin
    PROVE  RecordInv' /\ V!Change
<1> USE DEF RecordInv
<1>1. /\ Passing' = Passing
      /\ DOMAIN work' = DOMAIN work
      /\ work'.fresh => work.fresh /\ work.c # c
      /\ \A f \in DOMAIN work \ {"fresh"} : work'[f] = work[f]
  BY OutdatedPass
<1>2. /\ work'.pc = work.pc /\ work'.c = work.c /\ work'.want = work.want
      /\ work'.rds = work.rds /\ work'.eps = work.eps /\ work'.see = work.see
      /\ work'.push = work.push /\ work'.ok = work.ok
      /\ work'.status = work.status
  BY <1>1 DEF Shape
<1>3. Shape' /\ Guarded'
  BY <1>1, <1>2, SMT DEF Shape, Guarded
<1>4. Informed'
  BY <1>1, <1>2, SMT DEF Informed, combinedSyncFingerprint, Checking
<1>5. \A d \in Configs : cfgs'[d].status.hash = cfgs[d].status.hash
  OBVIOUS
<1> QED BY <1>1, <1>3, <1>4, <1>5, Unseen

\* Edits and deletions leave records alone, or remove them with the object.
LEMMA UserSteps ==
    ASSUME RecordInv, NEW c \in Configs,
           EditConfig(c) \/ DeleteConfig(c) \/ AnnotateSkip(c)
    PROVE  RecordInv' /\ V!Change
<1>1. CASE EditConfig(c)
  <2>1. PICK s \in Specs[c] : cfgs' = [cfgs EXCEPT ![c].spec = s, ![c].gen = @ + 1]
    BY <1>1 DEF EditConfig
  <2>2. /\ DOMAIN cfgs' = Configs
        /\ \A d \in Configs : d # c => cfgs'[d] = cfgs[d]
        /\ DOMAIN cfgs'[c] = DOMAIN cfgs[c]
        /\ cfgs'[c].status = cfgs[c].status
        /\ cfgs'[c].phase = cfgs[c].phase /\ cfgs'[c].fin = cfgs[c].fin
    BY <2>1 DEF RecordInv, Shape
  <2>3. due' = due /\ work' = Outdated(c)
    BY <1>1 DEF EditConfig
  <2> QED BY <2>2, <2>3, EditStep, ZenonT(30) DEF RecordInv, Shape, Guarded
<1>2. CASE AnnotateSkip(c)
  BY <1>2, EditStep, ZenonT(30) DEF AnnotateSkip, RecordInv, Shape, Guarded
<1>3. CASE DeleteConfig(c)
  <2>1. CASE cfgs[c].fin
    BY <1>3, <2>1, EditStep, ZenonT(30) DEF DeleteConfig, RecordInv, Shape, Guarded
  <2>2. CASE ~cfgs[c].fin
    <3>1. /\ cfgs' = [cfgs EXCEPT ![c] = Absent] /\ cfgs[c].status.hash = None
      BY <1>3, <2>2 DEF DeleteConfig, ReleaseNow, RecordInv, Guarded
    <3>2. /\ Absent.status.hash = None
          /\ DOMAIN Absent = {"phase", "fin", "skip", "gen", "spec", "status"}
          /\ DOMAIN Absent.status = {"hash", "synced", "gen", "ready", "degraded"}
      BY DEF Absent, NoStatus
    <3>3. /\ DOMAIN cfgs' = Configs /\ cfgs'[c] = Absent
          /\ \A d \in Configs : d # c => cfgs'[d] = cfgs[d]
      BY <3>1 DEF RecordInv, Shape
    <3>4. due' = due /\ work' = Outdated(c)
      BY <1>3 DEF DeleteConfig
    <3> QED BY <3>1, <3>2, <3>3, <3>4, EditStep
  <2> QED BY <2>1, <2>2
<1> QED BY <1>1, <1>2, <1>3

----------------------------------------------------------------------------
(* The beginning of a pass. *)

\* A pass for a live configuration.
LEMMA BeginStep ==
    ASSUME RecordInv, NEW c \in Configs, Begin(c)
    PROVE  RecordInv' /\ V!Open
<1> USE DEF RecordInv
<1> DEFINE r == Reads(c)
           same == unchanged(c, r)
<1>0. /\ work.pc = "idle" /\ cfgs[c].phase = "live" /\ due' = due /\ pods' = pods
      /\ DOMAIN r.eps # {}
  BY DEF Begin, Blocked
<1>1. /\ cfgs' = [cfgs EXCEPT ![c].fin = TRUE]
      /\ work' = [Idle EXCEPT
            !.pc = IF same THEN "look" ELSE "settle",
            !.c = c, !.gen = cfgs[c].gen, !.status = cfgs[c].status,
            !.want = Wanted(r), !.rds = r.rds, !.eps = r.eps,
            !.see = IF same THEN DOMAIN r.eps ELSE {},
            !.push = IF same THEN {} ELSE DOMAIN r.eps]
  BY DEF Begin
<1>2. same => cfgs[c].status.hash =
                combinedSyncFingerprint(Wanted(r), r.rds, r.eps)
  BY DEF unchanged
<1> HIDE DEF r, same
<1>3. /\ DOMAIN work' = DOMAIN Idle
      /\ work'.pc = IF same THEN "look" ELSE "settle"
      /\ work'.c = c /\ work'.status = cfgs[c].status
      /\ work'.want = Wanted(r) /\ work'.rds = r.rds /\ work'.eps = r.eps
      /\ work'.see = IF same THEN DOMAIN r.eps ELSE {}
      /\ work'.push = IF same THEN {} ELSE DOMAIN r.eps
      /\ work'.ok = {}
  BY <1>1 DEF Idle
<1>4. /\ DOMAIN cfgs' = Configs
      /\ \A d \in Configs : /\ DOMAIN cfgs'[d] = DOMAIN cfgs[d]
                            /\ cfgs'[d].status = cfgs[d].status
                            /\ cfgs'[d].phase = cfgs[d].phase
                            /\ d # c => cfgs'[d].fin = cfgs[d].fin
      /\ cfgs'[c].fin = TRUE
  <2>1. cfgs' = [cfgs EXCEPT ![c].fin = TRUE]
    BY <1>1
  <2> QED BY <2>1 DEF Shape
<1>5. Shape'
  BY <1>0, <1>3, <1>4, SMT DEF Shape, Idle
<1>6. Guarded'
  BY <1>0, <1>4, ZenonT(30) DEF Guarded
<1>7. Informed'
  <2>1. CASE same
    BY <2>1, <1>0, <1>2, <1>3, <1>4, SMT
    DEF Informed, Checking, combinedSyncFingerprint
  <2>2. CASE ~same
    BY <2>2, <1>0, <1>3, <1>4 DEF Informed, Checking
  <2> QED BY <2>1, <2>2
<1>8. work'.pc \in Checking /\ work.pc \notin Checking
  BY <1>0, <1>3 DEF Checking
<1>9. Seen' = {}
  <2>1. CASE same
    BY <2>1, <1>3 DEF Seen
  <2>2. CASE ~same
    BY <2>2, <1>3 DEF Seen
  <2> QED BY <2>1, <2>2
<1>10. /\ Passing.open = FALSE
       /\ Passing'.open /\ Passing'.owner = c /\ Passing'.seen = {}
  BY <1>3, <1>8, <1>9 DEF Passing, Checking
<1>11. \A d \in Configs : cfgs'[d].status.hash = cfgs[d].status.hash
  BY <1>4
<1> QED BY <1>0, <1>5, <1>6, <1>7, <1>10, <1>11 DEF V!Open, RunningAt

\* A configuration that cannot be served now loses no more than its Ready.
LEMMA BlockedStep ==
    ASSUME RecordInv, NEW c \in Configs, BeginBlocked(c)
    PROVE  RecordInv' /\ V!Change
<1> USE DEF RecordInv
<1>1. /\ work.pc = "idle" /\ cfgs[c].phase = "live" /\ due' = due /\ work' = work
      /\ \E st : /\ cfgs' = [cfgs EXCEPT ![c].fin = TRUE, ![c].status = st]
                 /\ DOMAIN st = DOMAIN cfgs[c].status
                 /\ st.hash = cfgs[c].status.hash
  <2>1. PICK lost \in BOOLEAN : cfgs' = [cfgs EXCEPT
                ![c].fin = TRUE,
                ![c].status =
                    IF lost THEN @
                    ELSE [@ EXCEPT !.ready = FALSE,
                                   !.degraded = BlockedDegraded(c, Reads(c))]]
    BY DEF BeginBlocked
  <2> DEFINE st == IF lost THEN cfgs[c].status
                   ELSE [cfgs[c].status EXCEPT
                            !.ready = FALSE,
                            !.degraded = BlockedDegraded(c, Reads(c))]
  <2>2. cfgs' = [cfgs EXCEPT ![c].fin = TRUE, ![c].status = st]
    BY <2>1 DEF Shape
  <2>3. DOMAIN st = DOMAIN cfgs[c].status /\ st.hash = cfgs[c].status.hash
    BY DEF Shape
  <2> HIDE DEF st
  <2> QED BY <2>2, <2>3 DEF BeginBlocked
<1>2. PICK st : /\ cfgs' = [cfgs EXCEPT ![c].fin = TRUE, ![c].status = st]
                /\ DOMAIN st = DOMAIN cfgs[c].status
                /\ st.hash = cfgs[c].status.hash
  BY <1>1
<1>3. /\ DOMAIN cfgs' = Configs
      /\ \A d \in Configs : /\ DOMAIN cfgs'[d] = DOMAIN cfgs[d]
                            /\ cfgs'[d].phase = cfgs[d].phase
                            /\ d # c => cfgs'[d] = cfgs[d]
      /\ cfgs'[c].fin = TRUE /\ cfgs'[c].status = st
  BY <1>2, ZenonT(30) DEF Shape
<1>4. work.pc = "idle" /\ cfgs[c].phase = "live" /\ due' = due /\ work' = work
  BY <1>1
<1>5. Shape' /\ Guarded'
  BY <1>2, <1>3, <1>4, ZenonT(30) DEF Shape, Guarded
<1>6. Informed'
  BY <1>4 DEF Informed, Checking
<1>7. \A d \in Configs : cfgs'[d].status.hash = cfgs[d].status.hash
  BY <1>2, <1>3
<1>8. Passing' = Passing
  BY <1>4 DEF Passing, Seen, Target
<1> QED BY <1>4, <1>5, <1>6, <1>7, <1>8, Unseen

----------------------------------------------------------------------------
(* The finalizer, which writes no record. *)

WorkShape(w) ==
    /\ DOMAIN w = {"pc", "c", "gen", "status", "want", "rds", "eps", "see",
                   "push", "done", "ok", "fresh", "told"}
    /\ DOMAIN w.status = {"hash", "synced", "gen", "ready", "degraded"}

\* A pass that is not about a record, before and after a step.
LEMMA OffRecord ==
    ASSUME work.pc \notin Checking, work'.pc \notin Checking,
           work'.pc # "idle" => work'.c \in Configs
    PROVE  Informed' /\ Passing' = Passing
  BY DEF Informed, Passing, Checking

\* A finalizer changes what runs at the replicas, and no record.
LEMMA FinalizerSteps ==
    ASSUME RecordInv,
           \/ \E c \in Configs : BeginFinalize(c)
           \/ FinalizeClear \/ FinalizeUnion \/ FinalizePush
    PROVE  RecordInv' /\ V!Change
<1> USE DEF RecordInv
<1>1. UNCHANGED <<cfgs, due>>
  BY DEF BeginFinalize, FinalizeClear, FinalizeUnion, FinalizePush
<1>2. WorkShape(Idle) /\ Idle.pc = "idle"
  BY DEF Idle, WorkShape, NoStatus
<1>3. /\ work.pc \notin Checking /\ work'.pc \notin Checking
      /\ work'.pc # "idle" => work'.c \in Configs
      /\ WorkShape(work')
  <2>1. ASSUME NEW c \in Configs, BeginFinalize(c) PROVE <1>3
    <3>1. \E see : \E pc \in {"clear", "union"} :
            work' = [Idle EXCEPT !.pc = pc, !.c = c, !.eps = Endpoints, !.see = see]
      <4> DEFINE rds == buildRDSReconcileState(cfgs[c].spec)
                 clear == rds # None /\ rds # RDSError("rdsAbsent")
                 pc == IF clear THEN "clear" ELSE "union"
                 see == IF clear THEN DOMAIN Endpoints ELSE {}
      <4>1. work' = [Idle EXCEPT !.pc = pc, !.c = c, !.eps = Endpoints, !.see = see]
        BY <2>1 DEF BeginFinalize
      <4> HIDE DEF clear
      <4>2. pc \in {"clear", "union"}
        OBVIOUS
      <4> HIDE DEF pc, see
      <4> QED BY <4>1, <4>2
    <3>2. work.pc = "idle"
      BY <2>1 DEF BeginFinalize
    <3> QED BY <3>1, <3>2 DEF Checking, Idle, WorkShape, NoStatus
  <2>2. CASE FinalizeClear
    <3>1. \/ work' = Idle
          \/ \E see : \E pc \in {"clear", "union"} :
                work' = [work EXCEPT !.see = see, !.pc = pc]
      <4>1. PICK p \in First(work.see) :
              LET rest == work.see \ {p}
              IN  \/ work' = Idle
                  \/ work' = [work EXCEPT !.see = rest,
                                !.pc = IF rest = {} THEN "union" ELSE "clear"]
        BY <2>2 DEF FinalizeClear
      <4> DEFINE rest == work.see \ {p}
                 pc == IF rest = {} THEN "union" ELSE "clear"
      <4>2. work' = Idle \/ work' = [work EXCEPT !.see = rest, !.pc = pc]
        BY <4>1
      <4>3. pc \in {"clear", "union"}
        OBVIOUS
      <4> HIDE DEF rest, pc
      <4> QED BY <4>2, <4>3
    <3>2. work.pc = "clear"
      BY <2>2 DEF FinalizeClear
    <3> QED BY <3>1, <3>2, <1>2 DEF Checking, WorkShape, Shape, Informed
  <2>3. CASE FinalizeUnion
    BY <2>3 DEF FinalizeUnion, Checking, WorkShape, Shape, Informed
  <2>4. CASE FinalizePush
    BY <2>4, ZenonT(30) DEF FinalizePush, Checking, WorkShape, Shape, Informed
  <2> QED BY <2>1, <2>2, <2>3, <2>4
<1>4. Informed' /\ Passing' = Passing
  BY <1>3, OffRecord
<1>5. Shape' /\ Guarded'
  BY <1>1, <1>3 DEF Shape, Guarded, WorkShape
<1> QED BY <1>1, <1>4, <1>5, Unseen

\* The clock of one record runs out, and the record may go.
LEMMA Aging ==
    ASSUME Shape, NEW c \in Configs,
           due' = [due EXCEPT ![c] = TRUE],
           [d \in Configs |-> cfgs'[d].status.hash] \in
             {[d \in Configs |-> cfgs[d].status.hash],
              [[d \in Configs |-> cfgs[d].status.hash] EXCEPT ![c] = None]},
           Passing' = Passing, pods' = pods
    PROVE  V!Age
<1>1. [d \in Configs |-> ~due'[d]] =
        [[d \in Configs |-> ~due[d]] EXCEPT ![c] = FALSE]
  <2>1. \A d \in Configs : due'[d] = IF d = c THEN TRUE ELSE due[d]
    BY DEF Shape
  <2> QED BY <2>1
<1> DEFINE h  == [d \in Configs |-> cfgs[d].status.hash]
           h1 == [d \in Configs |-> cfgs'[d].status.hash]
<1>2. h1 = h \/ h1 = [h EXCEPT ![c] = None]
  OBVIOUS
<1>3. UNCHANGED [a \in Addrs |->
                    {RunningAt(q) : q \in {q \in Pods : pods[q].addr = a}}]
  BY DEF RunningAt
<1> QED BY <1>1, <1>2, <1>3 DEF V!Age

\* An object that goes away takes its record with it.
LEMMA Released ==
    ASSUME RecordInv, NEW c \in Configs,
           cfgs' = ReleaseNow(c), due' = [due EXCEPT ![c] = TRUE]
    PROVE  /\ DOMAIN cfgs' = Configs
           /\ cfgs'[c] = Absent /\ \A d \in Configs : d # c => cfgs'[d] = cfgs[d]
           /\ Guarded'
           /\ Passing' = Passing /\ pods' = pods => V!Age
<1> USE DEF RecordInv
<1>1. /\ DOMAIN cfgs' = Configs
      /\ cfgs'[c] = Absent /\ \A d \in Configs : d # c => cfgs'[d] = cfgs[d]
  BY DEF ReleaseNow, Shape
<1>2. Absent.status.hash = None
  BY DEF Absent, NoStatus
<1>3. Guarded'
  BY <1>1, <1>2, ZenonT(30) DEF Guarded
<1>4. [d \in Configs |-> cfgs'[d].status.hash] =
        [[d \in Configs |-> cfgs[d].status.hash] EXCEPT ![c] = None]
  BY <1>1, <1>2
<1>5. Passing' = Passing /\ pods' = pods => V!Age
  BY <1>4, Aging
<1> QED BY <1>1, <1>3, <1>5

\* A released object takes its record along; time makes a record due.
LEMMA ReleaseSteps ==
    ASSUME RecordInv,
           \/ \E c \in Configs : FinalizeSkip(c) \/ Clock(c)
           \/ FinalizeRelease
    PROVE  RecordInv' /\ (V!Age \/ V!Change)
<1> USE DEF RecordInv
<1>1. /\ WorkShape(Idle) /\ Idle.pc = "idle"
      /\ DOMAIN Absent = {"phase", "fin", "skip", "gen", "spec", "status"}
      /\ DOMAIN Absent.status = {"hash", "synced", "gen", "ready", "degraded"}
  BY DEF Idle, WorkShape, Absent, NoStatus
<1>2. ASSUME NEW c \in Configs, FinalizeSkip(c) PROVE RecordInv' /\ V!Age
  <2>1. /\ cfgs' = ReleaseNow(c) /\ due' = [due EXCEPT ![c] = TRUE]
        /\ pods' = pods /\ work' = work /\ work.pc = "idle"
    BY <1>2 DEF FinalizeSkip
  <2>2. Informed' /\ Passing' = Passing
    BY <2>1, OffRecord DEF Checking
  <2>3. Shape'
    BY <2>1, <1>1, Released DEF Shape
  <2> QED BY <2>1, <2>2, <2>3, Released
<1>3. ASSUME NEW c \in Configs, Clock(c) PROVE RecordInv' /\ V!Age
  <2>1. /\ cfgs' = cfgs /\ due' = [due EXCEPT ![c] = TRUE]
        /\ pods' = pods /\ work' = work /\ work.pc = "idle"
    BY <1>3 DEF Clock
  <2>2. Informed' /\ Passing' = Passing
    BY <2>1, OffRecord DEF Checking
  <2>3. Shape' /\ Guarded'
    BY <2>1 DEF Shape, Guarded
  <2> QED BY <2>1, <2>2, <2>3, Aging
<1>4. CASE FinalizeRelease
  <2>1. PICK released \in BOOLEAN :
            /\ cfgs' = IF released THEN ReleaseNow(work.c) ELSE cfgs
            /\ due' = [due EXCEPT ![work.c] = @ \/ released]
    <3>1. PICK lost \in BOOLEAN :
            LET released == work.ok = DOMAIN work.eps /\ work.fresh /\ ~lost
            IN  /\ cfgs' = IF released THEN ReleaseNow(work.c) ELSE cfgs
                /\ due' = [due EXCEPT ![work.c] = @ \/ released]
      BY <1>4 DEF FinalizeRelease
    <3> DEFINE released == work.ok = DOMAIN work.eps /\ work.fresh /\ ~lost
    <3>2. released \in BOOLEAN
      OBVIOUS
    <3> QED BY <3>1, <3>2
  <2>2. work.pc = "sweep" /\ work' = Idle /\ pods' = pods /\ work.c \in Configs
    BY <1>4 DEF FinalizeRelease, PassEnds, Informed
  <2>3. Informed' /\ Passing' = Passing
    BY <2>2, <1>1, OffRecord DEF Checking
  <2>4. CASE released
    <3>1. cfgs' = ReleaseNow(work.c) /\ due' = [due EXCEPT ![work.c] = TRUE]
      BY <2>1, <2>4
    <3>2. Shape'
      BY <3>1, <2>2, <1>1, Released, ZenonT(30) DEF Shape, WorkShape
    <3> QED BY <3>1, <3>2, <2>2, <2>3, Released
  <2>5. CASE ~released
    <3>1. cfgs' = cfgs /\ due' = due
      BY <2>1, <2>2, <2>5 DEF Shape
    <3>2. Shape' /\ Guarded'
      BY <3>1, <2>2, <1>1 DEF Shape, Guarded, WorkShape
    <3> QED BY <3>1, <3>2, <2>3, Unseen
  <2> QED BY <2>4, <2>5
<1> QED BY <1>2, <1>3, <1>4

----------------------------------------------------------------------------
(* The pass itself. *)

\* The addresses of the replicas, and of those seen.
LEMMA PassingOpen ==
    ASSUME work.pc \in Checking
    PROVE  /\ Passing = [open |-> TRUE, owner |-> work.c, target |-> Target,
                         at |-> {work.eps[p] : p \in DOMAIN work.eps},
                         seen |-> {work.eps[p] : p \in Seen}]
  BY DEF Passing, Checking

\* A pass; a variable stands for its flag in the proofs.
PassRecord(b, c, t, a, s) ==
    [open |-> b, owner |-> c, target |-> t, at |-> a, seen |-> s]

\* A push says nothing about what runs afterwards.
LEMMA ApplyStep ==
    ASSUME RecordInv, applyReplica
    PROVE  RecordInv' /\ V!Change
<1> USE DEF RecordInv
<1> DEFINE good(p, F, G, H) ==
             /\ Answering(p) # {}
             /\ ~\E q \in Answering(p) : CycleFails(pods[q], F, G, H)
<1>1. PICK p \in First(work.push) : \E done : \E see \in {{p}, {}} :
        work' = [work EXCEPT !.push = @ \ {p}, !.done = done, !.see = see]
  <2>1. PICK p \in First(work.push), F \in NativeFaults, G \in ProxyFaults,
             H \in ProxyFaults :
          work' = [work EXCEPT !.push = @ \ {p}, !.done = @ \cup Answering(p),
                               !.see = IF good(p, F, G, H) THEN {p} ELSE {}]
    BY ZenonT(30) DEF applyReplica
  <2> DEFINE see == IF good(p, F, G, H) THEN {p} ELSE {}
             done == work.done \cup Answering(p)
  <2>2. work' = [work EXCEPT !.push = @ \ {p}, !.done = done, !.see = see]
    BY <2>1
  <2> HIDE DEF good, done
  <2>3. see \in {{p}, {}}
    OBVIOUS
  <2> HIDE DEF see
  <2> QED BY <2>2, <2>3
<1>2. /\ work.pc = "settle" /\ UNCHANGED <<cfgs, due>>
  BY DEF applyReplica
<1>3. /\ DOMAIN work' = DOMAIN work
      /\ work'.pc = work.pc /\ work'.c = work.c /\ work'.want = work.want
      /\ work'.rds = work.rds /\ work'.eps = work.eps /\ work'.ok = work.ok
      /\ work'.status = work.status /\ work'.fresh = work.fresh
      /\ work'.push = work.push \ {p} /\ work'.see \subseteq {p}
  BY <1>1, SMT DEF Shape
<1>4. p \in work.push
  BY DEF First
<1>5. Shape' /\ Guarded'
  BY <1>2, <1>3 DEF Shape, Guarded
<1>6. Informed'
  BY <1>2, <1>3, <1>4 DEF Informed, Checking
<1>7. Passing' = Passing
  BY <1>2, <1>3, ZenonT(30) DEF Passing, Seen, Target
<1> QED BY <1>2, <1>5, <1>6, <1>7, Unseen

\* A pass that ends without a word leaves everything as it was.
LEMMA CrashStep ==
    ASSUME RecordInv, work' = Idle, UNCHANGED <<cfgs, due, pods>>
    PROVE  RecordInv' /\ (V!GiveUp \/ V!Change)
<1> USE DEF RecordInv
<1>1. WorkShape(Idle) /\ Idle.pc = "idle"
  BY DEF Idle, WorkShape, NoStatus
<1>2. Shape' /\ Guarded'
  BY <1>1 DEF Shape, Guarded, WorkShape
<1>3. Informed' /\ ~Passing'.open
  BY <1>1 DEF Informed, Checking, Passing
<1>4. CASE work.pc \in Checking
  BY <1>2, <1>3, <1>4 DEF V!GiveUp, Passing, Checking, RunningAt
<1>5. CASE work.pc \notin Checking
  <2>1. Passing' = Passing
    BY <1>1, <1>5 DEF Passing, Checking
  <2> QED BY <1>2, <1>3, <2>1, Unseen
<1> QED BY <1>4, <1>5

\* A replica found converged is seen at its address.
LEMMA Observed ==
    ASSUME Placed, NEW p, NEW reachable, observeReplica(p, reachable)
    PROVE  V!Satisfied(work.eps[p], Target)
<1>1. PICK q \in Pods : pods[q].addr = work.eps[p] /\ Converged(RunningAt(q), Target)
  BY DEF observeReplica, Answering
<1>2. work.eps[p] \in Addrs
  BY <1>1 DEF Placed
<1> QED BY <1>1, <1>2 DEF V!Satisfied

\* Reading a replica adds it to what was seen only if it has converged.
LEMMA ObserveStep ==
    ASSUME RecordInv, Placed, Observe
    PROVE  RecordInv' /\ (V!See \/ V!Restart \/ V!Change)
<1> USE DEF RecordInv
<1>1. /\ UNCHANGED <<cfgs, due, pods>>
      /\ work.pc \in {"look", "settle"} /\ work.pc \in Checking
  BY DEF Observe, Checking
<1>2. PICK p \in First(work.see), reachable \in BOOLEAN :
        LET seen == observeReplica(p, reachable)
            rest == work.see \ {p}
            push == IF seen THEN work.push ELSE work.push \cup {p}
        IN  work' = IF work.pc = "settle"
                    THEN [work EXCEPT !.see = rest,
                                      !.ok = IF seen THEN @ \cup {p} ELSE @]
                    ELSE IF rest = {} THEN AfterLook(push)
                    ELSE [work EXCEPT !.see = rest, !.push = push]
  BY DEF Observe
<1> DEFINE seen == observeReplica(p, reachable)
           rest == work.see \ {p}
           D == DOMAIN work.eps
<1>3. p \in work.see /\ p \in D
  BY <1>1 DEF First, Informed
<1>4. seen => V!Satisfied(work.eps[p], Target)
  BY Observed
\* What is common to all outcomes.
<1>5. ASSUME NEW see, NEW push, NEW ok, NEW pc \in Checking,
             work' = [work EXCEPT !.pc = pc, !.see = see, !.push = push, !.ok = ok]
      PROVE  /\ Shape' /\ Guarded'
             /\ work'.pc = pc /\ work'.c = work.c /\ work'.want = work.want
             /\ work'.rds = work.rds /\ work'.eps = work.eps
             /\ work'.see = see /\ work'.push = push /\ work'.ok = ok
             /\ work'.status = work.status /\ work'.fresh = work.fresh
             /\ Passing' = [Passing EXCEPT !.seen = {work.eps[x] : x \in Seen'}]
  <2>1. /\ DOMAIN work' = DOMAIN work
        /\ work'.pc = pc /\ work'.c = work.c /\ work'.want = work.want
        /\ work'.rds = work.rds /\ work'.eps = work.eps
        /\ work'.see = see /\ work'.push = push /\ work'.ok = ok
        /\ work'.status = work.status /\ work'.fresh = work.fresh
    BY <1>5 DEF Shape
  <2>2. Shape' /\ Guarded'
    BY <2>1, <1>1 DEF Shape, Guarded
  <2>3. Passing' = [Passing EXCEPT !.seen = {work.eps[x] : x \in Seen'}]
    <3>1. Passing' = [open |-> TRUE, owner |-> work'.c, target |-> Target',
                      at |-> {work'.eps[x] : x \in DOMAIN work'.eps},
                      seen |-> {work'.eps[x] : x \in Seen'}]
      BY <2>1 DEF Passing, Checking
    <3>2. Target' = Target
      BY <2>1 DEF Target
    <3>3. work'.eps = work.eps /\ work'.c = work.c
      BY <2>1
    <3>4. Passing' = [open |-> TRUE, owner |-> work.c, target |-> Target,
                      at |-> {work.eps[x] : x \in DOMAIN work.eps},
                      seen |-> {work.eps[x] : x \in Seen'}]
      BY <3>1, <3>2, <3>3
    <3>5. Passing = [open |-> TRUE, owner |-> work.c, target |-> Target,
                     at |-> {work.eps[x] : x \in DOMAIN work.eps},
                     seen |-> {work.eps[x] : x \in Seen}]
      BY <1>1, PassingOpen
    <3> DEFINE at == {work.eps[x] : x \in DOMAIN work.eps}
               s1 == {work.eps[x] : x \in Seen}
               s2 == {work.eps[x] : x \in Seen'}
    <3>6. /\ Passing = PassRecord(TRUE, work.c, Target, at, s1)
          /\ Passing' = PassRecord(TRUE, work.c, Target, at, s2)
      BY <3>4, <3>5 DEF PassRecord
    <3> HIDE DEF at, s1, s2
    <3>7. \A b : PassRecord(b, work.c, Target, at, s2) =
                  [PassRecord(b, work.c, Target, at, s1) EXCEPT !.seen = s2]
      BY SMT DEF PassRecord
    <3>8. \A b : /\ Passing = PassRecord(b, work.c, Target, at, s1)
                /\ Passing' = PassRecord(b, work.c, Target, at, s2)
                => Passing' = [Passing EXCEPT !.seen = s2]
      BY <3>7
    <3>9. Passing' = [Passing EXCEPT !.seen = s2]
      BY <3>6, <3>8
    <3> QED BY <3>9 DEF s2
  <2> QED BY <2>1, <2>2, <2>3
\* One replica more, the same ones, or none.
<1>6. ASSUME NEW S, NEW T, Seen = S, Seen' = T,
             Passing' = [Passing EXCEPT !.seen = {work.eps[x] : x \in T}],
             \/ T = S
             \/ seen /\ T = S \cup {p}
             \/ T = {}
      PROVE  V!See \/ V!Restart \/ V!Change
  <2>1. /\ Passing = [open |-> TRUE, owner |-> work.c, target |-> Target,
                      at |-> {work.eps[x] : x \in D},
                      seen |-> {work.eps[x] : x \in S}]
    BY <1>1, <1>6, PassingOpen
  <2>2. /\ UNCHANGED [d \in Configs |-> cfgs[d].status.hash]
        /\ UNCHANGED [d \in Configs |-> ~due[d]]
        /\ UNCHANGED [a \in Addrs |->
                        {RunningAt(q) : q \in {q \in Pods : pods[q].addr = a}}]
    BY <1>1 DEF RunningAt
  <2>3. CASE T = S
    <3>1. Passing' = Passing
      BY <1>6, <2>1, <2>3, SMT
    <3> QED BY <3>1, <1>1, Unseen
  <2>4. CASE seen /\ T = S \cup {p}
    <3>1. {work.eps[x] : x \in T} = {work.eps[x] : x \in S} \cup {work.eps[p]}
      BY <2>4
    <3>2. Passing' = [Passing EXCEPT !.seen = @ \cup {work.eps[p]}]
      BY <3>1, <2>1, <1>6
    <3>3. work.eps[p] \in Passing.at /\ Passing.open /\ Passing.target = Target
      BY <2>1, <1>3
    <3> QED BY <3>2, <3>3, <2>2, <2>4, <1>4 DEF V!See
  <2>5. CASE T = {}
    <3>1. Passing' = [Passing EXCEPT !.seen = {}] /\ Passing.open
      BY <2>5, <2>1, <1>6
    <3> QED BY <3>1, <2>2 DEF V!Restart
  <2> QED BY <1>6, <2>3, <2>4, <2>5
<1> HIDE DEF seen
<1>7. CASE work.pc = "settle"
  <2> DEFINE ok == IF seen THEN work.ok \cup {p} ELSE work.ok
  <2>1. work' = [work EXCEPT !.pc = "settle", !.see = rest, !.push = work.push,
                             !.ok = ok]
    BY <1>2, <1>7 DEF Shape, seen
  <2> HIDE DEF ok
  <2>2. /\ Shape' /\ Guarded'
        /\ work'.pc = "settle" /\ work'.c = work.c /\ work'.want = work.want
        /\ work'.rds = work.rds /\ work'.eps = work.eps
        /\ work'.see = rest /\ work'.push = work.push /\ work'.ok = ok
        /\ work'.status = work.status /\ work'.fresh = work.fresh
        /\ Passing' = [Passing EXCEPT !.seen = {work.eps[x] : x \in Seen'}]
    BY <2>1, <1>5 DEF Checking
  <2>3. ok = work.ok \/ (seen /\ ok = work.ok \cup {p})
    BY DEF ok
  <2>4. Seen = work.ok /\ Seen' = ok
    BY <2>2, <1>7 DEF Seen
  <2>5. Informed'
    BY <2>2, <2>3, <1>1, <1>3, <1>7 DEF Informed, Checking
  <2> QED BY <2>2, <2>3, <2>4, <2>5, <1>6
<1>8. CASE work.pc = "look"
  <2> DEFINE push == IF seen THEN work.push ELSE work.push \cup {p}
  <2>0. work' = IF rest = {} THEN AfterLook(push)
                ELSE [work EXCEPT !.see = rest, !.push = push]
    BY <1>2, <1>8 DEF seen
  <2>1. \/ seen /\ push = work.push
        \/ push = work.push \cup {p}
    OBVIOUS
  <2> HIDE DEF push
  <2>2. /\ work.see \cap work.push = {} /\ work.see \cup work.push \subseteq D
        /\ work.ok = {} /\ Seen = D \ (work.see \cup work.push)
    BY <1>8 DEF Informed, Seen
  <2>3. CASE rest # {}
    <3>1. work' = [work EXCEPT !.pc = "look", !.see = rest, !.push = push,
                               !.ok = work.ok]
      BY <2>0, <2>3, <1>8 DEF Shape
    <3>2. /\ Shape' /\ Guarded'
          /\ work'.pc = "look" /\ work'.c = work.c /\ work'.want = work.want
          /\ work'.rds = work.rds /\ work'.eps = work.eps
          /\ work'.see = rest /\ work'.push = push /\ work'.ok = work.ok
          /\ work'.status = work.status /\ work'.fresh = work.fresh
          /\ Passing' = [Passing EXCEPT !.seen = {work.eps[x] : x \in Seen'}]
      BY <3>1, <1>5 DEF Checking
    <3>3. Seen' = D \ (rest \cup push)
      BY <3>2 DEF Seen
    <3>4. Seen' = Seen \/ (seen /\ Seen' = Seen \cup {p})
      <4>1. CASE seen /\ push = work.push
        BY <4>1, <3>3, <2>2, <1>3
      <4>2. CASE push = work.push \cup {p}
        BY <4>2, <3>3, <2>2, <1>3
      <4> QED BY <4>1, <4>2, <2>1
    <3>5. Informed'
      BY <3>2, <2>1, <2>2, <2>3, <1>1, <1>3, <1>8, SMT
      DEF Informed, Checking, combinedSyncFingerprint
    <3> QED BY <3>2, <3>4, <3>5, <1>6
  <2>4. CASE rest = {} /\ push = {}
    <3>1. work' = [work EXCEPT !.pc = "clean", !.see = {}, !.push = work.push,
                               !.ok = work.ok]
      BY <2>0, <2>4 DEF Shape, AfterLook
    <3>2. /\ Shape' /\ Guarded'
          /\ work'.pc = "clean" /\ work'.c = work.c /\ work'.want = work.want
          /\ work'.rds = work.rds /\ work'.eps = work.eps
          /\ work'.status = work.status /\ work'.fresh = work.fresh
          /\ Passing' = [Passing EXCEPT !.seen = {work.eps[x] : x \in Seen'}]
      BY <3>1, <1>5 DEF Checking
    <3>3. Seen' = D
      BY <3>2 DEF Seen
    <3>4. seen /\ Seen' = Seen \cup {p}
      BY <3>3, <2>1, <2>2, <2>4, <1>3
    <3>5. Informed'
      BY <3>2, <1>1, <1>8, SMT DEF Informed, Checking, combinedSyncFingerprint
    <3> QED BY <3>2, <3>4, <3>5, <1>6
  <2>5. CASE rest = {} /\ push # {}
    <3>1. work' = [work EXCEPT !.pc = "settle", !.see = D \ push, !.push = push,
                               !.ok = work.ok]
      BY <2>0, <2>5 DEF Shape, AfterLook
    <3>2. /\ Shape' /\ Guarded'
          /\ work'.pc = "settle" /\ work'.c = work.c /\ work'.want = work.want
          /\ work'.rds = work.rds /\ work'.eps = work.eps
          /\ work'.see = D \ push /\ work'.push = push /\ work'.ok = work.ok
          /\ work'.status = work.status /\ work'.fresh = work.fresh
          /\ Passing' = [Passing EXCEPT !.seen = {work.eps[x] : x \in Seen'}]
      BY <3>1, <1>5 DEF Checking
    <3>3. Seen' = {}
      BY <3>2, <2>2 DEF Seen
    <3>4. Informed'
      BY <3>2, <2>1, <2>2, <1>1, <1>3, <1>8 DEF Informed, Checking
    <3> QED BY <3>2, <3>3, <3>4, <1>6
  <2> QED BY <2>3, <2>4, <2>5
<1> QED BY <1>1, <1>7, <1>8

\* A status is written with the fingerprint of this pass after all replicas
\* were seen, or with the one it has.
LEMMA StatusStep ==
    ASSUME RecordInv, work.pc \in {"settle", "clean"},
           NEW st, NEW recorded \in BOOLEAN, NEW lost \in BOOLEAN,
           SetStatus(st, recorded, lost),
           DOMAIN st = {"hash", "synced", "gen", "ready", "degraded"},
           recorded =>
            /\ st.hash = combinedSyncFingerprint(work.want, work.rds, work.eps)
            /\ Seen = DOMAIN work.eps,
           ~recorded => st.hash = work.status.hash
    PROVE  RecordInv' /\ V!Next
<1> USE DEF RecordInv
<1> DEFINE written == work.fresh /\ ~lost
<1>1. /\ cfgs' = IF written THEN [cfgs EXCEPT ![work.c].status = st] ELSE cfgs
      /\ due' = [due EXCEPT ![work.c] = @ /\ ~(written /\ recorded)]
      /\ work' = Idle /\ pods' = pods
  BY DEF SetStatus, PassEnds
<1>2. /\ work.c \in Configs /\ work.pc \in Checking
      /\ WorkShape(Idle) /\ Idle.pc = "idle"
  BY DEF Idle, WorkShape, NoStatus, Informed, Checking
<1>3. CASE ~written
  <2>1. cfgs' = cfgs /\ due' = due
    BY <1>1, <1>2, <1>3, SMT DEF Shape
  <2> QED BY <2>1, <1>1, CrashStep DEF V!Next
<1>4. CASE written
  <2>1. /\ DOMAIN cfgs' = Configs
        /\ \A d \in Configs : d # work.c => cfgs'[d] = cfgs[d]
        /\ DOMAIN cfgs'[work.c] = DOMAIN cfgs[work.c]
        /\ cfgs'[work.c].status = st
        /\ cfgs'[work.c].phase = cfgs[work.c].phase
        /\ cfgs'[work.c].fin = cfgs[work.c].fin
    BY <1>1, <1>2, <1>4, ZenonT(30) DEF Shape
  <2>2. /\ cfgs[work.c].phase # "absent" /\ cfgs[work.c].fin
        /\ work.status.hash = cfgs[work.c].status.hash
    BY <1>2, <1>4 DEF Informed
  <2>3. due' \in [Configs -> BOOLEAN]
    BY <1>1 DEF Shape
  <2>4. Shape' /\ Guarded'
    BY <2>1, <2>2, <2>3, <1>1, <1>2, SMT DEF Shape, Guarded, WorkShape
  <2>5. Informed' /\ ~Passing'.open
    BY <1>1, <1>2 DEF Informed, Checking, Passing
  <2>6. UNCHANGED [a \in Addrs |->
                    {RunningAt(q) : q \in {q \in Pods : pods[q].addr = a}}]
    BY <1>1 DEF RunningAt
  <2>7. /\ Passing.open /\ Passing.owner = work.c /\ Passing.target = Target
        /\ Passing.at = {work.eps[p] : p \in DOMAIN work.eps}
        /\ Passing.seen = {work.eps[p] : p \in Seen}
    BY <1>2, PassingOpen, SMT
  <2>8. CASE recorded
    <3>1. [d \in Configs |-> cfgs'[d].status.hash] =
            [[d \in Configs |-> cfgs[d].status.hash] EXCEPT ![Passing.owner] =
                [target |-> Passing.target, at |-> Passing.at]]
      BY <2>1, <2>7, <2>8, ZenonT(30) DEF combinedSyncFingerprint, Target
    <3>2. [d \in Configs |-> ~due'[d]] =
            [[d \in Configs |-> ~due[d]] EXCEPT ![Passing.owner] = TRUE]
      <4>1. \A d \in Configs : due'[d] = IF d = work.c THEN FALSE ELSE due[d]
        BY <1>1, <1>2, <1>4, <2>8 DEF Shape
      <4> QED BY <4>1, <2>7
    <3>3. Passing.seen = Passing.at
      BY <2>7, <2>8
    <3>4. V!Write
      BY <3>1, <3>2, <3>3, <2>5, <2>6, <2>7 DEF V!Write
    <3> QED BY <3>4, <2>4, <2>5 DEF V!Next
  <2>9. CASE ~recorded
    <3>1. UNCHANGED [d \in Configs |-> cfgs[d].status.hash]
      BY <2>1, <2>2, <2>9
    <3>2. due' = due
      BY <1>1, <1>2, <2>9, ZenonT(30) DEF Shape
    <3>3. V!GiveUp
      BY <3>1, <3>2, <2>5, <2>6, <2>7 DEF V!GiveUp
    <3> QED BY <3>3, <2>4, <2>5 DEF V!Next
  <2> QED BY <2>8, <2>9
<1> QED BY <1>3, <1>4

\* The end of a push leaves a record only if every replica was seen.
LEMMA FinishStep ==
    ASSUME RecordInv, Finish
    PROVE  RecordInv' /\ V!Next
<1> DEFINE complete == work.ok = DOMAIN work.eps
           applied == [hash |-> combinedSyncFingerprint(work.want, work.rds,
                                                        work.eps),
                       synced |-> Cardinality(DOMAIN work.eps),
                       gen |-> work.gen, ready |-> TRUE,
                       degraded |-> pgsqlMismatch(cfgs[work.c].spec)]
           partial == [work.status EXCEPT !.gen = work.gen,
                                          !.synced = Cardinality(work.ok),
                                          !.ready = FALSE, !.degraded = TRUE]
           st == IF complete THEN applied ELSE partial
<1>1. work.pc = "settle" /\ \E lost \in BOOLEAN : SetStatus(st, complete, lost)
  BY DEF Finish
<1>2. PICK lost \in BOOLEAN : SetStatus(st, complete, lost)
  BY <1>1
<1>3. complete \in BOOLEAN
  OBVIOUS
<1>4. DOMAIN work.status = {"hash", "synced", "gen", "ready", "degraded"}
  BY DEF RecordInv, Shape
<1>5. /\ DOMAIN partial = {"hash", "synced", "gen", "ready", "degraded"}
      /\ partial.hash = work.status.hash
  BY <1>4
<1>6. /\ DOMAIN applied = {"hash", "synced", "gen", "ready", "degraded"}
      /\ applied.hash = combinedSyncFingerprint(work.want, work.rds, work.eps)
  OBVIOUS
<1> HIDE DEF partial, applied
<1>7. /\ DOMAIN st = {"hash", "synced", "gen", "ready", "degraded"}
      /\ complete => st.hash = combinedSyncFingerprint(work.want, work.rds, work.eps)
      /\ ~complete => st.hash = work.status.hash
  BY <1>5, <1>6
<1>8. complete => Seen = DOMAIN work.eps
  BY <1>1 DEF Seen
<1> HIDE DEF complete, st
<1> QED BY <1>1, <1>2, <1>3, <1>7, <1>8, StatusStep

\* The end of a clean resync confirms a record all of which was seen.
LEMMA FinishCleanStep ==
    ASSUME RecordInv, FinishClean
    PROVE  RecordInv' /\ V!Next
<1> DEFINE st == [work.status EXCEPT
                    !.synced = Cardinality(DOMAIN work.eps),
                    !.degraded = @ \/ pgsqlMismatch(cfgs[work.c].spec)]
<1>1. work.pc = "clean" /\ \E lost \in BOOLEAN : SetStatus(st, TRUE, lost)
  BY DEF FinishClean
<1>2. PICK lost \in BOOLEAN : SetStatus(st, TRUE, lost)
  BY <1>1
<1>3. /\ DOMAIN work.status = {"hash", "synced", "gen", "ready", "degraded"}
      /\ work.status.hash = combinedSyncFingerprint(work.want, work.rds, work.eps)
  BY <1>1 DEF RecordInv, Shape, Informed
<1>4. /\ DOMAIN st = {"hash", "synced", "gen", "ready", "degraded"}
      /\ st.hash = combinedSyncFingerprint(work.want, work.rds, work.eps)
  BY <1>3
<1>5. Seen = DOMAIN work.eps
  BY <1>1 DEF Seen
<1> HIDE DEF st
<1> QED BY <1>1, <1>2, <1>4, <1>5, StatusStep

----------------------------------------------------------------------------
(* The initial states. *)

\* What is applied and recorded at the start is satisfied at every replica.
LEMMA InitStep ==
    ASSUME Init
    PROVE  RecordInv /\ Placed /\ V!Init
<1>1. PICK i \in Starts : AppliedInit(i.c, i.spec)
  BY DEF Init
<1> DEFINE c == i.c
           spec == i.spec
           all == autoPopulated(Union(<<configToDesired(spec)>>))
           rds == buildRDSReconcileState(spec)
           want == Native(all, rds)
           process(a) == FirstApplied(a, want, rds)
           status == [hash |-> combinedSyncFingerprint(want, rds, At),
                      synced |-> Cardinality(Pods), gen |-> 1,
                      ready |-> TRUE, degraded |-> pgsqlMismatch(spec)]
           applied == [Created(spec) EXCEPT !.fin = TRUE, !.status = status]
<1>2. /\ pods = [p \in Pods |-> process(At[p])]
      /\ cfgs = [d \in Configs |-> IF d = c THEN applied ELSE Absent]
  BY <1>1 DEF AppliedInit, Native
<1>3. /\ password \in Passwords /\ access = "ok"
      /\ due = [d \in Configs |-> FALSE] /\ work = Idle
  BY StartAssumption DEF StartsValid, Init
<1>4. /\ c \in Configs /\ IsConfig(spec.tables) /\ OperatorOwned(spec)
      /\ spec.plugin # None =>
            /\ FromSpec(spec.plugin, None) # None
            /\ IsTags(spec.plugin.tags)
            /\ Settable(spec.plugin, FreshProxy)
      /\ At \in [Pods -> Addrs]
  BY StartAssumption DEF StartsValid
<1>5. IsConfig(all)
  BY <1>3, <1>4, UnionOfOne
<1>6. Reachable(rds)
  <2>1. CASE spec.plugin = None
    BY <2>1 DEF buildRDSReconcileState, Reachable
  <2>2. CASE spec.plugin # None
    <3>1. rds = FromSpec(spec.plugin, None)
      BY <2>2, <1>3, <1>4 DEF buildRDSReconcileState
    <3>2. FromSpec(spec.plugin, None) =
            [auth |-> spec.plugin.auth, role |-> spec.plugin.role,
             scheme |-> spec.plugin.scheme, rest |-> spec.plugin.rest,
             pool |-> IF spec.plugin.pool = "" THEN DefaultPool ELSE spec.plugin.pool,
             targets |-> spec.plugin.targets, tags |-> spec.plugin.tags]
      BY <2>2, <1>4 DEF FromSpec
    <3>3. \E pool : rds =
            [auth |-> spec.plugin.auth, role |-> spec.plugin.role,
             scheme |-> spec.plugin.scheme, rest |-> spec.plugin.rest, pool |-> pool,
             targets |-> spec.plugin.targets, tags |-> spec.plugin.tags]
      BY <3>1, <3>2
    <3>4. /\ rds.tags = spec.plugin.tags
          /\ rds.role = spec.plugin.role /\ rds.scheme = spec.plugin.scheme
      <4> HIDE DEF rds
      <4> QED BY <3>3, SMT
    <3> QED BY <3>4, <2>2, <1>4 DEF Reachable, Settable
  <2> QED BY <2>1, <2>2
<1> HIDE DEF all, rds
<1>7. \A a : FreshlyRuns(process(a), a, want, rds)
  BY <1>5, <1>6, FreshConverges
<1> HIDE DEF want, process
<1>8. Placed
  BY <1>2, <1>4, <1>7 DEF Placed, ProcessFields, FreshlyRuns
<1>9. /\ DOMAIN status = {"hash", "synced", "gen", "ready", "degraded"}
      /\ status.hash = [target |-> <<want, rds>>, at |-> {At[p] : p \in Pods}]
  BY <1>4 DEF combinedSyncFingerprint
<1> HIDE DEF status
<1>10. /\ DOMAIN applied = {"phase", "fin", "skip", "gen", "spec", "status"}
       /\ applied.phase = "live" /\ applied.fin = TRUE /\ applied.status = status
       /\ DOMAIN Absent = {"phase", "fin", "skip", "gen", "spec", "status"}
       /\ Absent.status.hash = None
       /\ DOMAIN Absent.status = {"hash", "synced", "gen", "ready", "degraded"}
  BY DEF Created, Absent, NoStatus
<1> HIDE DEF applied
<1>11. WorkShape(Idle) /\ Idle.pc = "idle"
  BY DEF Idle, WorkShape, NoStatus
<1>12. Shape
  BY <1>2, <1>3, <1>9, <1>10, <1>11 DEF Shape, WorkShape
<1>13. Guarded
  BY <1>2, <1>10 DEF Guarded
<1>14. Informed
  BY <1>3, <1>11 DEF Informed, Checking
<1>15. ~Passing.open
  BY <1>3, <1>11 DEF Passing
<1>16. \A p \in Pods : V!Satisfied(At[p], <<want, rds>>)
  <2> SUFFICES ASSUME NEW p \in Pods PROVE V!Satisfied(At[p], <<want, rds>>)
    OBVIOUS
  <2>1. At[p] \in Addrs /\ pods[p].addr = At[p]
    BY <1>2, <1>4, <1>7 DEF FreshlyRuns
  <2>2. Converged(RunningAt(p), <<want, rds>>)
    BY <1>2, <1>7 DEF RunningAt, FreshlyRuns
  <2> QED BY <2>1, <2>2 DEF V!Satisfied
<1>17. \A d \in Configs :
          \/ cfgs[d].status.hash = None
          \/ /\ cfgs[d].status.hash.target = <<want, rds>>
             /\ cfgs[d].status.hash.at = {At[p] : p \in Pods}
  BY <1>2, <1>9, <1>10, SMT
<1>18. V!Init
  BY <1>15, <1>16, <1>17, SMT DEF V!Init
<1> QED BY <1>8, <1>12, <1>13, <1>14, <1>18 DEF RecordInv

----------------------------------------------------------------------------
(* The theorem. *)

\* Every step keeps the invariant and is a step of VerifiedRecord.
LEMMA NextStep ==
    ASSUME RecordInv, Placed, [Next]_vars
    PROVE  RecordInv' /\ Placed' /\ [V!Next]_V!vars
<1>1. Placed'
  BY PlacedStep
<1>2. ASSUME NEW c \in Configs,
             \/ Begin(c) \/ BeginBlocked(c) \/ FinalizeSkip(c) \/ BeginFinalize(c)
             \/ CreateConfig(c) \/ EditConfig(c) \/ DeleteConfig(c)
             \/ AnnotateSkip(c) \/ Clock(c)
      PROVE  RecordInv' /\ V!Next
  <2>1. CASE Begin(c)
    BY <2>1, BeginStep DEF V!Next
  <2>2. CASE BeginBlocked(c)
    BY <2>2, BlockedStep DEF V!Next
  <2>3. CASE FinalizeSkip(c) \/ Clock(c)
    BY <2>3, ReleaseSteps DEF V!Next
  <2>4. CASE BeginFinalize(c)
    BY <2>4, FinalizerSteps DEF V!Next
  <2>5. CASE CreateConfig(c)
    BY <2>5, CreateStep DEF V!Next
  <2>6. CASE EditConfig(c) \/ DeleteConfig(c) \/ AnnotateSkip(c)
    BY <2>6, UserSteps DEF V!Next
  <2> QED BY <1>2, <2>1, <2>2, <2>3, <2>4, <2>5, <2>6
<1>3. ASSUME Observe PROVE RecordInv' /\ V!Next
  BY <1>3, ObserveStep DEF V!Next
<1>4. ASSUME applyReplica PROVE RecordInv' /\ V!Next
  BY <1>4, ApplyStep DEF V!Next
<1>5. ASSUME Finish PROVE RecordInv' /\ V!Next
  BY <1>5, FinishStep
<1>6. ASSUME FinishClean PROVE RecordInv' /\ V!Next
  BY <1>6, FinishCleanStep
<1>7. ASSUME FinalizeClear \/ FinalizeUnion \/ FinalizePush PROVE RecordInv' /\ V!Next
  BY <1>7, FinalizerSteps DEF V!Next
<1>8. ASSUME FinalizeRelease PROVE RecordInv' /\ V!Next
  BY <1>8, ReleaseSteps DEF V!Next
<1>9. ASSUME ChangeSecret \/ ChangeAccess PROVE RecordInv' /\ V!Next
  BY <1>9, Still DEF ChangeSecret, ChangeAccess, V!Next
<1>10. ASSUME NEW q, \/ MonitorMove(q) \/ Wipe(q) \/ RestartPod(q) \/ ReplacePod(q)
                     \/ LoseReady(q) \/ BecomeReady(q)
       PROVE  RecordInv' /\ V!Next
  <2>1. UNCHANGED <<cfgs, due, work>>
    BY <1>10 DEF MonitorMove, Wipe, RestartPod, ReplacePod, LoseReady, BecomeReady
  <2> QED BY <2>1, Still DEF V!Next
<1>11. ASSUME Crash PROVE RecordInv' /\ V!Next
  BY <1>11, CrashStep DEF Crash, PassEnds, V!Next
<1>12. ASSUME UNCHANGED vars PROVE RecordInv' /\ V!Next
  BY <1>12, Still DEF vars, V!Next
<1> QED BY <1>1, <1>2, <1>3, <1>4, <1>5, <1>6, <1>7, <1>8, <1>9, <1>10, <1>11,
           <1>12, ZenonT(30) DEF Next

\* The configuration controller implements VerifiedRecord, for any number of
\* configurations and replicas and whatever fails: an applied fingerprint is
\* written, and the resync clock reset, only by a pass that read every replica
\* of that fingerprint back and found it converged (Reconcile,
\* finishNoOpResync, applyReplica, observeReplica).
THEOREM PromiseKept == Spec => Promise
<1>1. Init => RecordInv /\ Placed /\ V!Init
  BY InitStep
<1>2. RecordInv /\ Placed /\ [Next]_vars => RecordInv' /\ Placed' /\ [V!Next]_V!vars
  BY NextStep
<1> QED BY <1>1, <1>2, PTL DEF Spec, Promise, V!Spec

----------------------------------------------------------------------------
(* Processes keep their tables. *)

HasTables(x) ==
    /\ DOMAIN x = ProcessFields
    /\ IsTables(x.mem) /\ IsTables(x.rt) /\ IsTables(x.disk)

\* A push rewrites tables and removes none.
LEMMA PushedTables ==
    ASSUME NEW x, HasTables(x), NEW d, NEW aws, NEW F
    PROVE  HasTables(Pushed(x, d, aws, F))
<1> DEFINE y == SyncWithAWSDBProxy(d, aws, F,
                    [mem |-> x.mem, rt |-> x.rt, disk |-> x.disk])
<1>1. \/ Pushed(x, d, aws, F) = x
      \/ Pushed(x, d, aws, F) = [x EXCEPT !.mem = y.mem, !.rt = y.rt, !.disk = y.disk]
  BY DEF Pushed
<1>2. IsTables(y.mem) /\ IsTables(y.rt) /\ IsTables(y.disk)
  BY DEF SyncWithAWSDBProxy, IsTables
<1> HIDE DEF y
<1> QED BY <1>1, <1>2 DEF ProcessFields, HasTables

\* Nor does an apply cycle.
LEMMA CycleTables ==
    ASSUME NEW x, HasTables(x), NEW F, NEW G, NEW H
    PROVE  HasTables(Cycle(x, F, G, H))
<1> DEFINE cleared == [x EXCEPT !.rds = ClearMutable(@, G)]
           pushed == Pushed(cleared, work.want, TRUE, F)
<1>1. \/ Cycle(x, F, G, H) = Pushed(x, work.want, FALSE, F)
      \/ Cycle(x, F, G, H) = cleared
      \/ Cycle(x, F, G, H) = pushed
      \/ Cycle(x, F, G, H) = [pushed EXCEPT !.rds = Apply(@, work.rds, H)]
  BY DEF Cycle
<1>2. HasTables(cleared)
  BY DEF ProcessFields, HasTables
<1> HIDE DEF cleared
<1>3. HasTables(pushed)
  <2>1. \A aws : HasTables(Pushed(cleared, work.want, aws, F))
    BY <1>2, PushedTables
  <2> QED BY <2>1
<1> HIDE DEF pushed
<1>4. HasTables(Pushed(x, work.want, FALSE, F))
  BY PushedTables
<1> QED BY <1>1, <1>2, <1>3, <1>4 DEF ProcessFields, HasTables

\* What a process starts with are tables.
LEMMA StartedTables ==
    ASSUME NEW x, HasTables(x), NEW y \in Started(x)
    PROVE  HasTables(y)
<1> DEFINE run == [s \in Sections |-> Running(s, x.disk[s])]
<1>1. PICK r : y = [x EXCEPT !.ready = FALSE, !.mem = x.disk, !.rt = run, !.rds = r]
  BY DEF Started
<1>2. IsTables(run)
  BY DEF IsTables
<1> HIDE DEF run
<1> QED BY <1>1, <1>2 DEF ProcessFields, HasTables

Tabled == DOMAIN pods = Pods /\ \A q \in Pods : HasTables(pods[q])

\* Every process keeps its tables.
LEMMA TabledStep ==
    ASSUME Tabled, [Next]_vars
    PROVE  Tabled'
<1>1. CASE pods' = pods
  BY <1>1 DEF Tabled
<1>2. ASSUME NEW f, pods' = [q \in Pods |-> f[q]], \A q \in Pods : HasTables(f[q])
      PROVE  Tabled'
  BY <1>2 DEF Tabled
<1>3. ASSUME NEW q, NEW x, pods' = [pods EXCEPT ![q] = x], q \in Pods => HasTables(x)
      PROVE  Tabled'
  BY <1>3 DEF Tabled
<1>4. CASE applyReplica
  <2>1. PICK p \in First(work.push), F \in NativeFaults, G \in ProxyFaults,
             H \in ProxyFaults :
          pods' = [q \in Pods |-> IF q \in Answering(p) THEN Cycle(pods[q], F, G, H)
                                  ELSE pods[q]]
    BY <1>4, SMT DEF applyReplica
  <2> DEFINE f == [q \in Pods |-> IF q \in Answering(p) THEN Cycle(pods[q], F, G, H)
                                  ELSE pods[q]]
  <2>2. \A q \in Pods : HasTables(Cycle(pods[q], F, G, H))
    BY CycleTables DEF Tabled
  <2>3. \A q \in Pods : HasTables(f[q])
    BY <2>2 DEF Tabled
  <2>4. pods' = [q \in Pods |-> f[q]]
    BY <2>1
  <2> HIDE DEF f
  <2> QED BY <2>3, <2>4, <1>2
<1>5. CASE FinalizeClear
  <2>1. PICK p \in First(work.see), G \in ProxyFaults :
          pods' = [q \in Pods |-> IF q \in Answering(p)
                        THEN [pods[q] EXCEPT !.rds = ClearMutable(@, G)]
                        ELSE pods[q]]
    BY <1>5 DEF FinalizeClear
  <2> DEFINE f == [q \in Pods |-> IF q \in Answering(p)
                        THEN [pods[q] EXCEPT !.rds = ClearMutable(@, G)]
                        ELSE pods[q]]
  <2>2. \A q \in Pods : HasTables(f[q])
    BY DEF ProcessFields, Tabled, HasTables
  <2>3. pods' = [q \in Pods |-> f[q]]
    BY <2>1
  <2> HIDE DEF f
  <2> QED BY <2>2, <2>3, <1>2
<1>6. CASE FinalizePush
  <2>1. PICK p \in First(work.push), F \in NativeFaults :
          pods' = [q \in Pods |-> IF q \in Answering(p)
                        THEN Pushed(pods[q], work.want, FALSE, F) ELSE pods[q]]
    BY <1>6 DEF FinalizePush
  <2> DEFINE f == [q \in Pods |-> IF q \in Answering(p)
                        THEN Pushed(pods[q], work.want, FALSE, F) ELSE pods[q]]
  <2>2. \A aws : \A q \in Pods : HasTables(Pushed(pods[q], work.want, aws, F))
    BY PushedTables DEF Tabled
  <2>3. \A q \in Pods : HasTables(f[q])
    BY <2>2 DEF Tabled
  <2>4. pods' = [q \in Pods |-> f[q]]
    BY <2>1
  <2> HIDE DEF f
  <2> QED BY <2>3, <2>4, <1>2
<1>7. ASSUME NEW q \in Fragile, MonitorMove(q) PROVE Tabled'
  <2>1. \E k, to : pods' = [pods EXCEPT ![q].rt["mysql_servers"] =
                                Moved(pods[q].rt["mysql_servers"], k, to)]
    BY <1>7 DEF MonitorMove
  <2>2. PICK v : pods' = [pods EXCEPT ![q].rt["mysql_servers"] = v]
    BY <2>1
  <2> DEFINE x == [pods[q] EXCEPT !.rt["mysql_servers"] = v]
  <2>3. pods' = [pods EXCEPT ![q] = x]
    BY <2>2
  <2>4. q \in Pods => HasTables(x)
    BY DEF ProcessFields, Tabled, HasTables, IsTables
  <2> HIDE DEF x
  <2> QED BY <2>3, <2>4, <1>3
<1>8. ASSUME NEW q \in Fragile, Wipe(q) PROVE Tabled'
  <2>1. PICK t \in Wiped : pods' = [pods EXCEPT ![q].mem[t] = Empty, ![q].rt[t] = Empty]
    BY <1>8 DEF Wipe
  <2> DEFINE x == [pods[q] EXCEPT !.mem[t] = Empty, !.rt[t] = Empty]
  <2>2. q \in Pods => HasTables(x)
    BY DEF ProcessFields, Tabled, HasTables, IsTables
  <2>3. pods' = [pods EXCEPT ![q] = x]
    BY <2>1
  <2> HIDE DEF x
  <2> QED BY <2>2, <2>3, <1>3
<1>9. ASSUME NEW q \in Fragile, RestartPod(q) PROVE Tabled'
  <2>1. \A x \in Started(pods[q]) : q \in Pods => HasTables(x)
    BY StartedTables DEF Tabled
  <2> QED BY <2>1, <1>3, <1>9 DEF RestartPod
<1>10. ASSUME NEW q \in Fragile, ReplacePod(q) PROVE Tabled'
  <2>1. PICK a \in Addrs : \E x \in Started(pods[q]) \cup {Blank(a)} :
          pods' = [pods EXCEPT ![q] = [x EXCEPT !.addr = a]]
    BY <1>10 DEF ReplacePod
  <2>2. PICK x \in Started(pods[q]) \cup {Blank(a)} :
          pods' = [pods EXCEPT ![q] = [x EXCEPT !.addr = a]]
    BY <2>1
  <2>3. HasTables(Blank(a))
    BY DEF Blank, ProcessFields, HasTables, IsTables, NoTables
  <2>4. q \in Pods => HasTables(x)
    BY <2>3, StartedTables DEF Tabled
  <2>5. q \in Pods => HasTables([x EXCEPT !.addr = a])
    BY <2>4 DEF ProcessFields, HasTables
  <2> QED BY <2>2, <2>5, <1>3
<1>11. ASSUME NEW q, LoseReady(q) \/ BecomeReady(q) PROVE Tabled'
  <2>1. PICK r \in BOOLEAN : pods' = [pods EXCEPT ![q].ready = r]
    BY <1>11 DEF LoseReady, BecomeReady
  <2>2. pods' = [pods EXCEPT ![q] = [pods[q] EXCEPT !.ready = r]]
    BY <2>1
  <2>3. q \in Pods => HasTables([pods[q] EXCEPT !.ready = r])
    BY DEF ProcessFields, Tabled, HasTables
  <2> QED BY <2>2, <2>3, <1>3
<1>12. ASSUME NEW c \in Configs,
              \/ Begin(c) \/ BeginBlocked(c) \/ FinalizeSkip(c) \/ BeginFinalize(c)
              \/ CreateConfig(c) \/ EditConfig(c) \/ DeleteConfig(c)
              \/ AnnotateSkip(c) \/ Clock(c)
       PROVE pods' = pods
  BY <1>12 DEF Begin, BeginBlocked, FinalizeSkip, BeginFinalize, CreateConfig,
     EditConfig, DeleteConfig, AnnotateSkip, Clock
<1>13. CASE Observe \/ FinalizeUnion \/ FinalizeRelease
            \/ ChangeSecret \/ ChangeAccess \/ Crash
  BY <1>13, <1>1 DEF Observe, FinalizeUnion, FinalizeRelease, ChangeSecret,
     ChangeAccess, Crash
<1>14. CASE Finish \/ FinishClean
  BY <1>14, <1>1 DEF Finish, FinishClean, SetStatus
<1>15. CASE UNCHANGED vars
  BY <1>15 DEF vars, Tabled
<1> QED BY <1>1, <1>4, <1>5, <1>6, <1>7, <1>8, <1>9, <1>10, <1>11, <1>12, <1>13,
           <1>14, <1>15, ZenonT(30) DEF Next

----------------------------------------------------------------------------
(* What a pass asks for. *)

\* The union of configurations is a set of tables.
LEMMA UnionDesired ==
    ASSUME NEW without
    PROVE  LET u == buildUnionedDesired(without)
           IN  u # None => /\ DOMAIN u = DesiredSections
                           /\ \A s \in DesiredSections : IsTable(u[s])
<1> DEFINE ds == [c \in LiveConfigs \ {without} |-> configToDesired(cfgs[c].spec)]
           u == Union(ds)
<1>1. \/ buildUnionedDesired(without) = None
      \/ buildUnionedDesired(without) = autoPopulated(u)
  BY DEF buildUnionedDesired
<1> HIDE DEF ds
<1>2. DOMAIN u = DesiredSections /\ \A s \in DesiredSections : IsTable(u[s])
  BY SMT DEF Union, IsTable
<1> HIDE DEF u
<1>3. autoPopulated(u) = u \/ autoPopulated(u) = [u EXCEPT !["proxysql_servers"] = Peers]
  BY DEF autoPopulated
<1>4. IsTable(Peers)
  BY StartAssumption DEF StartsValid
<1> QED BY <1>1, <1>2, <1>3, <1>4

\* So is what remains of it, and what is left to the operator.
LEMMA WantedDesired ==
    /\ \A c : IsDesired(Remaining(c))
    /\ \A rds : IsDesired(Wanted([union |-> buildUnionedDesired(None), rds |-> rds]))
<1>1. \A without : IsDesired(buildUnionedDesired(without))
  BY UnionDesired DEF IsDesired
<1>2. ASSUME NEW spec PROVE IsDesired(cleanupDesired(spec))
  <2> DEFINE d == [s \in DesiredSections |-> Empty]
  <2>1. cleanupDesired(spec) \in {d, [d EXCEPT !["proxysql_servers"] = Peers]}
    BY DEF cleanupDesired
  <2> QED BY <2>1 DEF IsDesired
<1>3. \A d : DOMAIN NativeDesiredWithAWSDBProxy(d) = DesiredSections
  BY DEF NativeDesiredWithAWSDBProxy
<1>4. \A c : IsDesired(Remaining(c))
  BY <1>1, <1>2 DEF Remaining
<1>5. ASSUME NEW rds
      PROVE  IsDesired(Wanted([union |-> buildUnionedDesired(None), rds |-> rds]))
  <2> DEFINE u == buildUnionedDesired(None)
             w == Wanted([union |-> u, rds |-> rds])
  <2>1. w = u \/ w = NativeDesiredWithAWSDBProxy(u)
    BY DEF Wanted
  <2>2. IsDesired(u)
    BY <1>1
  <2> HIDE DEF u, w
  <2>3. IsDesired(w)
    BY <2>1, <2>2, <1>3 DEF IsDesired
  <2> QED BY <2>3 DEF u, w
<1> QED BY <1>4, <1>5

----------------------------------------------------------------------------
(* Every variable keeps its type. *)

\* An object x of name c, and all of them.
ObjectOK(x, c) ==
    /\ x.phase \in {"absent", "live", "deleting"}
    /\ x.spec \in Specs[c] \cup {None}
    /\ x.phase # "absent" => x.spec \in Specs[c]
    /\ x.status.synced \in 0..Cardinality(Pods)
    /\ x.phase = "deleting" => x.fin

ObjectsOK == \A c \in Configs : ObjectOK(cfgs[c], c)

\* The pass under way: its object is there and has its finalizer.
PassOK ==
    /\ work.pc \in {"idle", "look", "clean", "settle", "clear", "union", "sweep"}
    /\ work.pc # "idle" => cfgs[work.c].phase # "absent" /\ cfgs[work.c].fin
    /\ IsDesired(work.want)
    /\ work.see \cup work.push \cup work.ok \subseteq DOMAIN work.eps
    /\ DOMAIN work.eps \subseteq Pods

\* The rest.
AroundOK ==
    /\ password \in Passwords \cup {None}
    /\ access \in Accesses
    /\ loose \subseteq Pods /\ work.done \subseteq Pods
    /\ events \in 0..MaxEvents

TypeInv == RecordInv /\ Placed /\ Tabled /\ ObjectsOK /\ PassOK /\ AroundOK

\* The invariant says at least that every variable has its type.
LEMMA TypeInvTypeOK == TypeInv => TypeOK
  BY DEF TypeInv, RecordInv, Shape, Placed, Tabled, HasTables, ObjectsOK, ObjectOK,
     PassOK, AroundOK, TypeOK

\* The number of replicas a pass reached is at most that of all.
LEMMA Counted ==
    ASSUME NEW S, S \subseteq Pods
    PROVE  Cardinality(S) \in 0..Cardinality(Pods)
<1>1. IsFiniteSet(S) /\ Cardinality(S) <= Cardinality(Pods)
  BY PodsAssumption, FS_Subset
<1>2. Cardinality(S) \in Nat /\ Cardinality(Pods) \in Nat
  BY <1>1, PodsAssumption, FS_CardinalityType
<1> QED BY <1>1, <1>2, SMT

\* Everything else keeps its type.
LEMMA AroundStep ==
    ASSUME TypeInv, [Next]_vars
    PROVE  AroundOK'
<1> USE DEF TypeInv, AroundOK
<1>1. password' \in Passwords \cup {None}
  <2>1. CASE ChangeSecret
    BY <2>1 DEF ChangeSecret
  <2>2. CASE password' = password
    BY <2>2
  <2> QED BY <2>1, <2>2, ZenonT(60) DEF Next, vars, Begin, BeginBlocked, FinalizeSkip,
     BeginFinalize, CreateConfig, EditConfig, DeleteConfig, AnnotateSkip, Clock, Observe,
     applyReplica, Finish, FinishClean, SetStatus, FinalizeClear, FinalizeUnion,
     FinalizePush, FinalizeRelease, ChangeAccess, MonitorMove, Wipe, RestartPod,
     ReplacePod, LoseReady, BecomeReady, Crash
<1>2. access' \in Accesses
  <2>1. CASE ChangeAccess
    BY <2>1, AccessAssumption DEF ChangeAccess, Accesses
  <2>2. CASE access' = access
    BY <2>2
  <2> QED BY <2>1, <2>2, ZenonT(60) DEF Next, vars, Begin, BeginBlocked, FinalizeSkip,
     BeginFinalize, CreateConfig, EditConfig, DeleteConfig, AnnotateSkip, Clock, Observe,
     applyReplica, Finish, FinishClean, SetStatus, FinalizeClear, FinalizeUnion,
     FinalizePush, FinalizeRelease, ChangeSecret, MonitorMove, Wipe, RestartPod,
     ReplacePod, LoseReady, BecomeReady, Crash
<1>3. events' \in 0..MaxEvents
  <2>1. CASE \E k : Event(k)
    BY <2>1, BoundAssumption, SMT DEF Event
  <2>2. CASE events' = events
    BY <2>2
  <2> QED BY <2>1, <2>2, ZenonT(60) DEF Perhaps, Next, vars, Begin, BeginBlocked, FinalizeSkip,
     BeginFinalize, CreateConfig, EditConfig, DeleteConfig, AnnotateSkip, Clock, Observe,
     applyReplica, Finish, FinishClean, SetStatus, FinalizeClear, FinalizeUnion,
     FinalizePush, FinalizeRelease, ChangeSecret, ChangeAccess, MonitorMove, Wipe, RestartPod,
     ReplacePod, LoseReady, BecomeReady, Crash
<1>4. \A p : Answering(p) \subseteq Pods
  BY DEF Answering
<1>5. CASE UNCHANGED <<loose, work>>
  BY <1>1, <1>2, <1>3, <1>5
<1>6. ASSUME work'.done \subseteq Pods, loose' \subseteq Pods PROVE AroundOK'
  BY <1>1, <1>2, <1>3, <1>6
<1>7. Idle.done = {}
  BY DEF Idle
<1>8. ASSUME NEW b, PassEnds(b) PROVE AroundOK'
  BY <1>6, <1>7, <1>8 DEF PassEnds
<1>9. CASE Finish \/ FinishClean \/ FinalizeRelease \/ Crash
  BY <1>8, <1>9 DEF Finish, FinishClean, FinalizeRelease, Crash, SetStatus
<1>10. DOMAIN work = {"pc", "c", "gen", "status", "want", "rds", "eps", "see",
                      "push", "done", "ok", "fresh", "told"}
  BY DEF RecordInv, Shape
<1>11. CASE applyReplica
  <2>1. PICK p \in First(work.push) :
          /\ loose' \in {loose \ Answering(p), loose \cup Answering(p)}
          /\ work'.done = work.done \cup Answering(p)
    BY <1>10, <1>11, ZenonT(30) DEF applyReplica
  <2> QED BY <2>1, <1>4, <1>6
<1>12. CASE FinalizePush
  <2>1. PICK p \in First(work.push) :
          /\ loose' \in {loose \ Answering(p), loose \cup Answering(p)}
          /\ work'.done = work.done \cup Answering(p)
    BY <1>10, <1>12 DEF FinalizePush
  <2> QED BY <2>1, <1>4, <1>6
<1>13. CASE FinalizeClear
  <2>1. loose' = loose /\ (work'.done = work.done \/ work' = Idle)
    BY <1>10, <1>13 DEF FinalizeClear
  <2> QED BY <2>1, <1>6, <1>7
<1>14. CASE FinalizeUnion
  <2>1. /\ loose' = loose \cup (Pods \ DOMAIN work.eps)
        /\ work'.done = work.done
    BY <1>10, <1>14 DEF FinalizeUnion
  <2> QED BY <2>1, <1>6
<1>15. CASE Observe
  <2>1. loose' = loose /\ work'.done = work.done
    BY <1>10, <1>15 DEF Observe, AfterLook
  <2> QED BY <2>1, <1>6
<1>16. ASSUME NEW c \in Configs, Begin(c) \/ BeginFinalize(c) PROVE AroundOK'
  <2>1. loose' = loose /\ work'.done = {}
    BY <1>16, <1>7 DEF Begin, BeginFinalize, Idle
  <2> QED BY <2>1, <1>6
<1>17. ASSUME NEW c \in Configs, EditConfig(c) \/ DeleteConfig(c) \/ AnnotateSkip(c)
       PROVE  AroundOK'
  <2>1. loose' = loose /\ work'.done = work.done
    BY <1>10, <1>17 DEF EditConfig, DeleteConfig, AnnotateSkip, Outdated
  <2> QED BY <2>1, <1>6
<1>18. ASSUME NEW c \in Configs,
              BeginBlocked(c) \/ FinalizeSkip(c) \/ CreateConfig(c) \/ Clock(c)
       PROVE  AroundOK'
  <2>1. work' = work /\ loose' \in {loose, Pods}
    BY <1>18 DEF BeginBlocked, FinalizeSkip, CreateConfig, Clock
  <2> QED BY <2>1, <1>6
<1>19. ASSUME NEW q \in Pods,
              \/ MonitorMove(q) \/ Wipe(q) \/ RestartPod(q) \/ ReplacePod(q)
              \/ LoseReady(q) \/ BecomeReady(q)
       PROVE  AroundOK'
  <2>1. work' = work /\ loose' \in {loose, loose \cup {q}, loose \ {q}}
    BY <1>19 DEF MonitorMove, Wipe, RestartPod, ReplacePod, LoseReady, BecomeReady
  <2> QED BY <2>1, <1>6
<1>20. CASE ChangeSecret \/ ChangeAccess \/ UNCHANGED vars
  BY <1>5, <1>20 DEF ChangeSecret, ChangeAccess, vars
<1>21. Fragile \subseteq Pods
  BY PodsAssumption
<1> QED BY <1>9, <1>11, <1>12, <1>13, <1>14, <1>15, <1>16, <1>17, <1>18, <1>19, <1>20,
           <1>21, ZenonT(60) DEF Next

\* One object is changed, or none.
LEMMA ObjectChange ==
    ASSUME TypeInv, NEW c \in Configs, NEW x, cfgs' = [cfgs EXCEPT ![c] = x],
           ObjectOK(x, c)
    PROVE  ObjectsOK'
<1>1. DOMAIN cfgs = Configs
  BY DEF TypeInv, RecordInv, Shape
<1>2. \A d \in Configs : cfgs'[d] = IF d = c THEN x ELSE cfgs[d]
  BY <1>1
<1> QED BY <1>2, ZenonT(30) DEF TypeInv, ObjectsOK, ObjectOK

\* The objects keep their types.
LEMMA ObjectsStep ==
    ASSUME TypeInv, [Next]_vars
    PROVE  ObjectsOK'
<1>1. CASE cfgs' = cfgs
  BY <1>1 DEF TypeInv, ObjectsOK, ObjectOK
<1>2. /\ \A c \in Configs : ObjectOK(cfgs[c], c)
      /\ DOMAIN cfgs = Configs
      /\ \A c \in Configs :
            /\ DOMAIN cfgs[c] = {"phase", "fin", "skip", "gen", "spec", "status"}
            /\ DOMAIN cfgs[c].status = {"hash", "synced", "gen", "ready", "degraded"}
      /\ DOMAIN work.status = {"hash", "synced", "gen", "ready", "degraded"}
  BY DEF TypeInv, ObjectsOK, RecordInv, Shape
<1>3. \A c \in Configs : ObjectOK(Absent, c)
  <2>1. 0 \in 0..Cardinality(Pods)
    BY PodsAssumption, FS_CardinalityType, SMT
  <2> QED BY <2>1 DEF ObjectOK, Absent, NoStatus
<1>4. ASSUME NEW c \in Configs, cfgs' = ReleaseNow(c) PROVE ObjectsOK'
  BY <1>3, <1>4, ObjectChange DEF ReleaseNow
<1>5. ASSUME NEW c \in Configs, CreateConfig(c) PROVE ObjectsOK'
  <2>1. PICK s \in Specs[c] : cfgs' = [cfgs EXCEPT ![c] = Created(s)]
    BY <1>5 DEF CreateConfig
  <2>2. /\ Created(s).phase = "live" /\ Created(s).spec = s
        /\ Created(s).status = Absent.status
    BY DEF Created, Absent
  <2>3. ObjectOK(Created(s), c)
    BY <2>2, <1>3 DEF ObjectOK
  <2> QED BY <2>1, <2>3, ObjectChange
<1>6. ASSUME NEW c \in Configs, EditConfig(c) PROVE ObjectsOK'
  <2>1. PICK s \in Specs[c] : cfgs' = [cfgs EXCEPT ![c].spec = s, ![c].gen = @ + 1]
    BY <1>6 DEF EditConfig
  <2> DEFINE x == [cfgs[c] EXCEPT !.spec = s, !.gen = @ + 1]
  <2>2. cfgs' = [cfgs EXCEPT ![c] = x]
    BY <2>1, <1>2
  <2>3. /\ x.phase = cfgs[c].phase /\ x.fin = cfgs[c].fin /\ x.spec = s
        /\ x.status = cfgs[c].status
    BY <1>2
  <2>4. ObjectOK(x, c)
    BY <2>3, <1>2 DEF ObjectOK
  <2> QED BY <2>2, <2>4, ObjectChange
<1>7. ASSUME NEW c \in Configs, DeleteConfig(c) PROVE ObjectsOK'
  <2>1. CASE cfgs[c].fin
    <3> DEFINE x == [cfgs[c] EXCEPT !.phase = "deleting"]
    <3>1. cfgs' = [cfgs EXCEPT ![c] = x] /\ cfgs[c].phase = "live"
      BY <1>2, <1>7, <2>1 DEF DeleteConfig
    <3>2. /\ x.phase = "deleting" /\ x.fin = cfgs[c].fin /\ x.spec = cfgs[c].spec
          /\ x.status = cfgs[c].status
      BY <1>2
    <3>3. ObjectOK(cfgs[c], c)
      BY <1>2
    <3>4. ObjectOK(x, c)
      BY <3>1, <3>2, <3>3, <2>1 DEF ObjectOK
    <3> QED BY <3>1, <3>4, ObjectChange
  <2>2. CASE ~cfgs[c].fin
    BY <2>2, <1>4, <1>7 DEF DeleteConfig
  <2> QED BY <2>1, <2>2
<1>8. ASSUME NEW c \in Configs, AnnotateSkip(c) PROVE ObjectsOK'
  <2> DEFINE x == [cfgs[c] EXCEPT !.skip = TRUE]
  <2>1. cfgs' = [cfgs EXCEPT ![c] = x]
    BY <1>2, <1>8 DEF AnnotateSkip
  <2>2. /\ x.phase = cfgs[c].phase /\ x.fin = cfgs[c].fin /\ x.spec = cfgs[c].spec
        /\ x.status = cfgs[c].status
    BY <1>2
  <2>3. ObjectOK(x, c)
    BY <2>2, <1>2 DEF ObjectOK
  <2> QED BY <2>1, <2>3, ObjectChange
\* The finalizer is added and the status may change, but not its count.
<1>9. ASSUME NEW c \in Configs, Begin(c) \/ BeginBlocked(c) PROVE ObjectsOK'
  <2>1. \E x : /\ cfgs' = [cfgs EXCEPT ![c] = x]
               /\ x.phase = cfgs[c].phase /\ x.fin = TRUE /\ x.spec = cfgs[c].spec
               /\ x.status.synced = cfgs[c].status.synced
    <3>1. CASE Begin(c)
      <4> DEFINE x == [cfgs[c] EXCEPT !.fin = TRUE]
      <4>1. cfgs' = [cfgs EXCEPT ![c] = x]
        BY <3>1 DEF Begin
      <4>2. /\ x.phase = cfgs[c].phase /\ x.fin = TRUE /\ x.spec = cfgs[c].spec
            /\ x.status = cfgs[c].status
        BY <1>2
      <4> HIDE DEF x
      <4> QED BY <4>1, <4>2
    <3>2. CASE BeginBlocked(c)
      <4>1. PICK lost \in BOOLEAN : cfgs' = [cfgs EXCEPT
                ![c].fin = TRUE,
                ![c].status =
                    IF lost THEN @
                    ELSE [@ EXCEPT !.ready = FALSE,
                                   !.degraded = BlockedDegraded(c, Reads(c))]]
        BY <3>2 DEF BeginBlocked
      <4> DEFINE st == IF lost THEN cfgs[c].status
                       ELSE [cfgs[c].status EXCEPT
                                !.ready = FALSE,
                                !.degraded = BlockedDegraded(c, Reads(c))]
                 x == [cfgs[c] EXCEPT !.fin = TRUE, !.status = st]
      <4>2. cfgs' = [cfgs EXCEPT ![c] = x]
        BY <4>1, <1>2
      <4>3. st.synced = cfgs[c].status.synced
        BY <1>2
      <4> HIDE DEF st
      <4>4. /\ x.phase = cfgs[c].phase /\ x.fin = TRUE /\ x.spec = cfgs[c].spec
            /\ x.status = st
        BY <1>2
      <4> HIDE DEF x
      <4> QED BY <4>2, <4>3, <4>4
    <3> QED BY <1>9, <3>1, <3>2
  <2>2. PICK x : /\ cfgs' = [cfgs EXCEPT ![c] = x]
                 /\ x.phase = cfgs[c].phase /\ x.fin = TRUE /\ x.spec = cfgs[c].spec
                 /\ x.status.synced = cfgs[c].status.synced
    BY <2>1
  <2>3. ObjectOK(x, c)
    BY <2>2, <1>2 DEF ObjectOK
  <2> QED BY <2>2, <2>3, ObjectChange
\* A status that is written counts some of the replicas.
<1>10. ASSUME work.pc # "idle", NEW st, NEW recorded, NEW lost,
              SetStatus(st, recorded, lost), st.synced \in 0..Cardinality(Pods)
       PROVE  ObjectsOK'
  <2> DEFINE x == [cfgs[work.c] EXCEPT !.status = st]
  <2>1. work.c \in Configs
    BY <1>10 DEF TypeInv, RecordInv, Informed
  <2>2. cfgs' = cfgs \/ cfgs' = [cfgs EXCEPT ![work.c] = x]
    BY <1>10, <2>1, <1>2 DEF SetStatus
  <2>3. /\ x.phase = cfgs[work.c].phase /\ x.fin = cfgs[work.c].fin
        /\ x.spec = cfgs[work.c].spec /\ x.status = st
    BY <2>1, <1>2
  <2>4. ObjectOK(x, work.c)
    BY <2>1, <2>3, <1>2, <1>10 DEF ObjectOK
  <2> QED BY <2>1, <2>2, <2>4, <1>1, ObjectChange
<1>11. DOMAIN work.eps \subseteq Pods /\ work.ok \subseteq Pods
  BY DEF TypeInv, PassOK
<1>12. CASE Finish
  <2> DEFINE complete == work.ok = DOMAIN work.eps
             applied == [hash |-> combinedSyncFingerprint(work.want, work.rds,
                                                          work.eps),
                         synced |-> Cardinality(DOMAIN work.eps),
                         gen |-> work.gen, ready |-> TRUE,
                         degraded |-> pgsqlMismatch(cfgs[work.c].spec)]
             partial == [work.status EXCEPT !.gen = work.gen,
                                            !.synced = Cardinality(work.ok),
                                            !.ready = FALSE, !.degraded = TRUE]
             st == IF complete THEN applied ELSE partial
  <2>1. work.pc = "settle" /\ \E lost \in BOOLEAN : SetStatus(st, complete, lost)
    BY <1>12 DEF Finish
  <2>2. partial.synced = Cardinality(work.ok)
    BY <1>2
  <2>3. applied.synced = Cardinality(DOMAIN work.eps)
    OBVIOUS
  <2> HIDE DEF applied, partial
  <2>4. st.synced \in 0..Cardinality(Pods)
    BY <2>2, <2>3, <1>11, Counted
  <2> HIDE DEF st
  <2> QED BY <2>1, <2>4, <1>10
<1>13. CASE FinishClean
  <2> DEFINE st == [work.status EXCEPT
                        !.synced = Cardinality(DOMAIN work.eps),
                        !.degraded = @ \/ pgsqlMismatch(cfgs[work.c].spec)]
  <2>1. work.pc = "clean" /\ \E lost \in BOOLEAN : SetStatus(st, TRUE, lost)
    BY <1>13 DEF FinishClean
  <2>2. st.synced = Cardinality(DOMAIN work.eps)
    BY <1>2
  <2> HIDE DEF st
  <2>3. st.synced \in 0..Cardinality(Pods)
    BY <2>2, <1>11, Counted
  <2> QED BY <2>1, <2>3, <1>10
<1>14. CASE FinalizeRelease
  <2>1. work.c \in Configs
    BY <1>14 DEF FinalizeRelease, TypeInv, RecordInv, Informed
  <2>2. cfgs' = ReleaseNow(work.c) \/ cfgs' = cfgs
    BY <1>14 DEF FinalizeRelease
  <2> QED BY <2>1, <2>2, <1>1, <1>4
<1>15. ASSUME NEW c \in Configs, FinalizeSkip(c) PROVE ObjectsOK'
  BY <1>4, <1>15 DEF FinalizeSkip
<1>16. ASSUME NEW c \in Configs, BeginFinalize(c) \/ Clock(c) PROVE ObjectsOK'
  BY <1>1, <1>16 DEF BeginFinalize, Clock
<1>17. ASSUME NEW q, \/ MonitorMove(q) \/ Wipe(q) \/ RestartPod(q) \/ ReplacePod(q)
                     \/ LoseReady(q) \/ BecomeReady(q)
       PROVE  ObjectsOK'
  BY <1>1, <1>17 DEF MonitorMove, Wipe, RestartPod, ReplacePod, LoseReady,
     BecomeReady
<1>18. CASE \/ Observe \/ applyReplica \/ FinalizeClear \/ FinalizeUnion \/ FinalizePush
            \/ ChangeSecret \/ ChangeAccess \/ Crash \/ UNCHANGED vars
  BY <1>1, <1>18 DEF Observe, applyReplica, FinalizeClear, FinalizeUnion,
     FinalizePush, ChangeSecret, ChangeAccess, Crash, vars
<1> QED BY <1>5, <1>6, <1>7, <1>8, <1>9, <1>12, <1>13, <1>14, <1>15, <1>16, <1>17,
           <1>18, ZenonT(60) DEF Next

\* The pass is as before, or nearly so, and its object stays.
LEMMA PassKept ==
    ASSUME TypeInv,
           work'.pc = "idle" \/ work'.pc = work.pc, work'.c = work.c,
           work'.want = work.want, work'.eps = work.eps,
           work'.see = work.see, work'.push = work.push, work'.ok = work.ok,
           work.pc # "idle" => /\ cfgs'[work.c].phase # "absent"
                               /\ cfgs'[work.c].fin
    PROVE  PassOK'
  BY DEF TypeInv, PassOK, IsDesired

\* The pass goes on with the same object and the same replicas.
LEMMA PassGoesOn ==
    ASSUME TypeInv, work.pc # "idle", cfgs' = cfgs, work'.c = work.c,
           work'.eps = work.eps, IsDesired(work'.want),
           work'.pc \in {"look", "clean", "settle", "clear", "union", "sweep"},
           work'.see \cup work'.push \cup work'.ok \subseteq DOMAIN work.eps
    PROVE  PassOK'
<1>1. IsDesired(work.want)'
  BY DEF IsDesired
<1> QED BY <1>1 DEF TypeInv, PassOK

\* The pass keeps its object, and stays with the replicas it started with.
LEMMA PassStep ==
    ASSUME TypeInv, [Next]_vars
    PROVE  PassOK'
<1>1. /\ DOMAIN cfgs = Configs
      /\ \A c \in Configs :
            /\ DOMAIN cfgs[c] = {"phase", "fin", "skip", "gen", "spec", "status"}
            /\ DOMAIN cfgs[c].status = {"hash", "synced", "gen", "ready", "degraded"}
      /\ DOMAIN work = {"pc", "c", "gen", "status", "want", "rds", "eps", "see",
                        "push", "done", "ok", "fresh", "told"}
      /\ work.pc # "idle" => /\ work.c \in Configs
                             /\ cfgs[work.c].phase # "absent" /\ cfgs[work.c].fin
      /\ IsDesired(work.want)
      /\ work.see \cup work.push \cup work.ok \subseteq DOMAIN work.eps
  BY DEF TypeInv, RecordInv, Shape, Informed, PassOK
<1>2. /\ Idle.pc = "idle" /\ Idle.want = None /\ Idle.eps = Empty
      /\ Idle.see = {} /\ Idle.push = {} /\ Idle.ok = {} /\ Idle.done = {}
  BY DEF Idle
<1>3. ASSUME work' = Idle PROVE PassOK'
  <2>1. DOMAIN Empty = {}
    BY DEF Empty
  <2> QED BY <1>2, <1>3, <2>1 DEF PassOK, IsDesired
<1>4. CASE work' = work /\ cfgs' = cfgs
  BY <1>1, <1>4, PassKept
<1>5. ASSUME NEW c \in Configs, BeginBlocked(c) \/ FinalizeSkip(c) \/ Clock(c)
      PROVE  PassOK'
  <2>1. work.pc = "idle" /\ work' = work
    BY <1>5 DEF BeginBlocked, FinalizeSkip, Clock
  <2> QED BY <2>1, PassKept
<1>6. ASSUME NEW c \in Configs, CreateConfig(c) PROVE PassOK'
  <2>1. PICK s \in Specs[c] : cfgs' = [cfgs EXCEPT ![c] = Created(s)]
    BY <1>6 DEF CreateConfig
  <2>2. work' = work /\ cfgs[c].phase = "absent"
    BY <1>6 DEF CreateConfig
  <2>3. work.pc # "idle" => cfgs'[work.c] = cfgs[work.c]
    BY <2>1, <2>2, <1>1
  <2> QED BY <2>2, <2>3, <1>1, PassKept
<1>7. ASSUME NEW c \in Configs, EditConfig(c) \/ DeleteConfig(c) \/ AnnotateSkip(c)
      PROVE  PassOK'
  <2>1. /\ work'.pc = work.pc /\ work'.c = work.c /\ work'.want = work.want
        /\ work'.eps = work.eps /\ work'.see = work.see /\ work'.push = work.push
        /\ work'.ok = work.ok
    BY <1>1, <1>7 DEF EditConfig, DeleteConfig, AnnotateSkip, Outdated
  <2>2. ASSUME work.pc # "idle"
        PROVE  cfgs'[work.c].phase # "absent" /\ cfgs'[work.c].fin
    <3>1. CASE EditConfig(c)
      <4>1. PICK s \in Specs[c] : cfgs' = [cfgs EXCEPT ![c].spec = s, ![c].gen = @ + 1]
        BY <3>1 DEF EditConfig
      <4> QED BY <4>1, <2>2, <1>1
    <3>2. CASE DeleteConfig(c)
      <4>1. CASE work.c = c
        <5>1. cfgs' = [cfgs EXCEPT ![c].phase = "deleting"]
          BY <3>2, <4>1, <2>2, <1>1 DEF DeleteConfig
        <5> QED BY <5>1, <2>2, <1>1
      <4>2. CASE work.c # c
        <5>1. cfgs' = [cfgs EXCEPT ![c].phase = "deleting"] \/ cfgs' = ReleaseNow(c)
          BY <3>2 DEF DeleteConfig
        <5>2. cfgs'[work.c] = cfgs[work.c]
          BY <5>1, <4>2, <2>2, <1>1 DEF ReleaseNow
        <5> QED BY <5>2, <2>2, <1>1
      <4> QED BY <4>1, <4>2
    <3>3. CASE AnnotateSkip(c)
      <4>1. cfgs' = [cfgs EXCEPT ![c].skip = TRUE]
        BY <3>3 DEF AnnotateSkip
      <4> QED BY <4>1, <2>2, <1>1
    <3> QED BY <1>7, <3>1, <3>2, <3>3
  <2> QED BY <2>1, <2>2, PassKept
<1>8. DOMAIN Endpoints \subseteq Pods
  BY DEF Endpoints
<1>9. ASSUME NEW c \in Configs, Begin(c) PROVE PassOK'
  <2> DEFINE r == Reads(c)
             same == unchanged(c, r)
  <2>1. /\ cfgs' = [cfgs EXCEPT ![c].fin = TRUE] /\ cfgs[c].phase = "live"
        /\ work' = [Idle EXCEPT
              !.pc = IF same THEN "look" ELSE "settle",
              !.c = c, !.gen = cfgs[c].gen, !.status = cfgs[c].status,
              !.want = Wanted(r), !.rds = r.rds, !.eps = r.eps,
              !.see = IF same THEN DOMAIN r.eps ELSE {},
              !.push = IF same THEN {} ELSE DOMAIN r.eps]
    BY <1>9 DEF Begin
  <2>2. /\ r = [union |-> buildUnionedDesired(None), rds |-> r.rds, eps |-> r.eps]
        /\ r.eps = Endpoints /\ r.union = buildUnionedDesired(None)
    BY DEF Reads
  <2> HIDE DEF r, same
  <2>3. IsDesired(Wanted(r))
    <3>1. Wanted(r) = Wanted([union |-> r.union, rds |-> r.rds])
      BY DEF Wanted
    <3> QED BY <3>1, <2>2, WantedDesired
  <2>4. /\ work'.pc \in {"look", "settle"} /\ work'.c = c /\ work'.want = Wanted(r)
        /\ work'.eps = r.eps /\ work'.ok = {}
        /\ work'.see \subseteq DOMAIN r.eps /\ work'.push \subseteq DOMAIN r.eps
    BY <2>1 DEF Idle
  <2>5. cfgs'[c].phase = "live" /\ cfgs'[c].fin
    BY <2>1, <1>1, ZenonT(30)
  <2>6. IsDesired(work.want)'
    BY <2>3, <2>4 DEF IsDesired
  <2> QED BY <2>2, <2>4, <2>5, <2>6, <1>8 DEF PassOK
<1>10. ASSUME NEW c \in Configs, BeginFinalize(c) PROVE PassOK'
  <2>1. /\ cfgs' = cfgs /\ cfgs[c].phase = "deleting"
        /\ work'.pc \in {"clear", "union"} /\ work'.c = c /\ work'.want = None
        /\ work'.eps = Endpoints /\ work'.ok = {} /\ work'.push = {}
        /\ work'.see \subseteq DOMAIN Endpoints
    BY <1>10 DEF BeginFinalize, Idle
  <2>2. cfgs[c].fin
    BY <2>1 DEF TypeInv, ObjectsOK, ObjectOK
  <2> QED BY <2>1, <2>2, <1>8 DEF PassOK, IsDesired
<1>11. CASE Observe
  <2>1. /\ cfgs' = cfgs /\ work.pc # "idle"
        /\ \E p \in work.see : \E push \in {work.push, work.push \cup {p}},
                                  ok \in {work.ok, work.ok \cup {p}} :
            \/ work' = [work EXCEPT !.see = work.see \ {p}, !.ok = ok]
            \/ work' = AfterLook(push)
            \/ work' = [work EXCEPT !.see = work.see \ {p}, !.push = push]
    <3>1. PICK p \in First(work.see), reachable \in BOOLEAN :
            LET seen == observeReplica(p, reachable)
                rest == work.see \ {p}
                push == IF seen THEN work.push ELSE work.push \cup {p}
            IN  work' = IF work.pc = "settle"
                        THEN [work EXCEPT !.see = rest,
                                 !.ok = IF seen THEN @ \cup {p} ELSE @]
                        ELSE IF rest = {} THEN AfterLook(push)
                        ELSE [work EXCEPT !.see = rest, !.push = push]
      BY <1>11 DEF Observe
    <3> DEFINE push == IF observeReplica(p, reachable) THEN work.push
                       ELSE work.push \cup {p}
               ok == IF observeReplica(p, reachable) THEN work.ok \cup {p} ELSE work.ok
    <3>2. \/ work' = [work EXCEPT !.see = work.see \ {p}, !.ok = ok]
          \/ work' = AfterLook(push)
          \/ work' = [work EXCEPT !.see = work.see \ {p}, !.push = push]
      BY <3>1, <1>1
    <3>3. p \in work.see
      BY DEF First
    <3>4. push \in {work.push, work.push \cup {p}} /\ ok \in {work.ok, work.ok \cup {p}}
      OBVIOUS
    <3> HIDE DEF push, ok
    <3>5. cfgs' = cfgs /\ work.pc # "idle"
      BY <1>11 DEF Observe
    <3> QED BY <3>2, <3>3, <3>4, <3>5
  <2>2. PICK p \in work.see : \E push \in {work.push, work.push \cup {p}},
                                 ok \in {work.ok, work.ok \cup {p}} :
            \/ work' = [work EXCEPT !.see = work.see \ {p}, !.ok = ok]
            \/ work' = AfterLook(push)
            \/ work' = [work EXCEPT !.see = work.see \ {p}, !.push = push]
    BY <2>1
  <2>7. PICK push \in {work.push, work.push \cup {p}},
              ok \in {work.ok, work.ok \cup {p}} :
            \/ work' = [work EXCEPT !.see = work.see \ {p}, !.ok = ok]
            \/ work' = AfterLook(push)
            \/ work' = [work EXCEPT !.see = work.see \ {p}, !.push = push]
    BY <2>2
  <2>3. work.pc \in {"look", "settle"}
    BY <1>11 DEF Observe
  <2>4. CASE work' = [work EXCEPT !.see = work.see \ {p}, !.ok = ok]
    BY <2>1, <2>2, <2>3, <2>4, <1>1, PassGoesOn, SMT
  <2>5. CASE work' = AfterLook(push)
    BY <2>1, <2>2, <2>3, <2>5, <1>1, PassGoesOn, SMT DEF AfterLook
  <2>6. CASE work' = [work EXCEPT !.see = work.see \ {p}, !.push = push]
    BY <2>1, <2>2, <2>3, <2>6, <1>1, PassGoesOn, SMT
  <2> QED BY <2>7, <2>4, <2>5, <2>6
<1>12. CASE applyReplica
  <2>1. PICK p \in First(work.push) : \E done : \E see \in {{p}, {}} :
        work' = [work EXCEPT !.push = @ \ {p}, !.done = done, !.see = see]
    <3> DEFINE good(p, F, G, H) ==
                 /\ Answering(p) # {}
                 /\ ~\E q \in Answering(p) : CycleFails(pods[q], F, G, H)
    <3>1. PICK p \in First(work.push), F \in NativeFaults, G \in ProxyFaults,
               H \in ProxyFaults :
            work' = [work EXCEPT !.push = @ \ {p}, !.done = @ \cup Answering(p),
                                 !.see = IF good(p, F, G, H) THEN {p} ELSE {}]
      BY <1>12, ZenonT(30) DEF applyReplica
    <3> DEFINE see == IF good(p, F, G, H) THEN {p} ELSE {}
               done == work.done \cup Answering(p)
    <3>2. work' = [work EXCEPT !.push = @ \ {p}, !.done = done, !.see = see]
      BY <3>1
    <3> HIDE DEF good, done
    <3>3. see \in {{p}, {}}
      OBVIOUS
    <3> HIDE DEF see
    <3> QED BY <3>2, <3>3
  <2>2. work.pc = "settle" /\ cfgs' = cfgs
    BY <1>12 DEF applyReplica
  <2>3. /\ work'.pc = work.pc /\ work'.c = work.c /\ work'.want = work.want
        /\ work'.eps = work.eps /\ work'.ok = work.ok
        /\ work'.push = work.push \ {p} /\ work'.see \subseteq {p}
    BY <2>1, <1>1, SMT
  <2>4. p \in work.push
    BY DEF First
  <2> QED BY <2>2, <2>3, <2>4, <1>1, PassGoesOn
<1>13. CASE FinalizeClear
  <2>1. PICK p \in First(work.see) :
            \/ work' = Idle
            \/ work' = [work EXCEPT !.see = work.see \ {p},
                          !.pc = IF work.see \ {p} = {} THEN "union" ELSE "clear"]
    BY <1>13 DEF FinalizeClear
  <2>2. CASE work' = [work EXCEPT !.see = work.see \ {p},
                          !.pc = IF work.see \ {p} = {} THEN "union" ELSE "clear"]
    <3>1. /\ work'.pc \in {"union", "clear"} /\ work'.c = work.c /\ work'.want = work.want
          /\ work'.eps = work.eps /\ work'.ok = work.ok /\ work'.push = work.push
          /\ work'.see \subseteq work.see
      BY <2>2, <1>1
    <3>2. work.pc = "clear" /\ cfgs' = cfgs
      BY <1>13 DEF FinalizeClear
    <3> QED BY <3>1, <3>2, <1>1, PassGoesOn
  <2> QED BY <2>1, <2>2, <1>3
<1>14. CASE FinalizeUnion
  <2>1. /\ work.pc = "union" /\ cfgs' = cfgs
        /\ work'.pc = "sweep" /\ work'.c = work.c /\ work'.want = Remaining(work.c)
        /\ work'.eps = work.eps /\ work'.ok = work.ok /\ work'.push = DOMAIN work.eps
        /\ work'.see = work.see
    BY <1>1, <1>14 DEF FinalizeUnion
  <2> QED BY <2>1, <1>1, PassGoesOn, WantedDesired, SMT
<1>15. CASE FinalizePush
  <2>1. PICK p \in First(work.push) : \E done : \E ok \in {work.ok, work.ok \cup {p}} :
            work' = [work EXCEPT !.push = @ \ {p}, !.done = done, !.ok = ok]
    <3>1. PICK p \in First(work.push), F \in NativeFaults :
            LET good == Answering(p) # {} /\ ~PushFails(work.want, FALSE, F)
            IN  work' = [work EXCEPT !.push = @ \ {p}, !.done = @ \cup Answering(p),
                                     !.ok = IF good THEN @ \cup {p} ELSE @]
      BY <1>15 DEF FinalizePush
    <3> DEFINE ok == IF Answering(p) # {} /\ ~PushFails(work.want, FALSE, F)
                     THEN work.ok \cup {p} ELSE work.ok
               done == work.done \cup Answering(p)
    <3>2. work' = [work EXCEPT !.push = @ \ {p}, !.done = done, !.ok = ok]
      BY <3>1
    <3>3. ok \in {work.ok, work.ok \cup {p}}
      OBVIOUS
    <3> HIDE DEF ok, done
    <3> QED BY <3>2, <3>3
  <2>2. work.pc = "sweep" /\ cfgs' = cfgs
    BY <1>15 DEF FinalizePush
  <2>3. /\ work'.pc = work.pc /\ work'.c = work.c /\ work'.want = work.want
        /\ work'.eps = work.eps /\ work'.ok \subseteq work.ok \cup {p}
        /\ work'.push = work.push \ {p} /\ work'.see = work.see
    BY <2>1, <1>1, SMT
  <2>4. p \in work.push
    BY DEF First
  <2> QED BY <2>2, <2>3, <2>4, <1>1, PassGoesOn
<1>16. CASE Finish \/ FinishClean \/ FinalizeRelease \/ Crash
  BY <1>3, <1>16 DEF Finish, FinishClean, FinalizeRelease, Crash, SetStatus,
     PassEnds
<1>17. ASSUME NEW q, \/ MonitorMove(q) \/ Wipe(q) \/ RestartPod(q) \/ ReplacePod(q)
                     \/ LoseReady(q) \/ BecomeReady(q)
       PROVE  PassOK'
  BY <1>4, <1>17 DEF MonitorMove, Wipe, RestartPod, ReplacePod, LoseReady,
     BecomeReady
<1>18. CASE ChangeSecret \/ ChangeAccess \/ UNCHANGED vars
  BY <1>4, <1>18 DEF ChangeSecret, ChangeAccess, vars
<1> QED BY <1>5, <1>6, <1>7, <1>9, <1>10, <1>11, <1>12, <1>13, <1>14, <1>15, <1>16,
           <1>17, <1>18, ZenonT(60) DEF Next

\* Every variable has its type at the start.
LEMMA TypeInit ==
    ASSUME Init
    PROVE  TypeInv
<1>1. PICK i \in Starts : AppliedInit(i.c, i.spec)
  BY DEF Init
<1> DEFINE all == autoPopulated(Union(<<configToDesired(i.spec)>>))
           rds == buildRDSReconcileState(i.spec)
           want == Native(all, rds)
           status == [hash |-> combinedSyncFingerprint(want, rds, At),
                      synced |-> Cardinality(Pods), gen |-> 1,
                      ready |-> TRUE, degraded |-> pgsqlMismatch(i.spec)]
           applied == [Created(i.spec) EXCEPT !.fin = TRUE, !.status = status]
<1>2. /\ pods = [p \in Pods |-> FirstApplied(At[p], want, rds)]
      /\ cfgs = [d \in Configs |-> IF d = i.c THEN applied ELSE Absent]
  BY <1>1 DEF AppliedInit, Native
<1> HIDE DEF rds, want
<1>3. Tabled
  <2>1. \A a : HasTables(Blank(a))
    BY DEF Blank, ProcessFields, HasTables, IsTables, NoTables
  <2>2. \A a, aws : HasTables(Pushed(Blank(a), want, aws, {}))
    BY <2>1, PushedTables
  <2>3. ASSUME NEW a PROVE HasTables(FirstApplied(a, want, rds))
    <3> DEFINE x == Pushed(Blank(a), want, rds # None, {})
               y == IF rds = None THEN x.rds ELSE Apply(x.rds, rds, {})
    <3>1. HasTables(x)
      BY <2>2
    <3>2. FirstApplied(a, want, rds) = [x EXCEPT !.ready = TRUE, !.rds = y]
      BY <3>1 DEF FirstApplied, HasTables, ProcessFields
    <3> HIDE DEF x, y
    <3> QED BY <3>1, <3>2 DEF HasTables, ProcessFields
  <2> QED BY <2>3, <1>2 DEF Tabled
<1>4. ObjectsOK
  <2>1. Cardinality(Pods) \in Nat
    BY PodsAssumption, FS_CardinalityType
  <2>2. /\ Absent.phase = "absent" /\ Absent.spec = None /\ Absent.status.synced = 0
        /\ applied.phase = "live" /\ applied.spec = i.spec
        /\ applied.status.synced = Cardinality(Pods)
    BY DEF Absent, NoStatus, Created
  <2> HIDE DEF applied
  <2>3. i.spec \in Specs[i.c]
    BY StartAssumption DEF StartsValid
  <2>4. ObjectOK(applied, i.c) /\ \A c \in Configs : ObjectOK(Absent, c)
    BY <2>1, <2>2, <2>3, SMT DEF ObjectOK
  <2> QED BY <2>4, <1>2 DEF ObjectsOK
<1>5. PassOK /\ AroundOK
  <2>1. /\ work = Idle /\ password = FirstPassword /\ access = "ok"
        /\ loose = {} /\ events = 0
    BY DEF Init
  <2>2. /\ Idle.pc = "idle" /\ Idle.want = None /\ Idle.eps = Empty /\ Idle.see = {}
        /\ Idle.push = {} /\ Idle.ok = {} /\ Idle.done = {} /\ DOMAIN Empty = {}
    BY DEF Idle, Empty
  <2>3. PassOK
    BY <2>1, <2>2 DEF PassOK, IsDesired
  <2>4. FirstPassword \in Passwords
    BY StartAssumption DEF StartsValid
  <2>5. AroundOK
    BY <2>1, <2>2, <2>4, BoundAssumption, SMT DEF AroundOK, Accesses
  <2> QED BY <2>3, <2>5
<1> QED BY <1>3, <1>4, <1>5, InitStep DEF TypeInv

\* Every step keeps every variable in its type.
LEMMA TypeNext ==
    ASSUME TypeInv, [Next]_vars
    PROVE  TypeInv'
<1>1. RecordInv' /\ Placed'
  BY NextStep DEF TypeInv
<1>2. Tabled'
  BY TabledStep DEF TypeInv
<1> QED BY <1>1, <1>2, ObjectsStep, PassStep, AroundStep DEF TypeInv

\* The variables of the configuration controller keep their types: among
\* other things, a pass never outlives its object, never counts more replicas
\* than there are, and only ever deals with the replicas it found at its start
\* (Reconcile, finalize, setStatus, applyReplica).
THEOREM TypesKept == Spec => []TypeOK
<1>1. Init => TypeInv
  BY TypeInit
<1>2. TypeInv /\ [Next]_vars => TypeInv'
  BY TypeNext
<1>3. TypeInv => TypeOK
  BY TypeInvTypeOK
<1> QED BY <1>1, <1>2, <1>3, PTL DEF Spec

=============================================================================
