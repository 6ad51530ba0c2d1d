--------------------------- MODULE ConfigSkipProofs ---------------------------
(***************************************************************************)
(* What the short-circuit of ConfigSync rests on: a pass that is skipped   *)
(* because every record is unchanged skips nothing.  The admin tables of   *)
(* every ready replica a record can be trusted about hold what is          *)
(* recorded.                                                               *)
(*                                                                         *)
(* The invariant says of each replica that is not loose: if all records    *)
(* are about its address, then one of them tells what its tables hold, or  *)
(* the pass under way has pushed to it and holds what it pushed.  What a   *)
(* pass has not pushed to yet it still will, or it leaves no record that   *)
(* is about it.                                                            *)
(***************************************************************************)
EXTENDS ConfigSyncProofs

\* Most steps are first-order, so Zenon is the prover unless a step names another.
USE Zenon

----------------------------------------------------------------------------
(* What a push leaves in the admin tables. *)

Left(t, d) == IF DOMAIN d[t] = {} THEN Empty ELSE Stored(t, d[t])

\* The tables of process x are those a push of want leaves.
InPlace(x, want, aws) ==
    \A t \in TableNames : Pushes(t, aws) => x.mem[t] = Left(t, want)

\* A push that reports no error leaves what was pushed.
LEMMA PushedInPlace ==
    ASSUME NEW x, DOMAIN x = ProcessFields, NEW d, NEW aws, NEW F,
           ~PushFails(d, aws, F)
    PROVE  InPlace(Pushed(x, d, aws, F), d, aws)
<1> DEFINE proc == [mem |-> x.mem, rt |-> x.rt, disk |-> x.disk]
           mem == [s \in Sections |->
                    CASE s \in Domains -> Updated(d, F, s, proc.mem[s])
                      [] s \notin Domains /\ Pushes(s, aws) ->
                            Written(d, F, s, proc.mem[s])
                      [] OTHER -> proc.mem[s]]
           y == SyncWithAWSDBProxy(d, aws, F, proc)
<1>1. <<"DIAL">> \notin F /\ ~SyncFails(d, aws, F)
  BY DEF PushFails
<1>2. Pushed(x, d, aws, F) = [x EXCEPT !.mem = y.mem, !.rt = y.rt, !.disk = y.disk]
  BY <1>1 DEF Pushed
<1>3. y.mem = mem
  BY DEF SyncWithAWSDBProxy
<1> HIDE DEF y
<1>4. Pushed(x, d, aws, F).mem = mem
  BY <1>2, <1>3 DEF ProcessFields
<1>5. ASSUME NEW t \in TableNames, Pushes(t, aws) PROVE mem[t] = Left(t, d)
  <2>1. t \in Sections /\ t \notin Domains
    BY DEF Sections, Domains, TableNames, UnitOf
  <2>2. mem[t] = Written(d, F, t, proc.mem[t])
    BY <2>1, <1>5
  <2>3. <<"DELETE", t>> \notin F /\ (DOMAIN d[t] # {} => <<"INSERT", t>> \notin F)
    BY <1>1, <1>5 DEF SyncFails
  <2> HIDE DEF mem, proc
  <2> QED BY <2>2, <2>3 DEF Written, Left
<1> HIDE DEF mem
<1> QED BY <1>4, <1>5 DEF InPlace

\* So does a cycle that reports no error.
LEMMA CycleInPlace ==
    ASSUME NEW x, DOMAIN x = ProcessFields, NEW F, NEW G, NEW H,
           ~CycleFails(x, F, G, H)
    PROVE  InPlace(Cycle(x, F, G, H), work.want, work.rds # None)
<1> DEFINE cleared == [x EXCEPT !.rds = ClearMutable(@, G)]
           pushed == Pushed(cleared, work.want, work.rds # None, F)
<1>1. /\ ~PushFails(work.want, work.rds # None, F)
      /\ work.rds # None => ~ClearFails(x.rds, G)
  BY DEF CycleFails
<1>2. CASE work.rds = None
  <2>1. (work.rds # None) = FALSE
    BY <1>2
  <2>2. Cycle(x, F, G, H) = Pushed(x, work.want, work.rds # None, F)
    BY <1>2, <2>1 DEF Cycle
  <2> QED BY <1>1, <2>2, PushedInPlace
<1>3. CASE work.rds # None
  <2>1. (work.rds # None) = TRUE
    BY <1>3
  <2>2. DOMAIN cleared = ProcessFields
    BY DEF ProcessFields
  <2>3. Cycle(x, F, G, H) = [pushed EXCEPT !.rds = Apply(@, work.rds, H)]
    BY <1>1, <1>3, <2>1 DEF Cycle
  <2> HIDE DEF cleared
  <2>4. InPlace(pushed, work.want, work.rds # None)
    BY <1>1, <2>2, PushedInPlace
  <2>5. DOMAIN pushed = ProcessFields
    BY <2>2, PushedStays
  <2> HIDE DEF pushed
  <2>6. Cycle(x, F, G, H).mem = pushed.mem
    BY <2>3, <2>5 DEF ProcessFields
  <2> QED BY <2>4, <2>6 DEF InPlace
<1> QED BY <1>2, <1>3

----------------------------------------------------------------------------
(* What the records can be trusted about. *)

\* The configurations that have a record.
Holders == {c \in Configs : cfgs[c].status.hash # None}

Record(c) == cfgs[c].status.hash

\* The record of c is about the address of q.
Covers(c, q) == pods[q].addr \in Record(c).at

\* The record of c says what is in the tables of q.
TellsOf(c, q) == InPlace(pods[q], Record(c).target[1], Record(c).target[2] # None)

\* If every record is about q, one of them is right.
Supported(q) ==
    (Holders # {} /\ \A c \in Holders : Covers(c, q)) =>
        \E c \in Holders : TellsOf(c, q)

\* The endpoints of the pass at the address of q.
Here(q) == {p \in DOMAIN work.eps : work.eps[p] = pods[q].addr}

\* Some record is about the address of q, or will be.
Known(q) == Here(q) # {} \/ \E c \in Holders : Covers(c, q)

\* What is known of a replica the pass has not pushed to, or has.
Sound(q) ==
    IF q \notin work.done THEN Supported(q)
    ELSE Known(q) => InPlace(pods[q], work.want, work.rds # None)

\* A replica the pass has not pushed to is still to be pushed to, or the
\* record of this pass will be the one there is.
ToPush(q) ==
    work.pc \in Checking /\ q \notin work.done /\ Here(q) # {} =>
        \/ Here(q) \cap work.push # {}
        \/ work.status.hash = combinedSyncFingerprint(work.want, work.rds, work.eps)

\* A replica the finalizer has not swept is still to be swept, or none of the
\* records that stay is about it.
ToSweep(q) ==
    /\ work.pc \in {"clear", "union"} =>
        \/ q \in DOMAIN work.eps => work.eps[q] = pods[q].addr
        \/ \A d \in Holders : ~Covers(d, q)
    /\ work.pc = "sweep" /\ q \notin work.done =>
        \/ Here(q) \cap work.push # {}
        \/ \A d \in Holders \ {work.c} : ~Covers(d, q)

Trusted(q) == Sound(q) /\ ToPush(q) /\ ToSweep(q)

\* What is swept is told by a record that stays.
SweepTold ==
    work.pc = "sweep" /\ work.told =>
        \E d \in Holders \ {work.c} :
            Record(d).target[1] =
                Wanted([union |-> work.want, rds |-> Record(d).target[2]])

\* A finalizer has no proxy to apply; no push has been made before its time.
Stages ==
    /\ work.pc \in {"clear", "union", "sweep"} =>
        cfgs[work.c].phase = "deleting" /\ work.rds = None
    /\ work.pc \in {"idle", "clear", "union", "look", "clean"} => work.done = {}

TableInv == Stages /\ SweepTold /\ \A q \in Pods \ loose : Trusted(q)

\* No fingerprint is mistaken for no record.
NeverNone == \A want, rds, eps : combinedSyncFingerprint(want, rds, eps) # None

\* The records are the same.
SameRecords == \A c \in Configs : cfgs'[c].status.hash = cfgs[c].status.hash

\* Replica q has not moved, and its admin tables are the same.
SamePod(q) == pods'[q].addr = pods[q].addr /\ pods'[q].mem = pods[q].mem

\* The same records are about the same replica.
LEMMA RecordsStay ==
    ASSUME SameRecords
    PROVE  /\ Holders' = Holders
           /\ \A c \in Holders : Record(c)' = Record(c)
           /\ \A q : SamePod(q) =>
                /\ \A c \in Holders : Covers(c, q)' <=> Covers(c, q)
                /\ Supported(q) => Supported(q)'
<1>1. Holders' = Holders
  BY DEF Holders, SameRecords
<1>2. \A c \in Holders : Record(c)' = Record(c)
  BY DEF Record, Holders, SameRecords
<1>3. ASSUME NEW q, SamePod(q)
      PROVE  \A c \in Holders : /\ Covers(c, q)' <=> Covers(c, q)
                                /\ TellsOf(c, q) => TellsOf(c, q)'
  BY <1>2, <1>3 DEF Covers, TellsOf, InPlace, SamePod, Left
<1>4. \A q : SamePod(q) => /\ \A c \in Holders : Covers(c, q)' <=> Covers(c, q)
                           /\ Supported(q) => Supported(q)'
  BY <1>1, <1>3 DEF Supported
<1> QED BY <1>1, <1>2, <1>4

\* A step of others that leaves the records and the pass alone.
LEMMA PassAlone ==
    ASSUME TableInv, SameRecords,
           work'.pc = work.pc, work'.c = work.c, work'.want = work.want,
           work'.rds = work.rds, work'.eps = work.eps, work'.push = work.push,
           work'.done = work.done, work'.status = work.status,
           work'.told = work.told,
           work.pc \in {"clear", "union", "sweep"} => cfgs'[work.c].phase = "deleting"
    PROVE  /\ Stages' /\ SweepTold'
           /\ \A q : Trusted(q) /\ SamePod(q) => Trusted(q)'
<1>1. /\ Holders' = Holders
      /\ \A c \in Holders : Record(c)' = Record(c)
      /\ \A q : SamePod(q) =>
            /\ \A c \in Holders : Covers(c, q)' <=> Covers(c, q)
            /\ Supported(q) => Supported(q)'
  BY RecordsStay
<1>2. Stages'
  BY DEF TableInv, Stages
<1>3. SweepTold'
  BY <1>1, ZenonT(30) DEF TableInv, SweepTold, Wanted
<1>4. ASSUME NEW q, Trusted(q), SamePod(q) PROVE Trusted(q)'
  <2>1. Here(q)' = Here(q)
    BY <1>4 DEF Here, SamePod
  <2>2. InPlace(pods[q], work.want, work.rds # None) =>
            InPlace(pods[q], work.want, work.rds # None)'
    BY <1>4 DEF InPlace, SamePod, Left
  <2>3. Known(q)' <=> Known(q)
    BY <1>1, <1>4, <2>1 DEF Known
  <2>4. Sound(q)'
    BY <1>1, <1>4, <2>2, <2>3 DEF Trusted, Sound
  <2>5. ToPush(q)'
    BY <1>4, <2>1, ZenonT(30) DEF Trusted, ToPush, combinedSyncFingerprint
  <2>6. ToSweep(q)'
    BY <1>1, <1>4, <2>1 DEF Trusted, ToSweep, SamePod
  <2> QED BY <2>4, <2>5, <2>6 DEF Trusted
<1> QED BY <1>2, <1>3, <1>4

\* The same, if every replica it changes is loose from then on.
LEMMA Undisturbed ==
    ASSUME TableInv, SameRecords,
           work'.pc = work.pc, work'.c = work.c, work'.want = work.want,
           work'.rds = work.rds, work'.eps = work.eps, work'.push = work.push,
           work'.done = work.done, work'.status = work.status,
           work'.told = work.told,
           work.pc \in {"clear", "union", "sweep"} => cfgs'[work.c].phase = "deleting",
           \A q \in Pods \ loose' : q \notin loose /\ SamePod(q)
    PROVE  TableInv'
<1>1. Stages' /\ SweepTold' /\ \A q : Trusted(q) /\ SamePod(q) => Trusted(q)'
  BY PassAlone
<1> QED BY <1>1 DEF TableInv

\* The end of a pass that leaves the records as they were.
LEMMA NothingRecorded ==
    ASSUME TableInv, SameRecords, work' = Idle,
           \A q \in Pods \ loose' : q \notin loose \cup work.done /\ SamePod(q)
    PROVE  TableInv'
<1>1. Idle.pc = "idle" /\ Idle.done = {}
  BY DEF Idle
<1>2. Stages' /\ SweepTold'
  BY <1>1 DEF Stages, SweepTold
<1>3. ASSUME NEW q \in Pods \ loose' PROVE Trusted(q)'
  <2>1. Supported(q) /\ SamePod(q)
    BY <1>3 DEF TableInv, Trusted, Sound
  <2>2. Supported(q)'
    BY <2>1, RecordsStay
  <2> QED BY <2>2, <1>1 DEF Trusted, Sound, ToPush, ToSweep, Checking
<1> QED BY <1>2, <1>3 DEF TableInv

\* Users and Secrets touch no record and no table.
LEMMA TableUsers ==
    ASSUME TypeInv, TableInv,
           \/ \E c \in Configs : \/ CreateConfig(c) \/ EditConfig(c) \/ DeleteConfig(c)
                                 \/ AnnotateSkip(c) \/ BeginBlocked(c) \/ Clock(c)
           \/ ChangeSecret \/ ChangeAccess \/ UNCHANGED vars
    PROVE  TableInv'
<1>1. /\ DOMAIN cfgs = Configs
      /\ \A c \in Configs :
            /\ DOMAIN cfgs[c] = {"phase", "fin", "skip", "gen", "spec", "status"}
            /\ DOMAIN cfgs[c].status = {"hash", "synced", "gen", "ready", "degraded"}
            /\ cfgs[c].status.hash # None => cfgs[c].phase # "absent" /\ cfgs[c].fin
      /\ DOMAIN work = {"pc", "c", "gen", "status", "want", "rds", "eps", "see",
                        "push", "done", "ok", "fresh", "told"}
      /\ work.pc # "idle" => work.c \in Configs
      /\ work.pc \in {"clear", "union", "sweep"} => cfgs[work.c].phase = "deleting"
  BY DEF TypeInv, RecordInv, Shape, Guarded, Informed, TableInv, Stages
<1>2. ASSUME UNCHANGED <<cfgs, pods, work, loose>> PROVE TableInv'
  <2>1. SameRecords /\ \A q : SamePod(q)
    BY <1>2 DEF SameRecords, SamePod
  <2> QED BY <2>1, <1>1, <1>2, Undisturbed
<1>3. CASE \/ ChangeSecret \/ ChangeAccess \/ UNCHANGED vars
           \/ \E c \in Configs : Clock(c)
  BY <1>2, <1>3 DEF ChangeSecret, ChangeAccess, Clock, vars
\* The fields of the pass but fresh stay.
<1>4. ASSUME NEW c \in Configs, work' = Outdated(c) \/ work' = work
      PROVE  /\ work'.pc = work.pc /\ work'.c = work.c /\ work'.want = work.want
             /\ work'.rds = work.rds /\ work'.eps = work.eps /\ work'.push = work.push
             /\ work'.done = work.done /\ work'.status = work.status
             /\ work'.told = work.told
  BY <1>1, <1>4 DEF Outdated
\* One object changes; the finalizer is not at work for it.
<1>5. ASSUME NEW c \in Configs, work' = Outdated(c) \/ work' = work,
             pods' = pods, loose' = loose,
             NEW x, cfgs' = [cfgs EXCEPT ![c] = x],
             x.status.hash = cfgs[c].status.hash,
             cfgs[c].phase = "deleting" => x.phase = "deleting"
      PROVE  TableInv'
  <2>1. \A d \in Configs : cfgs'[d] = IF d = c THEN x ELSE cfgs[d]
    BY <1>1, <1>5
  <2>2. SameRecords /\ \A q : SamePod(q)
    BY <2>1, <1>5 DEF SameRecords, SamePod
  <2>3. work.pc \in {"clear", "union", "sweep"} => cfgs'[work.c].phase = "deleting"
    BY <2>1, <1>1, <1>5
  <2>4. \A q \in Pods \ loose' : q \notin loose /\ SamePod(q)
    BY <2>2, <1>5
  <2> QED BY <2>2, <2>3, <2>4, <1>4, <1>5, Undisturbed
<1>6. Absent.status.hash = None /\ \A s : Created(s).status = Absent.status
  BY DEF Absent, NoStatus, Created
<1>7. ASSUME NEW c \in Configs, CreateConfig(c) PROVE TableInv'
  <2>1. PICK s \in Specs[c] : cfgs' = [cfgs EXCEPT ![c] = Created(s)]
    BY <1>7 DEF CreateConfig
  <2>2. /\ work' = work /\ pods' = pods /\ loose' = loose
        /\ cfgs[c].phase = "absent" /\ cfgs[c].status.hash = None
    BY <1>1, <1>7 DEF CreateConfig
  <2> QED BY <2>1, <2>2, <1>5, <1>6
<1>8. ASSUME NEW c \in Configs, EditConfig(c) PROVE TableInv'
  <2>1. PICK s \in Specs[c] : cfgs' = [cfgs EXCEPT ![c].spec = s, ![c].gen = @ + 1]
    BY <1>8 DEF EditConfig
  <2> DEFINE x == [cfgs[c] EXCEPT !.spec = s, !.gen = @ + 1]
  <2>2. cfgs' = [cfgs EXCEPT ![c] = x]
    BY <2>1, <1>1
  <2>3. x.status = cfgs[c].status /\ x.phase = cfgs[c].phase
    BY <1>1
  <2> HIDE DEF x
  <2>4. work' = Outdated(c) /\ pods' = pods /\ loose' = loose
    BY <1>8 DEF EditConfig
  <2> QED BY <2>2, <2>3, <2>4, <1>5
<1>9. ASSUME NEW c \in Configs, DeleteConfig(c) PROVE TableInv'
  <2> DEFINE x == [cfgs[c] EXCEPT !.phase = "deleting"]
  <2>1. /\ cfgs[c].phase = "live" /\ work' = Outdated(c) /\ pods' = pods /\ loose' = loose
        /\ \/ cfgs' = [cfgs EXCEPT ![c] = x]
           \/ cfgs' = [cfgs EXCEPT ![c] = Absent] /\ cfgs[c].status.hash = None
    BY <1>1, <1>9 DEF DeleteConfig, ReleaseNow
  <2>2. x.status = cfgs[c].status /\ x.phase = "deleting"
    BY <1>1
  <2> HIDE DEF x
  <2> QED BY <2>1, <2>2, <1>5, <1>6
<1>10. ASSUME NEW c \in Configs, AnnotateSkip(c) PROVE TableInv'
  <2> DEFINE x == [cfgs[c] EXCEPT !.skip = TRUE]
  <2>1. /\ work' = Outdated(c) /\ pods' = pods /\ loose' = loose
        /\ cfgs' = [cfgs EXCEPT ![c] = x]
    BY <1>1, <1>10 DEF AnnotateSkip
  <2>2. x.status = cfgs[c].status /\ x.phase = cfgs[c].phase
    BY <1>1
  <2> HIDE DEF x
  <2> QED BY <2>1, <2>2, <1>5
<1>11. ASSUME NEW c \in Configs, BeginBlocked(c) PROVE TableInv'
  <2>1. PICK lost \in BOOLEAN : cfgs' = [cfgs EXCEPT
                ![c].fin = TRUE,
                ![c].status =
                    IF lost THEN @
                    ELSE [@ EXCEPT !.ready = FALSE,
                                   !.degraded = BlockedDegraded(c, Reads(c))]]
    BY <1>11 DEF BeginBlocked
  <2> DEFINE st == IF lost THEN cfgs[c].status
                   ELSE [cfgs[c].status EXCEPT
                            !.ready = FALSE,
                            !.degraded = BlockedDegraded(c, Reads(c))]
             x == [cfgs[c] EXCEPT !.fin = TRUE, !.status = st]
  <2>2. cfgs' = [cfgs EXCEPT ![c] = x]
    BY <2>1, <1>1
  <2>3. st.hash = cfgs[c].status.hash
    BY <1>1
  <2> HIDE DEF st
  <2>4. x.status = st /\ x.phase = cfgs[c].phase
    BY <1>1, ZenonT(30)
  <2> HIDE DEF x
  <2>5. work' = work /\ pods' = pods /\ loose' = loose
    BY <1>11 DEF BeginBlocked
  <2> QED BY <2>2, <2>3, <2>4, <2>5, <1>5
<1> QED BY <1>3, <1>7, <1>8, <1>9, <1>10, <1>11

\* What happens to replicas makes them loose, or leaves their admin tables
\* alone; a replica at an address that is in no record cannot be mistaken.
LEMMA TablePods ==
    ASSUME TypeInv, TableInv, NEW r \in Pods,
           \/ MonitorMove(r) \/ Wipe(r) \/ RestartPod(r) \/ ReplacePod(r)
           \/ LoseReady(r) \/ BecomeReady(r)
    PROVE  TableInv'
<1>1. /\ DOMAIN pods = Pods
      /\ \A q \in Pods : DOMAIN pods[q] = ProcessFields
      /\ work.pc \in {"clear", "union", "sweep"} => cfgs[work.c].phase = "deleting"
  BY DEF TypeInv, Placed, ProcessFields, TableInv, Stages
<1>2. UNCHANGED <<cfgs, work>> /\ SameRecords
  BY DEF MonitorMove, Wipe, RestartPod, ReplacePod, LoseReady, BecomeReady,
     SameRecords
<1>3. ASSUME NEW x, pods' = [pods EXCEPT ![r] = x],
             \/ loose' = loose \cup {r}
             \/ loose' = loose /\ x.addr = pods[r].addr /\ x.mem = pods[r].mem
      PROVE  TableInv'
  <2>1. \A q \in Pods : pods'[q] = IF q = r THEN x ELSE pods[q]
    BY <1>1, <1>3
  <2>2. \A q \in Pods \ loose' : q \notin loose /\ SamePod(q)
    BY <2>1, <1>3 DEF SamePod
  <2> QED BY <2>2, <1>1, <1>2, Undisturbed
<1>4. CASE MonitorMove(r)
  <2>1. \E k, to : pods' = [pods EXCEPT ![r].rt["mysql_servers"] =
                                Moved(pods[r].rt["mysql_servers"], k, to)]
    BY <1>4 DEF MonitorMove
  <2>2. PICK v : pods' = [pods EXCEPT ![r].rt["mysql_servers"] = v]
    BY <2>1
  <2> DEFINE x == [pods[r] EXCEPT !.rt["mysql_servers"] = v]
  <2>3. pods' = [pods EXCEPT ![r] = x]
    BY <2>2
  <2>4. x.addr = pods[r].addr /\ x.mem = pods[r].mem
    BY <1>1 DEF ProcessFields
  <2>5. loose' = loose
    BY <1>4 DEF MonitorMove
  <2> HIDE DEF x
  <2> QED BY <2>3, <2>4, <2>5, <1>3
<1>5. CASE LoseReady(r) \/ BecomeReady(r)
  <2>1. PICK b \in BOOLEAN : pods' = [pods EXCEPT ![r].ready = b]
    BY <1>5 DEF LoseReady, BecomeReady
  <2> DEFINE x == [pods[r] EXCEPT !.ready = b]
  <2>2. pods' = [pods EXCEPT ![r] = x]
    BY <2>1
  <2>3. x.addr = pods[r].addr /\ x.mem = pods[r].mem
    BY <1>1 DEF ProcessFields
  <2>4. loose' = loose
    BY <1>5 DEF LoseReady, BecomeReady
  <2> HIDE DEF x
  <2> QED BY <2>2, <2>3, <2>4, <1>3
<1>6. CASE Wipe(r)
  <2>1. PICK t \in Wiped : pods' = [pods EXCEPT ![r].mem[t] = Empty, ![r].rt[t] = Empty]
    BY <1>6 DEF Wipe
  <2> DEFINE x == [pods[r] EXCEPT !.mem[t] = Empty, !.rt[t] = Empty]
  <2>2. pods' = [pods EXCEPT ![r] = x]
    BY <2>1
  <2>3. loose' = loose \cup {r}
    BY <1>6 DEF Wipe
  <2> HIDE DEF x
  <2> QED BY <2>2, <2>3, <1>3
<1>7. CASE RestartPod(r)
  BY <1>3, <1>7 DEF RestartPod
<1>8. CASE ReplacePod(r)
  <2>1. PICK a \in Addrs :
          /\ \E x \in Started(pods[r]) \cup {Blank(a)} :
                pods' = [pods EXCEPT ![r] = [x EXCEPT !.addr = a]]
          /\ loose' = IF a \in Recorded THEN loose \cup {r} ELSE loose \ {r}
    BY <1>8 DEF ReplacePod
  <2>2. PICK x \in Started(pods[r]) \cup {Blank(a)} :
          pods' = [pods EXCEPT ![r] = [x EXCEPT !.addr = a]]
    BY <2>1
  <2>3. CASE a \in Recorded
    BY <2>1, <2>2, <2>3, <1>3
  <2>4. CASE a \notin Recorded
    <3>1. /\ \A p \in DOMAIN work.eps : work.eps[p] # a
          /\ \A c \in Holders : a \notin Record(c).at
      BY <2>4, ZenonT(30) DEF Recorded, Range, Holders, Record
    <3>2. DOMAIN x = ProcessFields
      <4>1. \A y \in Started(pods[r]) : DOMAIN y = ProcessFields
        BY <1>1 DEF Started
      <4> QED BY <4>1 DEF Blank, ProcessFields
    <3>3. pods'[r].addr = a /\ \A q \in Pods \ {r} : pods'[q] = pods[q]
      BY <2>2, <3>2, <1>1 DEF ProcessFields
    <3>4. loose' = loose \ {r}
      BY <2>1, <2>4
    <3>5. Holders' = Holders /\ \A c \in Holders : Record(c)' = Record(c)
      BY <1>2, RecordsStay
    <3>6. Trusted(r)'
      <4>1. \A c \in Holders' : ~Covers(c, r)'
        BY <3>1, <3>3, <3>5 DEF Covers
      <4>2. Here(r)' = {}
        BY <3>1, <3>3, <1>2 DEF Here
      <4>3. Sound(r)'
        BY <4>1, <4>2 DEF Sound, Supported, Known
      <4>4. ToPush(r)' /\ ToSweep(r)'
        BY <4>1, <4>2 DEF ToPush, ToSweep
      <4> QED BY <4>3, <4>4 DEF Trusted
    <3>7. \A q \in Pods \ {r} : SamePod(q)
      BY <3>3 DEF SamePod
    <3>8. Stages' /\ SweepTold' /\ \A q : Trusted(q) /\ SamePod(q) => Trusted(q)'
      BY <1>1, <1>2, PassAlone
    <3>9. \A q \in Pods \ loose' : Trusted(q)'
      BY <3>4, <3>6, <3>7, <3>8 DEF TableInv
    <3> QED BY <3>8, <3>9 DEF TableInv
  <2> QED BY <2>3, <2>4
<1> QED BY <1>4, <1>5, <1>6, <1>7, <1>8

\* A pass that begins finds what the last one left.
LEMMA TableBegin ==
    ASSUME TypeInv, TableInv, NEW c \in Configs,
           Begin(c) \/ BeginFinalize(c) \/ FinalizeSkip(c)
    PROVE  TableInv'
<1>1. /\ DOMAIN cfgs = Configs
      /\ \A d \in Configs :
            DOMAIN cfgs[d] = {"phase", "fin", "skip", "gen", "spec", "status"}
  BY DEF TypeInv, RecordInv, Shape
<1>2. work.pc = "idle"
  BY DEF Begin, BeginFinalize, FinalizeSkip
<1>3. \A q \in Pods \ loose : Supported(q)
  BY <1>2 DEF TableInv, Stages, Trusted, Sound
<1>4. CASE FinalizeSkip(c)
  <2>1. work' = work /\ loose' = Pods
    BY <1>4 DEF FinalizeSkip
  <2> QED BY <2>1, <1>2 DEF TableInv, Stages, SweepTold
<1>5. CASE Begin(c)
  <2> DEFINE r == Reads(c)
             same == unchanged(c, r)
  <2>1. /\ cfgs' = [cfgs EXCEPT ![c].fin = TRUE] /\ pods' = pods /\ loose' = loose
        /\ work' = [Idle EXCEPT
              !.pc = IF same THEN "look" ELSE "settle",
              !.c = c, !.gen = cfgs[c].gen, !.status = cfgs[c].status,
              !.want = Wanted(r), !.rds = r.rds, !.eps = r.eps,
              !.see = IF same THEN DOMAIN r.eps ELSE {},
              !.push = IF same THEN {} ELSE DOMAIN r.eps]
    BY <1>5 DEF Begin
  <2>2. same => cfgs[c].status.hash = combinedSyncFingerprint(Wanted(r), r.rds, r.eps)
    BY DEF unchanged
  <2> HIDE DEF r, same
  <2>3. /\ work'.pc \in {"look", "settle"} /\ work'.done = {}
        /\ work'.status = cfgs[c].status
        /\ work'.want = Wanted(r) /\ work'.rds = r.rds /\ work'.eps = r.eps
        /\ work'.push = IF same THEN {} ELSE DOMAIN r.eps
    BY <2>1 DEF Idle
  <2>4. SameRecords /\ \A q : SamePod(q)
    BY <2>1, <1>1 DEF SameRecords, SamePod
  <2>5. Stages' /\ SweepTold'
    BY <2>3 DEF Stages, SweepTold
  <2>6. ASSUME NEW q \in Pods \ loose' PROVE Trusted(q)'
    <3>1. Supported(q)'
      BY <2>1, <2>4, <2>6, <1>3, RecordsStay
    <3>2. ToPush(q)'
      <4>1. CASE same
        BY <4>1, <2>2, <2>3 DEF ToPush, combinedSyncFingerprint
      <4>2. CASE ~same
        BY <4>2, <2>3 DEF ToPush, Here
      <4> QED BY <4>1, <4>2
    <3>3. ToSweep(q)' /\ Sound(q)'
      BY <3>1, <2>3 DEF ToSweep, Sound
    <3> QED BY <3>2, <3>3 DEF Trusted
  <2> QED BY <2>5, <2>6 DEF TableInv
<1>6. CASE BeginFinalize(c)
  <2>1. /\ cfgs' = cfgs /\ pods' = pods /\ loose' = loose /\ cfgs[c].phase = "deleting"
        /\ work'.pc \in {"clear", "union"} /\ work'.c = c /\ work'.rds = None
        /\ work'.eps = Endpoints /\ work'.done = {}
    BY <1>6 DEF BeginFinalize, Idle
  <2>2. SameRecords /\ \A q : SamePod(q)
    BY <2>1 DEF SameRecords, SamePod
  <2>3. Stages' /\ SweepTold'
    BY <2>1 DEF Stages, SweepTold
  <2>4. ASSUME NEW q \in Pods \ loose' PROVE Trusted(q)'
    <3>1. Supported(q)'
      BY <2>1, <2>2, <2>4, <1>3, RecordsStay
    <3>2. q \in DOMAIN work'.eps => work'.eps[q] = pods'[q].addr
      BY <2>1 DEF Endpoints
    <3>3. ToSweep(q)' /\ Sound(q)' /\ ToPush(q)'
      BY <3>1, <3>2, <2>1 DEF ToSweep, Sound, ToPush, Checking
    <3> QED BY <3>3 DEF Trusted
  <2> QED BY <2>3, <2>4 DEF TableInv
<1> QED BY <1>4, <1>5, <1>6

\* Looking changes nothing; a replica a first look found in order belongs to
\* the record there is.
LEMMA TableObserve ==
    ASSUME TypeInv, TableInv, Observe
    PROVE  TableInv'
<1>1. DOMAIN work = {"pc", "c", "gen", "status", "want", "rds", "eps", "see",
                     "push", "done", "ok", "fresh", "told"}
  BY DEF TypeInv, RecordInv, Shape
<1>2. UNCHANGED <<cfgs, pods, loose>> /\ work.pc \in {"look", "settle"}
  BY DEF Observe
<1>3. SameRecords /\ \A q : SamePod(q)
  BY <1>2 DEF SameRecords, SamePod
<1>4. /\ work'.pc \in Checking /\ work'.c = work.c /\ work'.want = work.want
      /\ work'.rds = work.rds /\ work'.eps = work.eps /\ work'.done = work.done
      /\ work'.status = work.status /\ work'.told = work.told
      /\ work.pc = "settle" => work'.pc = "settle" /\ work'.push = work.push
  <2>1. PICK p \in First(work.see), reachable \in BOOLEAN :
            LET seen == observeReplica(p, reachable)
                rest == work.see \ {p}
                push == IF seen THEN work.push ELSE work.push \cup {p}
            IN  work' = IF work.pc = "settle"
                        THEN [work EXCEPT !.see = rest,
                                 !.ok = IF seen THEN @ \cup {p} ELSE @]
                        ELSE IF rest = {} THEN AfterLook(push)
                        ELSE [work EXCEPT !.see = rest, !.push = push]
    BY DEF Observe
  <2> DEFINE push == IF observeReplica(p, reachable) THEN work.push
                     ELSE work.push \cup {p}
             ok == IF observeReplica(p, reachable) THEN work.ok \cup {p} ELSE work.ok
  <2>2. \/ /\ work.pc = "settle"
           /\ work' = [work EXCEPT !.see = work.see \ {p}, !.ok = ok]
        \/ work.pc = "look" /\ work' = AfterLook(push)
        \/ work.pc = "look" /\ work' = [work EXCEPT !.see = work.see \ {p}, !.push = push]
    BY <2>1, <1>1, <1>2
  <2> HIDE DEF push, ok
  <2> QED BY <2>2, <1>1, ZenonT(30) DEF AfterLook, Checking
<1>5. CASE work.pc = "settle"
  BY <1>2, <1>3, <1>4, <1>5, Undisturbed
<1>6. CASE work.pc = "look"
  <2>1. /\ work.done = {}
        /\ work.status.hash = combinedSyncFingerprint(work.want, work.rds, work.eps)
    BY <1>6 DEF TypeInv, RecordInv, Informed, TableInv, Stages
  <2>2. Stages' /\ SweepTold'
    BY <2>1, <1>4 DEF Stages, SweepTold, Checking
  <2>3. ASSUME NEW q \in Pods \ loose' PROVE Trusted(q)'
    <3>1. Supported(q)
      BY <2>1, <2>3, <1>2 DEF TableInv, Trusted, Sound
    <3>2. Supported(q)'
      BY <3>1, <1>3, RecordsStay
    <3>3. Sound(q)' /\ ToSweep(q)'
      BY <3>2, <2>1, <1>4 DEF Sound, ToSweep, Checking
    <3>4. ToPush(q)'
      BY <2>1, <1>4, ZenonT(30) DEF ToPush, combinedSyncFingerprint
    <3> QED BY <3>3, <3>4 DEF Trusted
  <2> QED BY <2>2, <2>3 DEF TableInv
<1> QED BY <1>2, <1>5, <1>6

\* A push to the replica at one endpoint: what it leaves is known if it went
\* through, and nothing is said of the replica otherwise.
LEMMA TablePush ==
    ASSUME TypeInv, TableInv, NEW p \in work.push, NEW good \in BOOLEAN,
           work.pc \in {"settle", "sweep"}, cfgs' = cfgs,
           work'.pc = work.pc, work'.c = work.c, work'.want = work.want,
           work'.rds = work.rds, work'.eps = work.eps, work'.told = work.told,
           work'.status = work.status, work'.push = work.push \ {p},
           work'.done = work.done \cup Answering(p),
           loose' = IF good THEN loose \ Answering(p) ELSE loose \cup Answering(p),
           \A q \in Pods \ Answering(p) : pods'[q] = pods[q],
           \A q \in Answering(p) :
            /\ pods'[q].addr = pods[q].addr
            /\ good => InPlace(pods'[q], work.want, work.rds # None)
    PROVE  TableInv'
<1>1. SameRecords
  BY DEF SameRecords
<1>2. /\ Holders' = Holders
      /\ \A c \in Holders : Record(c)' = Record(c)
      /\ \A q : SamePod(q) =>
            /\ \A c \in Holders : Covers(c, q)' <=> Covers(c, q)
            /\ Supported(q) => Supported(q)'
  BY <1>1, RecordsStay
<1>3. Stages'
  BY DEF TableInv, Stages
<1>4. SweepTold'
  <2>1. CASE work.pc = "sweep" /\ work.told
    <3>1. PICK d \in Holders \ {work.c} :
            Record(d).target[1] =
                Wanted([union |-> work.want, rds |-> Record(d).target[2]])
      BY <2>1 DEF TableInv, SweepTold
    <3>2. d \in Holders' \ {work'.c} /\ Record(d)' = Record(d)
      BY <3>1, <1>2
    <3>3. Record(d)'.target[1] =
                Wanted([union |-> work'.want, rds |-> Record(d)'.target[2]])
      BY <3>1, <3>2
    <3> QED BY <3>2, <3>3 DEF SweepTold, Wanted
  <2>2. CASE ~(work.pc = "sweep" /\ work.told)
    BY <2>2 DEF SweepTold
  <2> QED BY <2>1, <2>2
<1>5. ASSUME NEW q \in Pods \ loose', q \in Answering(p) PROVE Trusted(q)'
  <2>1. good /\ q \in work'.done
    BY <1>5
  <2>2. InPlace(pods[q], work.want, work.rds # None)'
    BY <2>1, <1>5, ZenonT(30) DEF InPlace, Left
  <2> QED BY <2>1, <2>2 DEF Trusted, Sound, ToPush, ToSweep
<1>6. ASSUME NEW q \in Pods \ loose', q \notin Answering(p) PROVE Trusted(q)'
  <2>1. Trusted(q) /\ SamePod(q)
    BY <1>6 DEF TableInv, SamePod
  <2>2. Here(q)' = Here(q) /\ p \notin Here(q)
    BY <2>1, <1>6 DEF Here, SamePod, Answering
  <2>3. q \in work'.done <=> q \in work.done
    BY <1>6
  <2>4. InPlace(pods[q], work.want, work.rds # None) =>
            InPlace(pods[q], work.want, work.rds # None)'
    BY <2>1 DEF InPlace, SamePod, Left
  <2>5. Known(q)' <=> Known(q)
    BY <1>2, <2>1, <2>2 DEF Known
  <2>6. Sound(q)'
    BY <1>2, <2>1, <2>3, <2>4, <2>5 DEF Trusted, Sound
  <2>7. Here(q) \cap work.push # {} => Here(q)' \cap work'.push # {}
    BY <2>2, ZenonT(30)
  <2>8. ToPush(q)'
    <3> DEFINE hash == combinedSyncFingerprint(work.want, work.rds, work.eps)
    <3>1. hash' = hash
      BY SMT DEF combinedSyncFingerprint
    <3> QED BY <2>1, <2>2, <2>3, <2>7, <3>1 DEF Trusted, ToPush
  <2>9. ToSweep(q)'
    BY <1>2, <2>1, <2>3, <2>7 DEF Trusted, ToSweep, SamePod
  <2> QED BY <2>6, <2>8, <2>9 DEF Trusted
<1> QED BY <1>3, <1>4, <1>5, <1>6 DEF TableInv

\* The pushes of a pass and of a finalizer.
LEMMA TablePushes ==
    ASSUME TypeInv, TableInv, applyReplica \/ FinalizePush
    PROVE  TableInv'
<1>1. /\ DOMAIN work = {"pc", "c", "gen", "status", "want", "rds", "eps", "see",
                        "push", "done", "ok", "fresh", "told"}
      /\ \A q \in Pods : DOMAIN pods[q] = ProcessFields
      /\ work.pc = "sweep" => work.rds = None
  BY DEF TypeInv, RecordInv, Shape, Placed, ProcessFields, TableInv, Stages
<1>2. \A p : Answering(p) \subseteq Pods
  BY DEF Answering
<1>3. CASE applyReplica
  <2> DEFINE Good(p, F, G, H) ==
               /\ Answering(p) # {}
               /\ ~\E q \in Answering(p) : CycleFails(pods[q], F, G, H)
  <2>1. PICK p \in First(work.push), F \in NativeFaults, G \in ProxyFaults,
             H \in ProxyFaults :
          /\ pods' = [q \in Pods |-> IF q \in Answering(p) THEN Cycle(pods[q], F, G, H)
                                     ELSE pods[q]]
          /\ loose' = IF Good(p, F, G, H) THEN loose \ Answering(p)
                      ELSE loose \cup Answering(p)
          /\ work' = [work EXCEPT !.push = @ \ {p}, !.done = @ \cup Answering(p),
                                  !.see = IF Good(p, F, G, H) THEN {p} ELSE {}]
    BY <1>3, ZenonT(30) DEF applyReplica
  <2> DEFINE good == Good(p, F, G, H)
             see == IF good THEN {p} ELSE {}
  <2>2. work' = [work EXCEPT !.push = @ \ {p}, !.done = @ \cup Answering(p), !.see = see]
    BY <2>1
  <2>3. good => \A q \in Answering(p) : ~CycleFails(pods[q], F, G, H)
    OBVIOUS
  <2>4. good \in BOOLEAN
    OBVIOUS
  <2>5. loose' = IF good THEN loose \ Answering(p) ELSE loose \cup Answering(p)
    BY <2>1
  <2> HIDE DEF good, see
  <2>6. /\ work'.pc = work.pc /\ work'.c = work.c /\ work'.want = work.want
        /\ work'.rds = work.rds /\ work'.eps = work.eps /\ work'.told = work.told
        /\ work'.status = work.status /\ work'.push = work.push \ {p}
        /\ work'.done = work.done \cup Answering(p)
    BY <2>2, <1>1
  <2>7. p \in work.push /\ work.pc = "settle" /\ cfgs' = cfgs
    BY <1>3 DEF applyReplica, First
  <2>8. \A q \in Pods \ Answering(p) : pods'[q] = pods[q]
    BY <2>1
  <2>9. ASSUME NEW q \in Answering(p)
        PROVE  /\ pods'[q].addr = pods[q].addr
               /\ good => InPlace(pods'[q], work.want, work.rds # None)
    <3>1. pods'[q] = Cycle(pods[q], F, G, H) /\ DOMAIN pods[q] = ProcessFields
      BY <2>1, <1>1, <1>2
    <3>2. Cycle(pods[q], F, G, H).addr = pods[q].addr
      BY <3>1, CycleStays, SMT
    <3>3. good => InPlace(Cycle(pods[q], F, G, H), work.want, work.rds # None)
      BY <3>1, <2>3, CycleInPlace
    <3> QED BY <3>1, <3>2, <3>3
  <2> QED BY <2>4, <2>5, <2>6, <2>7, <2>8, <2>9, TablePush, ZenonT(30)
<1>4. CASE FinalizePush
  <2> DEFINE Good(p, F) == Answering(p) # {} /\ ~PushFails(work.want, FALSE, F)
  <2>1. PICK p \in First(work.push), F \in NativeFaults :
          /\ pods' = [q \in Pods |-> IF q \in Answering(p)
                        THEN Pushed(pods[q], work.want, FALSE, F) ELSE pods[q]]
          /\ loose' = IF Good(p, F) THEN loose \ Answering(p)
                      ELSE loose \cup Answering(p)
          /\ work' = [work EXCEPT !.push = @ \ {p}, !.done = @ \cup Answering(p),
                                  !.ok = IF Good(p, F) THEN @ \cup {p} ELSE @]
    BY <1>4 DEF FinalizePush
  <2> DEFINE good == Good(p, F)
             ok == IF good THEN work.ok \cup {p} ELSE work.ok
  <2>2. work' = [work EXCEPT !.push = @ \ {p}, !.done = @ \cup Answering(p), !.ok = ok]
    BY <2>1
  <2>3. good => ~PushFails(work.want, FALSE, F)
    OBVIOUS
  <2>4. good \in BOOLEAN
    OBVIOUS
  <2>5. loose' = IF good THEN loose \ Answering(p) ELSE loose \cup Answering(p)
    BY <2>1
  <2> HIDE DEF good, ok
  <2>6. /\ work'.pc = work.pc /\ work'.c = work.c /\ work'.want = work.want
        /\ work'.rds = work.rds /\ work'.eps = work.eps /\ work'.told = work.told
        /\ work'.status = work.status /\ work'.push = work.push \ {p}
        /\ work'.done = work.done \cup Answering(p)
    BY <2>2, <1>1
  <2>7. p \in work.push /\ work.pc = "sweep" /\ cfgs' = cfgs
    BY <1>4 DEF FinalizePush, First
  <2>8. \A q \in Pods \ Answering(p) : pods'[q] = pods[q]
    BY <2>1
  <2>9. ASSUME NEW q \in Answering(p)
        PROVE  /\ pods'[q].addr = pods[q].addr
               /\ good => InPlace(pods'[q], work.want, work.rds # None)
    <3> DEFINE aws == work.rds # None
    <3>1. aws = FALSE
      BY <1>1, <2>7
    <3> HIDE DEF aws
    <3>2. pods'[q] = Pushed(pods[q], work.want, aws, F) /\ DOMAIN pods[q] = ProcessFields
      BY <2>1, <1>1, <1>2, <3>1
    <3>3. Pushed(pods[q], work.want, aws, F).addr = pods[q].addr
      BY <3>2, PushedStays, SMT
    <3>4. good => InPlace(Pushed(pods[q], work.want, aws, F), work.want, aws)
      BY <3>1, <3>2, <2>3, PushedInPlace
    <3> QED BY <3>2, <3>3, <3>4 DEF aws
  <2> QED BY <2>4, <2>5, <2>6, <2>7, <2>8, <2>9, TablePush, ZenonT(30)
<1> QED BY <1>3, <1>4

\* The end of a pass: its record is about replicas it has pushed to, or is
\* the record that was there.
LEMMA TableFinish ==
    ASSUME NeverNone, TypeInv, TableInv, Finish \/ FinishClean \/ Crash
    PROVE  TableInv'
<1>1. /\ DOMAIN cfgs = Configs
      /\ \A d \in Configs :
            DOMAIN cfgs[d] = {"phase", "fin", "skip", "gen", "spec", "status"}
      /\ DOMAIN work.status = {"hash", "synced", "gen", "ready", "degraded"}
      /\ work.pc # "idle" => work.c \in Configs
      /\ work.pc \in Checking /\ work.fresh =>
            work.status.hash = cfgs[work.c].status.hash
  BY DEF TypeInv, RecordInv, Shape, Informed
<1>2. /\ pods' = pods /\ work' = Idle /\ \A q : SamePod(q)
  BY DEF Finish, FinishClean, Crash, SetStatus, PassEnds, SamePod
\* A status with the record that was there.
<1>3. ASSUME NEW st, NEW recorded, NEW lost, SetStatus(st, recorded, lost),
             work.pc \in Checking, st.hash = work.status.hash,
             recorded => work.done = {}
      PROVE  TableInv'
  <2>1. /\ cfgs' = cfgs \/ (cfgs' = [cfgs EXCEPT ![work.c].status = st] /\ work.fresh)
        /\ loose' = loose \cup work.done
    <3>1. \/ cfgs' = cfgs
          \/ cfgs' = [cfgs EXCEPT ![work.c].status = st] /\ work.fresh
      BY <1>3 DEF SetStatus
    <3>2. loose' = loose \cup work.done
      BY <1>3 DEF SetStatus, PassEnds
    <3> QED BY <3>1, <3>2
  <2>2. SameRecords
    BY <2>1, <1>1, <1>3, SMT DEF SameRecords, Checking
  <2> QED BY <2>1, <2>2, <1>2, NothingRecorded
<1>4. CASE Crash
  BY <1>2, <1>4, NothingRecorded DEF Crash, PassEnds, SameRecords
<1>5. CASE FinishClean
  <2> DEFINE st == [work.status EXCEPT
                        !.synced = Cardinality(DOMAIN work.eps),
                        !.degraded = @ \/ pgsqlMismatch(cfgs[work.c].spec)]
  <2>1. PICK lost \in BOOLEAN : SetStatus(st, TRUE, lost)
    BY <1>5 DEF FinishClean
  <2>2. st.hash = work.status.hash
    BY <1>1
  <2> HIDE DEF st
  <2>3. work.pc = "clean" /\ work.done = {}
    BY <1>5 DEF FinishClean, TableInv, Stages
  <2> QED BY <2>1, <2>2, <2>3, <1>3 DEF Checking
<1>6. CASE Finish
  <2> DEFINE complete == work.ok = DOMAIN work.eps
             hash == combinedSyncFingerprint(work.want, work.rds, work.eps)
             applied == [hash |-> hash,
                         synced |-> Cardinality(DOMAIN work.eps),
                         gen |-> work.gen, ready |-> TRUE,
                         degraded |-> pgsqlMismatch(cfgs[work.c].spec)]
             partial == [work.status EXCEPT !.gen = work.gen,
                                            !.synced = Cardinality(work.ok),
                                            !.ready = FALSE, !.degraded = TRUE]
             st == IF complete THEN applied ELSE partial
  <2>1. /\ work.pc = "settle" /\ work.push = {}
        /\ \E lost \in BOOLEAN : SetStatus(st, complete, lost)
    BY <1>6 DEF Finish
  <2>2. PICK lost \in BOOLEAN : SetStatus(st, complete, lost)
    BY <2>1
  <2>3. applied.hash = hash /\ partial.hash = work.status.hash
    BY <1>1
  <2>4. work.pc \in Checking /\ work.c \in Configs
    BY <2>1, <1>1 DEF Checking
  <2> HIDE DEF applied, partial, hash
  <2>5. CASE ~complete
    <3>1. st.hash = work.status.hash
      BY <2>3, <2>5
    <3> HIDE DEF st, complete
    <3> QED BY <3>1, <2>2, <2>4, <2>5, <1>3, ZenonT(30)
  <2>6. CASE complete /\ ~(work.fresh /\ ~lost)
    <3>1. cfgs' = cfgs /\ loose' = loose \cup work.done
      BY <2>2, <2>6 DEF SetStatus, PassEnds
    <3>2. SameRecords
      BY <3>1 DEF SameRecords
    <3> QED BY <3>1, <3>2, <1>2, NothingRecorded
  <2>7. CASE complete /\ work.fresh /\ ~lost
    <3>1. st = applied
      BY <2>7
    <3> HIDE DEF st, complete
    <3>2. cfgs' = [cfgs EXCEPT ![work.c].status = applied] /\ loose' = loose
      BY <2>2, <2>7, <3>1 DEF SetStatus, PassEnds
    <3>3. \A d \in Configs : cfgs'[d].status.hash =
                IF d = work.c THEN hash ELSE cfgs[d].status.hash
      BY <3>2, <2>3, <2>4, <1>1
    <3>4. hash = [target |-> <<work.want, work.rds>>,
                  at |-> {work.eps[p] : p \in DOMAIN work.eps}]
      BY DEF hash, combinedSyncFingerprint
    <3>5. hash # None
      BY DEF hash, NeverNone
    <3> PICK c \in Configs : c = work.c
      BY <2>4
    <3>6. c \in Holders' /\ Record(c)' = hash
      BY <3>3, <3>5 DEF Holders, Record
    <3>7. \A q : Covers(c, q)' <=> Here(q) # {}
      <4>1. Record(c)'.at = {work.eps[p] : p \in DOMAIN work.eps}
        BY <3>4, <3>6, SMT
      <4>2. \A q : Covers(c, q)' <=> \E p \in DOMAIN work.eps : work.eps[p] = pods[q].addr
        BY <4>1, <1>2 DEF Covers
      <4> QED BY <4>2 DEF Here
    <3>8. ASSUME NEW q \in Pods \ loose' PROVE Supported(q)'
      <4>1. Trusted(q)
        BY <3>2, <3>8 DEF TableInv
      <4>2. CASE q \in work.done
        <5>1. Here(q) # {} => InPlace(pods[q], work.want, work.rds # None)
          BY <4>1, <4>2 DEF Trusted, Sound, Known
        <5>2. /\ Record(c)'.target[1] = work.want
              /\ Record(c)'.target[2] = work.rds
          BY <3>4, <3>6, SMT
        <5>3. Here(q) # {} => TellsOf(c, q)'
          BY <5>1, <5>2, <1>2 DEF TellsOf, InPlace, Left
        <5> QED BY <5>3, <3>6, <3>7 DEF Supported
      <4>3. CASE q \notin work.done /\ Here(q) = {}
        BY <4>3, <3>6, <3>7 DEF Supported
      <4>4. CASE q \notin work.done /\ Here(q) # {}
        <5>1. work.status.hash = hash /\ Supported(q)
          BY <4>1, <4>4, <2>1, <2>4 DEF Trusted, ToPush, Sound, hash
        <5>2. SameRecords
          BY <5>1, <3>3, <2>4, <2>7, <1>1, ZenonT(30) DEF SameRecords
        <5> QED BY <5>1, <5>2, <1>2, RecordsStay
      <4> QED BY <4>2, <4>3, <4>4
    <3>9. Idle.pc = "idle" /\ Idle.done = {}
      BY DEF Idle
    <3>10. Stages' /\ SweepTold'
      BY <3>9, <1>2 DEF Stages, SweepTold
    <3>11. \A q \in Pods \ loose' : Trusted(q)'
      BY <3>8, <3>9, <1>2, ZenonT(30) DEF Trusted, Sound, ToPush, ToSweep, Checking
    <3> QED BY <3>10, <3>11 DEF TableInv
  <2> QED BY <2>5, <2>6, <2>7
<1> QED BY <1>4, <1>5, <1>6

\* A finalizer that has no push made yet.
LEMMA TableFinalize ==
    ASSUME TypeInv, TableInv, FinalizeClear \/ FinalizeUnion
    PROVE  TableInv'
<1>1. /\ DOMAIN work = {"pc", "c", "gen", "status", "want", "rds", "eps", "see",
                        "push", "done", "ok", "fresh", "told"}
      /\ \A q \in Pods : DOMAIN pods[q] = ProcessFields
      /\ work.c \in Configs /\ work.pc \in {"clear", "union"}
  BY DEF TypeInv, RecordInv, Shape, Informed, Placed, ProcessFields, FinalizeClear,
     FinalizeUnion
<1>2. /\ cfgs' = cfgs /\ SameRecords /\ work.done = {}
      /\ cfgs[work.c].phase = "deleting" /\ work.rds = None
  BY <1>1 DEF TableInv, Stages, FinalizeClear, FinalizeUnion, SameRecords
<1>3. Holders' = Holders /\ \A c \in Holders : Record(c)' = Record(c)
  BY <1>2, RecordsStay
<1>4. CASE FinalizeClear
  <2>1. loose' = loose /\ \A q \in Pods : SamePod(q)
    <3>1. PICK p \in First(work.see), G \in ProxyFaults :
            pods' = [q \in Pods |-> IF q \in Answering(p)
                        THEN [pods[q] EXCEPT !.rds = ClearMutable(@, G)]
                        ELSE pods[q]]
      BY <1>4 DEF FinalizeClear
    <3>2. \A q \in Pods : SamePod(q)
      BY <3>1, <1>1 DEF SamePod, ProcessFields
    <3> QED BY <3>2, <1>4 DEF FinalizeClear
  <2>2. PICK p \in First(work.see) :
            \/ work' = Idle
            \/ work' = [work EXCEPT !.see = work.see \ {p},
                          !.pc = IF work.see \ {p} = {} THEN "union" ELSE "clear"]
    BY <1>4 DEF FinalizeClear
  <2>3. CASE work' = Idle
    BY <2>1, <2>3, <1>2, NothingRecorded
  <2>4. CASE work' = [work EXCEPT !.see = work.see \ {p},
                          !.pc = IF work.see \ {p} = {} THEN "union" ELSE "clear"]
    <3>1. /\ work'.pc \in {"clear", "union"} /\ work'.c = work.c /\ work'.rds = work.rds
          /\ work'.eps = work.eps /\ work'.done = {}
      BY <2>4, <1>1, <1>2
    <3>2. Stages' /\ SweepTold'
      BY <3>1, <1>2 DEF Stages, SweepTold
    <3>3. ASSUME NEW q \in Pods \ loose' PROVE Trusted(q)'
      <4>1. Trusted(q) /\ SamePod(q)
        BY <2>1, <3>3 DEF TableInv
      <4>2. /\ \A c \in Holders : Covers(c, q)' <=> Covers(c, q)
            /\ Supported(q)'
        BY <4>1, <1>2, RecordsStay DEF Trusted, Sound
      <4>3. ToSweep(q)'
        BY <4>1, <4>2, <3>1, <1>1, <1>3, ZenonT(30) DEF Trusted, ToSweep, SamePod
      <4>4. Sound(q)' /\ ToPush(q)'
        BY <4>2, <3>1 DEF Sound, ToPush, Checking
      <4> QED BY <4>3, <4>4 DEF Trusted
    <3> QED BY <3>2, <3>3 DEF TableInv
  <2> QED BY <2>2, <2>3, <2>4
<1>5. CASE FinalizeUnion
  <2>1. /\ work.pc = "union" /\ pods' = pods
        /\ loose' = loose \cup (Pods \ DOMAIN work.eps)
        /\ work' = [work EXCEPT !.pc = "sweep", !.want = Remaining(work.c),
                                !.push = DOMAIN work.eps,
                                !.told = Told(buildUnionedDesired(work.c))]
    BY <1>5 DEF FinalizeUnion
  <2>2. /\ work'.pc = "sweep" /\ work'.c = work.c /\ work'.rds = work.rds
        /\ work'.eps = work.eps /\ work'.done = {} /\ work'.push = DOMAIN work.eps
        /\ work'.want = Remaining(work.c)
        /\ work'.told = Told(buildUnionedDesired(work.c))
    BY <2>1, <1>1, <1>2
  <2>3. Stages'
    BY <2>2, <1>2 DEF Stages
  <2>4. SweepTold'
    <3> DEFINE u == buildUnionedDesired(work.c)
    <3>1. CASE Told(u)
      <4>1. PICK d \in LiveConfigs :
              /\ cfgs[d].status.hash # None /\ u # None
              /\ cfgs[d].status.hash.target[1] =
                    Wanted([union |-> u, rds |-> cfgs[d].status.hash.target[2]])
        BY <3>1 DEF Told
      <4>2. d \in Holders \ {work.c} /\ d \in LiveConfigs \ {work.c}
        BY <4>1, <1>2 DEF Holders, LiveConfigs
      <4>3. Remaining(work.c) = u
        BY <4>1, <4>2 DEF Remaining
      <4>4. d \in Holders' \ {work'.c} /\ Record(d)' = cfgs[d].status.hash
        BY <4>2, <2>2, <1>3 DEF Record
      <4> HIDE DEF u
      <4>5. Record(d)'.target[1] =
                Wanted([union |-> work'.want, rds |-> Record(d)'.target[2]])
        BY <4>1, <4>3, <4>4, <2>2
      <4> QED BY <4>4, <4>5 DEF SweepTold, Wanted
    <3>2. CASE ~Told(u)
      BY <3>2, <2>2 DEF SweepTold
    <3> QED BY <3>1, <3>2
  <2>5. ASSUME NEW q \in Pods \ loose' PROVE Trusted(q)'
    <3>1. Trusted(q) /\ SamePod(q) /\ q \in DOMAIN work.eps
      BY <2>1, <2>5 DEF TableInv, SamePod
    <3>2. /\ \A c \in Holders : Covers(c, q)' <=> Covers(c, q)
          /\ Supported(q)'
      BY <3>1, <1>2, RecordsStay DEF Trusted, Sound
    <3>3. work.eps[q] = pods[q].addr \/ \A d \in Holders : ~Covers(d, q)
      BY <3>1, <2>1 DEF Trusted, ToSweep
    <3>4. ToSweep(q)'
      <4>1. CASE work.eps[q] = pods[q].addr
        <5>1. q \in Here(q)' \cap work'.push
          BY <4>1, <3>1, <2>1, <2>2 DEF Here
        <5> QED BY <5>1, <2>2 DEF ToSweep
      <4>2. CASE \A d \in Holders : ~Covers(d, q)
        BY <4>2, <3>2, <2>2, <1>3 DEF ToSweep
      <4> QED BY <3>3, <4>1, <4>2
    <3>5. Sound(q)' /\ ToPush(q)'
      BY <3>2, <2>2 DEF Sound, ToPush, Checking
    <3> QED BY <3>4, <3>5 DEF Trusted
  <2> QED BY <2>3, <2>4, <2>5 DEF TableInv
<1> QED BY <1>4, <1>5

\* What a record with a proxy asks for outside of the plugin's tables is what
\* the union asks for.
LEMMA NativeInPlace ==
    ASSUME NEW x, NEW u, NEW rds
    PROVE  /\ InPlace(x, u, FALSE) =>
                InPlace(x, Wanted([union |-> u, rds |-> rds]), rds # None)
           /\ \A t \in TableNames : Pushes(t, rds # None) =>
                Wanted([union |-> u, rds |-> rds])[t] = u[t]
<1>1. \A t \in TableNames : Pushes(t, rds # None) =>
                Wanted([union |-> u, rds |-> rds])[t] = u[t]
  <2>1. CASE rds = None
    BY <2>1 DEF Wanted
  <2>2. CASE rds # None
    <3>1. Wanted([union |-> u, rds |-> rds]) = NativeDesiredWithAWSDBProxy(u)
      BY <2>2 DEF Wanted
    <3>2. (rds # None) = TRUE /\ TableNames \subseteq DesiredSections
      BY <2>2 DEF DesiredSections, Sections
    <3> QED BY <3>1, <3>2 DEF NativeDesiredWithAWSDBProxy
  <2> QED BY <2>1, <2>2
<1>2. \A t \in TableNames : Pushes(t, FALSE)
  BY DEF Pushes
<1> QED BY <1>1, <1>2 DEF InPlace, Left

\* The finalizer takes a record along, and leaves a replica in the state some
\* other record tells of, or loose, or where no other record is about.
LEMMA TableRelease ==
    ASSUME TypeInv, TableInv, FinalizeRelease
    PROVE  TableInv'
<1>1. /\ DOMAIN cfgs = Configs
      /\ work.c \in Configs /\ work.pc = "sweep" /\ work.push = {} /\ work.rds = None
  BY DEF TypeInv, RecordInv, Shape, Informed, FinalizeRelease, TableInv, Stages
<1>2. work' = Idle /\ pods' = pods /\ \A q : SamePod(q)
  BY DEF FinalizeRelease, PassEnds, SamePod
<1>3. PICK released \in BOOLEAN :
        /\ cfgs' = IF released THEN ReleaseNow(work.c) ELSE cfgs
        /\ loose' = IF released /\ work.told THEN loose ELSE loose \cup work.done
  <2>1. PICK lost \in BOOLEAN :
          LET released == work.ok = DOMAIN work.eps /\ work.fresh /\ ~lost
          IN  /\ cfgs' = IF released THEN ReleaseNow(work.c) ELSE cfgs
              /\ PassEnds(released /\ work.told)
    BY DEF FinalizeRelease
  <2> DEFINE released == work.ok = DOMAIN work.eps /\ work.fresh /\ ~lost
  <2>2. /\ cfgs' = IF released THEN ReleaseNow(work.c) ELSE cfgs
        /\ loose' = IF released /\ work.told THEN loose ELSE loose \cup work.done
    BY <2>1 DEF PassEnds
  <2>3. released \in BOOLEAN
    OBVIOUS
  <2> QED BY <2>2, <2>3
<1>4. CASE ~released
  <2>1. cfgs' = cfgs /\ loose' = loose \cup work.done
    BY <1>3, <1>4
  <2>2. SameRecords
    BY <2>1 DEF SameRecords
  <2> QED BY <2>1, <2>2, <1>2, NothingRecorded
<1>5. CASE released
  <2>1. cfgs' = [cfgs EXCEPT ![work.c] = Absent] /\ Absent.status.hash = None
    BY <1>3, <1>5 DEF ReleaseNow, Absent, NoStatus
  <2>2. /\ Holders' = Holders \ {work.c}
        /\ \A d \in Configs \ {work.c} : cfgs'[d] = cfgs[d]
    BY <2>1, <1>1 DEF Holders
  <2>3. \A d \in Holders' : Record(d)' = Record(d)
    BY <2>2 DEF Record, Holders
  <2>4. ASSUME NEW q \in Pods \ loose' PROVE Supported(q)'
    <3>1. Trusted(q)
      BY <2>4, <1>3 DEF TableInv
    <3>2. \A d \in Holders' : Covers(d, q)' <=> Covers(d, q)
      BY <2>3, <1>2 DEF Covers
    <3>3. CASE q \notin work.done
      <4>1. \A d \in Holders' : ~Covers(d, q)'
        BY <3>1, <3>2, <3>3, <2>2, <1>1 DEF Trusted, ToSweep
      <4> QED BY <4>1 DEF Supported
    <3>4. CASE q \in work.done
      <4>1. work.told
        BY <3>4, <2>4, <1>3
      <4>2. PICK d \in Holders' :
              Record(d).target[1] =
                Wanted([union |-> work.want, rds |-> Record(d).target[2]])
        BY <4>1, <2>2, <1>1 DEF TableInv, SweepTold
      <4>3. CASE ~Covers(d, q)'
        BY <4>3 DEF Supported
      <4>4. CASE Covers(d, q)'
        <5>1. Known(q)
          BY <4>4, <3>2, <2>2 DEF Known
        <5>2. (work.rds # None) = FALSE
          BY <1>1
        <5>3. InPlace(pods[q], work.want, FALSE)
          BY <5>1, <5>2, <3>1, <3>4 DEF Trusted, Sound
        <5>4. TellsOf(d, q)
          <6>1. PICK r : r = Record(d).target[2]
            OBVIOUS
          <6>2. PICK x, u : x = pods[q] /\ u = work.want
            OBVIOUS
          <6>3. InPlace(x, Wanted([union |-> u, rds |-> r]), r # None)
            BY <5>3, <6>2, NativeInPlace
          <6> QED BY <6>1, <6>2, <6>3, <4>2 DEF TellsOf
        <5>5. TellsOf(d, q)'
          BY <5>4, <2>3, <1>2 DEF TellsOf, InPlace, Left
        <5> QED BY <5>5 DEF Supported
      <4> QED BY <4>3, <4>4
    <3> QED BY <3>3, <3>4
  <2>5. Idle.pc = "idle" /\ Idle.done = {}
    BY DEF Idle
  <2>6. Stages' /\ SweepTold'
    BY <2>5, <1>2 DEF Stages, SweepTold
  <2>7. \A q \in Pods \ loose' : Trusted(q)'
    BY <2>4, <2>5, <1>2 DEF Trusted, Sound, ToPush, ToSweep, Checking
  <2> QED BY <2>6, <2>7 DEF TableInv
<1> QED BY <1>4, <1>5

\* The first configuration has been applied, and its record says so.
LEMMA TableInit ==
    ASSUME NeverNone, Init
    PROVE  TableInv
<1>1. PICK i \in Starts : AppliedInit(i.c, i.spec)
  BY DEF Init
<1> DEFINE all == autoPopulated(Union(<<configToDesired(i.spec)>>))
           rds == buildRDSReconcileState(i.spec)
           want == Native(all, rds)
           status == [hash |-> combinedSyncFingerprint(want, rds, At),
                      synced |-> Cardinality(Pods), gen |-> 1,
                      ready |-> TRUE, degraded |-> pgsqlMismatch(i.spec)]
           applied == [Created(i.spec) EXCEPT !.fin = TRUE, !.status = status]
<1>2. /\ pods = [p \in Pods |-> FirstApplied(At[p], want, rds)]
      /\ cfgs = [d \in Configs |-> IF d = i.c THEN applied ELSE Absent]
  BY <1>1 DEF AppliedInit, Native
<1> HIDE DEF rds, want
<1>3. work = Idle /\ Idle.pc = "idle" /\ Idle.done = {}
  BY DEF Init, Idle
<1>4. i.c \in Configs
  BY StartAssumption DEF StartsValid
<1>5. i.c \in Holders /\ Record(i.c) = combinedSyncFingerprint(want, rds, At)
  <2>1. cfgs[i.c].status.hash = combinedSyncFingerprint(want, rds, At)
    BY <1>2, <1>4 DEF Created, Absent
  <2> QED BY <2>1, <1>4 DEF Holders, Record, NeverNone
<1>6. ASSUME NEW q \in Pods PROVE TellsOf(i.c, q)
  <2> DEFINE x == Pushed(Blank(At[q]), want, rds # None, {})
  <2>1. DOMAIN Blank(At[q]) = ProcessFields
    BY DEF Blank, ProcessFields
  <2>2. ~PushFails(want, rds # None, {})
    BY NoFaults DEF PushFails
  <2>3. InPlace(x, want, rds # None)
    BY <2>1, <2>2, PushedInPlace, ZenonT(30)
  <2>4. HasTables(x)
    <3>1. HasTables(Blank(At[q]))
      BY DEF Blank, ProcessFields, HasTables, IsTables, NoTables
    <3> QED BY <3>1, PushedTables
  <2>5. pods[q] = [x EXCEPT !.ready = TRUE,
                            !.rds = IF rds = None THEN x.rds ELSE Apply(x.rds, rds, {})]
    BY <1>2, <2>4 DEF FirstApplied, HasTables, ProcessFields
  <2> HIDE DEF x
  <2>6. pods[q].mem = x.mem
    BY <2>4, <2>5 DEF HasTables, ProcessFields
  <2>7. Record(i.c).target[1] = want /\ Record(i.c).target[2] = rds
    BY <1>5, SMT DEF combinedSyncFingerprint
  <2> QED BY <2>3, <2>6, <2>7 DEF TellsOf, InPlace
<1>7. \A q \in Pods : Supported(q)
  BY <1>5, <1>6 DEF Supported
<1>8. \A q \in Pods : Trusted(q)
  BY <1>7, <1>3 DEF Trusted, Sound, ToPush, ToSweep, Checking
<1>9. Stages /\ SweepTold
  BY <1>3 DEF Stages, SweepTold
<1> QED BY <1>8, <1>9 DEF TableInv

\* Every step keeps what the tables of a pod say.
LEMMA TableNext ==
    ASSUME NeverNone, TypeInv, TableInv, [Next]_vars
    PROVE  TableInv'
<1>1. CASE \/ \E c \in Configs : \/ CreateConfig(c) \/ EditConfig(c) \/ DeleteConfig(c)
                                 \/ AnnotateSkip(c) \/ BeginBlocked(c) \/ Clock(c)
           \/ ChangeSecret \/ ChangeAccess \/ UNCHANGED vars
  BY <1>1, TableUsers
<1>2. CASE \/ \E q \in Fragile :
                \/ MonitorMove(q) \/ Wipe(q) \/ RestartPod(q) \/ ReplacePod(q)
                \/ LoseReady(q)
           \/ \E q \in Pods : BecomeReady(q)
  <2>1. PICK q \in Pods : \/ MonitorMove(q) \/ Wipe(q) \/ RestartPod(q) \/ ReplacePod(q)
                          \/ LoseReady(q) \/ BecomeReady(q)
    BY <1>2, PodsAssumption
  <2> QED BY <2>1, TablePods
<1>3. CASE \E c \in Configs : Begin(c) \/ BeginFinalize(c) \/ FinalizeSkip(c)
  BY <1>3, TableBegin
<1>4. CASE Observe \/ applyReplica \/ FinalizePush
  BY <1>4, TableObserve, TablePushes
<1>5. CASE Finish \/ FinishClean \/ Crash
  BY <1>5, TableFinish
<1>6. CASE FinalizeClear \/ FinalizeUnion \/ FinalizeRelease
  BY <1>6, TableFinalize, TableRelease
<1> QED BY <1>1, <1>2, <1>3, <1>4, <1>5, <1>6, ZenonT(30) DEF Next

----------------------------------------------------------------------------
(* What is left alone when every configuration finds its record unchanged. *)

\* Configurations that may exist together agree on having the plugin.
Alike ==
    \A G \in Groups : \A c \in G, d \in G : c # d =>
        \A s \in Specs[c], t \in Specs[d] : (s.plugin = None) <=> (t.plugin = None)

\* The configurations that exist may exist together.
Together ==
    \A c \in Configs, d \in Configs :
        cfgs[c].phase # "absent" /\ cfgs[d].phase # "absent" /\ c # d =>
            \E G \in Groups : c \in G /\ d \in G

\* At first there is one configuration.
LEMMA TogetherInit == Init => Together
<1> SUFFICES ASSUME Init PROVE Together
  OBVIOUS
<1>1. PICK i \in Starts : AppliedInit(i.c, i.spec)
  BY DEF Init
<1>2. \A d \in Configs \ {i.c} : cfgs[d] = Absent
  BY <1>1 DEF AppliedInit
<1> QED BY <1>2, SMT DEF Together, Absent

\* Only CreateConfig brings a configuration about.
LEMMA TogetherNext ==
    ASSUME TypeInv, Together, [Next]_vars
    PROVE  Together'
<1> DEFINE Fewer == \A d \in Configs :
                        cfgs'[d].phase # "absent" => cfgs[d].phase # "absent"
<1>1. Fewer => Together'
  BY DEF Together
<1>2. /\ DOMAIN cfgs = Configs
      /\ \A d \in Configs :
            DOMAIN cfgs[d] = {"phase", "fin", "skip", "gen", "spec", "status"}
  BY DEF TypeInv, RecordInv, Shape
<1>3. ASSUME NEW c \in Configs, CreateConfig(c) PROVE Together'
  <2>1. PICK G \in Groups :
          {d \in Configs : cfgs[d].phase # "absent"} \cup {c} \subseteq G
    BY <1>3 DEF CreateConfig
  <2>2. \A d \in Configs \ {c} : cfgs'[d] = cfgs[d]
    BY <1>3, <1>2 DEF CreateConfig
  <2>3. \A d \in Configs : cfgs'[d].phase # "absent" => d \in G
    BY <2>1, <2>2
  <2> QED BY <2>3 DEF Together
<1>4. CASE cfgs' = cfgs
  BY <1>1, <1>4
<1>5. ASSUME NEW c \in Configs, NEW x, cfgs' = [cfgs EXCEPT ![c] = x],
             x.phase # "absent" => cfgs[c].phase # "absent"
      PROVE  Together'
  BY <1>1, <1>2, <1>5
<1>6. ASSUME NEW c \in Configs, cfgs' = ReleaseNow(c) PROVE Together'
  BY <1>5, <1>6 DEF ReleaseNow, Absent
<1>7. ASSUME NEW c \in Configs, EditConfig(c) \/ DeleteConfig(c) \/ AnnotateSkip(c)
                                \/ Begin(c) \/ BeginBlocked(c)
      PROVE  Together'
  <2>1. CASE cfgs' # ReleaseNow(c)
    <3>1. Fewer
      BY <2>1, <1>2, <1>7
      DEF EditConfig, DeleteConfig, AnnotateSkip, Begin, BeginBlocked
    <3> QED BY <3>1, <1>1
  <2> QED BY <2>1, <1>6
<1>8. ASSUME work.pc # "idle", NEW st, NEW recorded, NEW lost,
             SetStatus(st, recorded, lost)
      PROVE  Together'
  <2>1. work.c \in Configs
    BY <1>8 DEF TypeInv, RecordInv, Informed
  <2>2. Fewer
    BY <1>8, <2>1, <1>2, ZenonT(30) DEF SetStatus
  <2> QED BY <2>2, <1>1
<1>9. CASE Finish \/ FinishClean
  <2>1. /\ work.pc # "idle"
        /\ \E st, recorded : \E lost \in BOOLEAN : SetStatus(st, recorded, lost)
    BY <1>9, ZenonT(30) DEF Finish, FinishClean
  <2> QED BY <2>1, <1>8
<1>10. CASE FinalizeRelease
  <2>1. work.c \in Configs
    BY <1>10 DEF TypeInv, RecordInv, Informed, FinalizeRelease
  <2>2. cfgs' = cfgs \/ cfgs' = ReleaseNow(work.c)
    BY <1>10 DEF FinalizeRelease
  <2> QED BY <2>1, <2>2, <1>4, <1>6
<1>11. CASE \E c \in Configs : FinalizeSkip(c)
  BY <1>6, <1>11 DEF FinalizeSkip
<1>12. CASE \/ \E c \in Configs : BeginFinalize(c) \/ Clock(c)
            \/ Observe \/ applyReplica \/ FinalizeClear \/ FinalizeUnion
            \/ FinalizePush \/ ChangeSecret \/ ChangeAccess \/ Crash
            \/ UNCHANGED vars
            \/ \E q \in Fragile :
                \/ MonitorMove(q) \/ Wipe(q) \/ RestartPod(q) \/ ReplacePod(q)
                \/ LoseReady(q)
            \/ \E q \in Pods : BecomeReady(q)
  <2>1. cfgs' = cfgs
    BY <1>12 DEF BeginFinalize, Clock, Observe, applyReplica, FinalizeClear,
       FinalizeUnion, FinalizePush, ChangeSecret, ChangeAccess, Crash, MonitorMove,
       Wipe, RestartPod, ReplacePod, LoseReady, BecomeReady, vars
  <2> QED BY <2>1, <1>4
<1> QED BY <1>3, <1>7, <1>9, <1>10, <1>11, <1>12, ZenonT(30) DEF Next

\* A configuration that finds its record unchanged has recorded what it asks
\* for now, at the addresses there are now.
LEMMA QuietRecord ==
    ASSUME NEW c \in Configs, Quiet(c)
    PROVE  /\ c \in Holders /\ buildUnionedDesired(None) # None
           /\ Record(c).target[1] = Wanted([union |-> buildUnionedDesired(None),
                                            rds |-> Record(c).target[2]])
           /\ Record(c).target[2] = None <=> cfgs[c].spec.plugin = None
           /\ \A q \in DOMAIN Endpoints : Covers(c, q)
<1> DEFINE u == buildUnionedDesired(None)
           rds == buildRDSReconcileState(cfgs[c].spec)
           r == Reads(c)
<1>1. r.union = u /\ r.rds = rds /\ r.eps = Endpoints
  BY DEF Reads
<1>2. /\ ~Blocked(r) /\ cfgs[c].status.hash # None
      /\ cfgs[c].status.hash = combinedSyncFingerprint(Wanted(r), r.rds, r.eps)
  BY DEF Quiet, unchanged
<1>3. c \in Holders /\ Record(c) = combinedSyncFingerprint(Wanted(r), rds, Endpoints)
  BY <1>1, <1>2 DEF Holders, Record
<1>4. u # None /\ rds \notin RDSErrors
  BY <1>1, <1>2 DEF Blocked
<1>5. Record(c).target[2] = rds /\ Record(c).target[1] = Wanted(r)
  BY <1>3, SMT DEF combinedSyncFingerprint
<1>6. Wanted(r) = Wanted([union |-> u, rds |-> rds])
  BY <1>1 DEF Wanted
<1>7. rds = None <=> cfgs[c].spec.plugin = None
  BY <1>4 DEF buildRDSReconcileState, RDSErrors
<1>8. \A q \in DOMAIN Endpoints : Covers(c, q)
  <2>1. \A q \in DOMAIN Endpoints : Endpoints[q] = pods[q].addr
    BY DEF Endpoints
  <2>2. Record(c).at = {Endpoints[q] : q \in DOMAIN Endpoints}
    BY <1>3, SMT DEF combinedSyncFingerprint
  <2> QED BY <2>1, <2>2 DEF Covers
<1> QED BY <1>3, <1>4, <1>5, <1>6, <1>7, <1>8, ZenonT(30)

\* What a push leaves is the pushed table with its columns filled in.
LEMMA LeftStored ==
    ASSUME NEW t, NEW d, IsTable(d[t])
    PROVE  Left(t, d) = Stored(t, d[t])
<1>1. CASE DOMAIN d[t] = {}
  <2>1. d[t] = Empty
    BY <1>1 DEF IsTable, Empty
  <2>2. Stored(t, Empty) = Empty
    BY DEF Stored, Empty
  <2> QED BY <1>1, <2>1, <2>2 DEF Left
<1>2. CASE DOMAIN d[t] # {}
  BY <1>2 DEF Left
<1> QED BY <1>1, <1>2

\* The records of configurations that all rest agree, and one of them is right.
LEMMA RestingInPlace ==
    ASSUME Alike, TypeInv, TableInv, Together
    PROVE  SkipOnlyWhenAsserted
<1> SUFFICES ASSUME Resting, NEW c \in LiveConfigs, NEW q \in DOMAIN Endpoints \ loose,
                    NEW t \in TableNames, Pushes(t, Record(c).target[2] # None)
             PROVE  pods[q].mem[t] = Stored(t, Record(c).target[1][t])
  BY DEF SkipOnlyWhenAsserted, Record
<1> DEFINE u == buildUnionedDesired(None)
<1>1. work.pc = "idle" /\ work.done = {} /\ q \in Pods
  BY DEF Resting, TableInv, Stages, Endpoints
<1>2. Supported(q)
  BY <1>1 DEF TableInv, Trusted, Sound
<1>3. \A d \in Holders : d \in LiveConfigs /\ d \in Configs /\ Quiet(d)
  BY DEF Holders, TypeInv, RecordInv, Guarded, ObjectsOK, ObjectOK, Resting, LiveConfigs
<1>4. c \in Configs /\ Quiet(c) /\ c \in Holders
  BY QuietRecord DEF Resting, LiveConfigs
<1>5. PICK d \in Holders : TellsOf(d, q)
  BY <1>2, <1>3, <1>4, QuietRecord DEF Supported
<1>6. /\ u # None
      /\ Record(c).target[1] = Wanted([union |-> u, rds |-> Record(c).target[2]])
      /\ Record(d).target[1] = Wanted([union |-> u, rds |-> Record(d).target[2]])
  BY <1>3, <1>4, <1>5, QuietRecord
<1>7. Record(c).target[2] = None <=> Record(d).target[2] = None
  <2>1. CASE c = d
    BY <2>1
  <2>2. CASE c # d
    <3>1. /\ cfgs[c].phase # "absent" /\ cfgs[d].phase # "absent" /\ d \in Configs
          /\ cfgs[c].spec \in Specs[c] /\ cfgs[d].spec \in Specs[d]
      BY <1>3, <1>5 DEF LiveConfigs, TypeInv, ObjectsOK, ObjectOK
    <3>2. cfgs[c].spec.plugin = None <=> cfgs[d].spec.plugin = None
      <4>1. PICK G \in Groups : c \in G /\ d \in G
        BY <3>1, <2>2, <1>4 DEF Together
      <4>2. \A s \in Specs[c], r \in Specs[d] : (s.plugin = None) <=> (r.plugin = None)
        BY <4>1, <2>2, ZenonT(30) DEF Alike
      <4> QED BY <3>1, <4>2
    <3>3. /\ Record(c).target[2] = None <=> cfgs[c].spec.plugin = None
          /\ Record(d).target[2] = None <=> cfgs[d].spec.plugin = None
      BY <1>3, <1>4, <1>5, QuietRecord
    <3> QED BY <3>2, <3>3
  <2> QED BY <2>1, <2>2
<1>8. Pushes(t, Record(d).target[2] # None)
  BY <1>7 DEF Pushes
<1>9. Record(c).target[1][t] = u[t] /\ Record(d).target[1][t] = u[t]
  <2>1. PICK r, s : r = Record(c).target[2] /\ s = Record(d).target[2]
    OBVIOUS
  <2> HIDE DEF u
  <2>2. /\ Wanted([union |-> u, rds |-> r])[t] = u[t]
        /\ Wanted([union |-> u, rds |-> s])[t] = u[t]
    BY <2>1, <1>8, NativeInPlace, ZenonT(30)
  <2> QED BY <2>1, <2>2, <1>6
<1>10. pods[q].mem[t] = Left(t, Record(d).target[1])
  BY <1>5, <1>8 DEF TellsOf, InPlace
<1>11. IsTable(u[t])
  <2>1. t \in DesiredSections
    BY DEF DesiredSections, Sections
  <2> QED BY <2>1, <1>6, UnionDesired
<1> HIDE DEF u
<1>12. Left(t, Record(d).target[1]) = Stored(t, u[t])
  BY <1>9, <1>11, LeftStored
<1> QED BY <1>9, <1>10, <1>12

\* A pass that finds nothing changed, and pushes nothing, is right to: when
\* every configuration finds its record unchanged, the admin tables of each
\* ready replica are what the configurations ask for together.  The records
\* that cannot be relied on are those about replicas in loose.  The records are
\* the fingerprints of reconcileReadyReplicas, written by setStatus and never
\* equal to the empty one, and configurations that use the RDS proxy are not
\* mixed with others.
THEOREM SkipsNothing ==
    ASSUME NeverNone, Alike
    PROVE  Spec => []SkipOnlyWhenAsserted
<1>1. Init => TypeInv /\ TableInv /\ Together
  BY TypeInit, TableInit, TogetherInit
<1>2. TypeInv /\ TableInv /\ Together /\ [Next]_vars => (TypeInv /\ TableInv /\ Together)'
  BY TypeNext, TableNext, TogetherNext
<1>3. TypeInv /\ TableInv /\ Together => SkipOnlyWhenAsserted
  BY RestingInPlace
<1> QED BY <1>1, <1>2, <1>3, PTL DEF Spec

=============================================================================
