---------------------------- MODULE VerifiedRecord ----------------------------
(***************************************************************************)
(* What the status of a ProxySQLConfig promises its reader: an applied     *)
(* fingerprint names a target and a set of addresses, and it was written,  *)
(* or confirmed, only in a pass that saw the target satisfied at every one *)
(* of these addresses.  How the pass brings that about is left open, and   *)
(* so is what happens at an address afterwards.  ConfigSync implements     *)
(* this specification.                                                     *)
(***************************************************************************)
CONSTANTS
    Owners,             \* those who keep a record
    Satisfies(_, _),    \* Satisfies(x, t): what runs as x satisfies target t
    NoRecord

VARIABLES
    running,    \* the set of what runs at each address
    record,     \* the record of each owner, [target, at], or NoRecord
    current,    \* whether a record was written or confirmed recently
    pass        \* the pass under way: [open, owner, target, at, seen]

vars == <<running, record, current, pass>>

Satisfied(a, target) == \E x \in running[a] : Satisfies(x, target)

\* A record there is at the start is true.
Init ==
    /\ \A o \in Owners :
        \/ record[o] = NoRecord
        \/ \A a \in record[o].at : Satisfied(a, record[o].target)
    /\ ~pass.open

\* An owner sets out to bring a target to some addresses.
Open ==
    /\ ~pass.open
    /\ pass'.open
    /\ pass'.owner \in Owners
    /\ pass'.seen = {}
    /\ UNCHANGED <<running, record, current>>

\* It looks at one of them.
See ==
    /\ pass.open
    /\ \E a \in pass.at :
        /\ Satisfied(a, pass.target)
        /\ pass' = [pass EXCEPT !.seen = @ \cup {a}]
    /\ UNCHANGED <<running, record, current>>

\* It starts looking again.
Restart ==
    /\ pass.open
    /\ pass' = [pass EXCEPT !.seen = {}]
    /\ UNCHANGED <<running, record, current>>

\* Having seen them all, it leaves a record.
Write ==
    /\ pass.open
    /\ pass.seen = pass.at
    /\ record' = [record EXCEPT ![pass.owner] =
                    [target |-> pass.target, at |-> pass.at]]
    /\ current' = [current EXCEPT ![pass.owner] = TRUE]
    /\ ~pass'.open
    /\ UNCHANGED running

GiveUp == pass.open /\ ~pass'.open /\ UNCHANGED <<running, record, current>>

\* Records age, and go away with their owner.
Age ==
    /\ \E o \in Owners :
        /\ current' = [current EXCEPT ![o] = FALSE]
        /\ \/ UNCHANGED record
           \/ record' = [record EXCEPT ![o] = NoRecord]
    /\ UNCHANGED <<running, pass>>

\* Anything may happen to what runs.
Change == UNCHANGED <<record, current, pass>>

Next == Open \/ See \/ Restart \/ Write \/ GiveUp \/ Age \/ Change

Spec == Init /\ [][Next]_vars

=============================================================================
