------------------------------- MODULE UserInit -------------------------------
(***************************************************************************)
(* Importing one user into a core (src/src/service/auth.rs), and the task  *)
(* in the background that starts the operators the user is configured with *)
(* (src/src/service/user_init.rs).  The user may be imported again; the    *)
(* first initialisation then goes on beside the second.                    *)
(*                                                                         *)
(* An operator, a program of its own, reports that its protocol is         *)
(* initialised by setting the flag of the protocol to 1.                   *)
(***************************************************************************)
EXTENDS Naturals

CONSTANTS ProtocolNum,  \* protocols in the user's configuration, in its order
          After,        \* [Protocols -> its start_after]
          OperatorNum,  \* operators to start of each
          ImportNum     \* bound on how often the user is imported

Protocols == 1 .. ProtocolNum
Imports == 1 .. ImportNum

ASSUME BoundAssumption == {ProtocolNum, OperatorNum, ImportNum} \subseteq Nat \ {0}
ASSUME AfterAssumption == After \in [Protocols -> SUBSET Protocols]

VARIABLES
    faulty,       \* whether operators fail to start, or never report
    import,       \* [Imports -> where the call stands]
    member,       \* whether imported_users has the user
    initialized,  \* the user's _is_initialized, as last written
    init,         \* [Imports -> where user_init stands]
    spawned,      \* [Imports -> [Protocols -> where init_protocol stands]]
    seen,         \* [Imports -> [Protocols -> those of start_after it need not wait for]]
    started,      \* [Imports -> [Protocols -> operators it has started]]
    flag,         \* [Protocols -> _internal:protocols:{p}:_is_initialized]
    busy,         \* [Protocols -> operators that run and have not reported]
    reported,     \* protocols an operator has ever reported
    refused       \* whether a start came before the user was in imported_users

vars == <<faulty, import, member, initialized, init, spawned, seen,
          started, flag, busy, reported, refused>>

calls == <<import, member>>
operators == <<busy, reported, refused>>

TypeOK ==
    /\ faulty \in BOOLEAN /\ member \in BOOLEAN /\ refused \in BOOLEAN
    /\ import \in [Imports -> {"idle", "stored", "spawned", "done", "failed"}]
    /\ initialized \in {"none", "0", "1"}
    /\ init \in [Imports -> {"none", "spawning", "awaiting", "done", "failed"}]
    /\ spawned \in [Imports -> [Protocols -> {"none", "after", "flag", "start", "wait",
                                              "done", "failed"}]]
    /\ seen \in [Imports -> [Protocols -> SUBSET Protocols]]
    /\ started \in [Imports -> [Protocols -> 0 .. OperatorNum]]
    /\ flag \in [Protocols -> {"none", "0", "1"}]
    /\ busy \in [Protocols -> Nat]
    /\ reported \subseteq Protocols

Init ==
    /\ faulty \in BOOLEAN
    /\ import = [i \in Imports |-> "idle"]
    /\ member = FALSE /\ initialized = "none"
    /\ init = [i \in Imports |-> "none"]
    /\ spawned = [i \in Imports |-> [p \in Protocols |-> "none"]]
    /\ seen = [i \in Imports |-> [p \in Protocols |-> {}]]
    /\ started = [i \in Imports |-> [p \in Protocols |-> 0]]
    /\ flag = [p \in Protocols |-> "none"]
    /\ busy = [p \in Protocols |-> 0]
    /\ reported = {} /\ refused = FALSE

-------------------------------------------------------------------------------
(* _import_user                                                            *)

\* The consent and the token are stored, then the user's flag.
Import(i) ==
    /\ import[i] = "idle"
    /\ import' = [import EXCEPT ![i] = "stored"]
    /\ initialized' = "0"
    /\ UNCHANGED <<faulty, member, init, spawned, seen, started, flag, operators>>

\* One of the three updates fails.
ImportFails(i) ==
    /\ import[i] = "idle"
    /\ faulty
    /\ import' = [import EXCEPT ![i] = "failed"]
    /\ UNCHANGED <<faulty, member, initialized, init, spawned, seen, started, flag, operators>>

SpawnInit(i) ==
    /\ import[i] = "stored"
    /\ import' = [import EXCEPT ![i] = "spawned"]
    /\ init' = [init EXCEPT ![i] = "spawning"]
    /\ UNCHANGED <<faulty, member, initialized, spawned, seen, started, flag, operators>>

\* Only now do requests in the user's name pass check_privilege_in.
Insert(i) ==
    /\ import[i] = "spawned"
    /\ import' = [import EXCEPT ![i] = "done"]
    /\ member' = TRUE
    /\ UNCHANGED <<faulty, initialized, init, spawned, seen, started, flag, operators>>

-------------------------------------------------------------------------------
(* user_init                                                               *)

\* The configuration is read, and a task spawned for every protocol.
SpawnAll(i) ==
    /\ init[i] = "spawning"
    /\ init' = [init EXCEPT ![i] = "awaiting"]
    /\ spawned' = [spawned EXCEPT ![i] = [p \in Protocols |-> "after"]]
    /\ UNCHANGED <<faulty, calls, initialized, seen, started, flag, operators>>

\* Mutant: the error of a task that was joined is not looked at.
JoinedAnyway(i, p) == spawned[i][p] \in {"done", "failed"}

Joined(i, p) == spawned[i][p] = "done"

AllJoined(i) ==
    /\ init[i] = "awaiting"
    /\ \A p \in Protocols : Joined(i, p)
    /\ init' = [init EXCEPT ![i] = "done"]
    /\ initialized' = "1"
    /\ UNCHANGED <<faulty, calls, spawned, seen, started, flag, operators>>

\* The first error in the order of the configuration ends user_init; the tasks
\* that it has not joined go on.
JoinFails(i) ==
    /\ init[i] = "awaiting"
    /\ \E p \in Protocols : /\ spawned[i][p] = "failed"
                            /\ \A q \in 1 .. p - 1 : Joined(i, q)
    /\ init' = [init EXCEPT ![i] = "failed"]
    /\ UNCHANGED <<faulty, calls, initialized, spawned, seen, started, flag, operators>>

-------------------------------------------------------------------------------
(* init_protocol                                                           *)

\* Mutant: a flag that has been read is taken for a flag that is set.
IsThere(q) == flag[q] # "none"

IsInitialized(q) == flag[q] = "1"

\* wait_protocol_initialization, for one protocol of start_after after the other.
SeeOther(i, p, q) ==
    /\ spawned[i][p] = "after"
    /\ q \in After[p] \ seen[i][p]
    /\ IsInitialized(q)
    /\ seen' = [seen EXCEPT ![i][p] = @ \cup {q}]
    /\ UNCHANGED <<faulty, calls, initialized, init, spawned, started, flag, operators>>

\* The entries of the configuration are created.
CreateEntries(i, p) ==
    /\ spawned[i][p] = "after"
    /\ seen[i][p] = After[p]
    /\ spawned' = [spawned EXCEPT ![i][p] = "flag"]
    /\ UNCHANGED <<faulty, calls, initialized, init, seen, started, flag, operators>>

ResetFlag(i, p) ==
    /\ spawned[i][p] = "flag"
    /\ flag' = [flag EXCEPT ![p] = "0"]
    /\ spawned' = [spawned EXCEPT ![i][p] = "start"]
    /\ UNCHANGED <<faulty, calls, initialized, init, seen, started, operators>>

\* check_privilege_in, at the head of _start_protocol_operator.
Admitted == member

StartOperator(i, p) ==
    /\ spawned[i][p] = "start"
    /\ Admitted
    /\ started[i][p] < OperatorNum
    /\ started' = [started EXCEPT ![i][p] = @ + 1]
    /\ busy' = [busy EXCEPT ![p] = @ + 1]
    /\ UNCHANGED <<faulty, calls, initialized, init, spawned, seen, flag, reported, refused>>

StartRefused(i, p) ==
    /\ spawned[i][p] = "start"
    /\ ~Admitted
    /\ spawned' = [spawned EXCEPT ![i][p] = "failed"]
    /\ refused' = TRUE
    /\ UNCHANGED <<faulty, calls, initialized, init, seen, started, flag, busy, reported>>

\* An update fails, or the operator cannot be fetched, installed or started.
InitFails(i, p) ==
    /\ faulty
    /\ spawned[i][p] \in {"flag", "start"}
    /\ spawned' = [spawned EXCEPT ![i][p] = "failed"]
    /\ UNCHANGED <<faulty, calls, initialized, init, seen, started, flag, operators>>

\* Mutant: the flag is set to 0 once the operators are running.
AllStartedReset(i, p) ==
    /\ spawned[i][p] = "start"
    /\ started[i][p] = OperatorNum
    /\ flag' = [flag EXCEPT ![p] = "0"]
    /\ spawned' = [spawned EXCEPT ![i][p] = "wait"]
    /\ UNCHANGED <<faulty, calls, initialized, init, seen, started, operators>>

AllStarted(i, p) ==
    /\ spawned[i][p] = "start"
    /\ started[i][p] = OperatorNum
    /\ spawned' = [spawned EXCEPT ![i][p] = "wait"]
    /\ UNCHANGED <<faulty, calls, initialized, init, seen, started, flag, operators>>

SeeInitialized(i, p) ==
    /\ spawned[i][p] = "wait"
    /\ IsInitialized(p)
    /\ spawned' = [spawned EXCEPT ![i][p] = "done"]
    /\ UNCHANGED <<faulty, calls, initialized, init, seen, started, flag, operators>>

-------------------------------------------------------------------------------
\* An operator has initialised its protocol, or ends before.
Report(p) ==
    /\ busy[p] > 0
    /\ busy' = [busy EXCEPT ![p] = @ - 1]
    /\ flag' = [flag EXCEPT ![p] = "1"]
    /\ reported' = reported \cup {p}
    /\ UNCHANGED <<faulty, calls, initialized, init, spawned, seen, started, refused>>

Die(p) ==
    /\ faulty
    /\ busy[p] > 0
    /\ busy' = [busy EXCEPT ![p] = @ - 1]
    /\ UNCHANGED <<faulty, calls, initialized, init, spawned, seen, started, flag, reported, refused>>

-------------------------------------------------------------------------------
Importing(i) == SpawnInit(i) \/ Insert(i)

Initializing(i) == SpawnAll(i) \/ AllJoined(i) \/ JoinFails(i)

Protocol(i, p) ==
    \/ CreateEntries(i, p) \/ ResetFlag(i, p) \/ StartOperator(i, p) \/ StartRefused(i, p)
    \/ \E q \in After[p] : SeeOther(i, p, q)
    \/ AllStarted(i, p) \/ SeeInitialized(i, p)

Next ==
    \/ \E i \in Imports : \/ Import(i) \/ ImportFails(i) \/ Importing(i) \/ Initializing(i)
                          \/ \E p \in Protocols : Protocol(i, p) \/ InitFails(i, p)
    \/ \E p \in Protocols : Report(p) \/ Die(p)

Spec == Init /\ [][Next]_vars

\* The runtime goes on with what is begun, and polls for ever; operators that
\* do not die report.
Fairness ==
    /\ \A i \in Imports : /\ WF_vars(Importing(i)) /\ WF_vars(Initializing(i))
                          /\ \A p \in Protocols : WF_vars(Protocol(i, p))
    /\ \A p \in Protocols : WF_vars(Report(p) \/ Die(p))

FairSpec == Spec /\ Fairness

-------------------------------------------------------------------------------
(* What has to hold.                                                       *)

\* A user is marked as initialised only if every protocol of the configuration
\* has reported to be, whatever failed and however often the user is imported.
InitializedMeansReported == initialized = "1" => reported = Protocols

\* An operator is started only after the protocols that it builds on have
\* reported, although each task polls for itself, and may find the flags of an
\* earlier import or see them reset behind it.
OperatorsOrdered ==
    \A i \in Imports, p \in Protocols : started[i][p] > 0 => After[p] \subseteq reported

\* A user whose operators start and report gets initialised, imported once or
\* again; except if the task in the background has asked for an operator
\* before the call that spawned it has entered the user (lines 150-157 of
\* auth.rs).
ImportInitializes ==
    \A i \in Imports :
        (~faulty /\ import[i] = "done") ~> (initialized = "1" \/ refused)
===============================================================================
