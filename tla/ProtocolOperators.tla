--------------------------- MODULE ProtocolOperators ---------------------------
(***************************************************************************)
(* The protocol operator manager of a core (src/src/service/pom.rs), for   *)
(* one protocol.  A start holds the file lock of the protocol while it     *)
(* prepares the package, runs the operator and writes the records of the   *)
(* instance; a stop takes the lock only to write the list of instances.    *)
(*                                                                         *)
(* Each start creates one instance, named by the request.  The records are *)
(* storage entries that anybody with the right can read as soon as they    *)
(* are written, so that a stop may come while the start is still running.  *)
(***************************************************************************)
CONSTANTS Users, NoUser,
          Instances,  \* the calls of start_protocol_operator
          Stops,      \* the calls of stop_protocol_operator
          NoInstance,
          Faulty      \* storage and downloads may fail, clients may go away

ASSUME NoneAssumption == NoUser \notin Users /\ NoInstance \notin Instances
ASSUME FaultyAssumption == Faulty \in BOOLEAN

VARIABLES
    package,   \* the colink.toml of the package is in its directory
    installed, \* its install script has run, if it has one
    group,     \* [Users -> protocol_operator_groups:{protocol}], empty if there is none
    grouped,   \* the users who have such an entry
    records,   \* [Instances -> the records written of it]
    process,   \* [Instances -> "none", "running" or "ended"]
    kind,      \* [Instances -> whether it is run as a process or a container]
    start,     \* [Instances -> where the start call stands]
    owner,     \* [Instances -> the user it is started for]
    seen,      \* [Instances -> running_instances, as the call read them]
    stop,      \* [Stops -> where the stop call stands]
    target     \* [Stops -> the instance to stop]

vars == <<package, installed, group, grouped, records, process, kind, start, owner,
          seen, stop, target>>

directory == <<package, installed>>
lists == <<group, grouped>>
stopping == <<stop, target>>

\* While it is at one of these a start holds the file lock.
Holding == {"fetch", "install", "spawn", "user", "xid", "name", "group"}

TypeOK ==
    /\ package \in BOOLEAN /\ installed \in BOOLEAN
    /\ group \in [Users -> SUBSET Instances]
    /\ grouped \subseteq Users
    /\ records \in [Instances -> SUBSET {"user", "xid", "name"}]
    /\ process \in [Instances -> {"none", "running", "ended"}]
    /\ kind \in [Instances -> {"none", "pid", "container_id"}]
    /\ start \in [Instances -> Holding \cup {"idle", "ok", "failed"}]
    /\ owner \in [Instances -> Users \cup {NoUser}]
    /\ seen \in [Instances -> SUBSET Instances]
    /\ stop \in [Stops -> {"idle", "killed", "ok", "failed"}]
    /\ target \in [Stops -> Instances \cup {NoInstance}]

Init ==
    /\ package = FALSE /\ installed = FALSE
    /\ group = [u \in Users |-> {}]
    /\ grouped = {}
    /\ records = [i \in Instances |-> {}]
    /\ process = [i \in Instances |-> "none"]
    /\ kind = [i \in Instances |-> "none"]
    /\ start = [i \in Instances |-> "idle"]
    /\ owner = [i \in Instances |-> NoUser]
    /\ seen = [i \in Instances |-> {}]
    /\ stop = [s \in Stops |-> "idle"]
    /\ target = [s \in Stops |-> NoInstance]

-------------------------------------------------------------------------------
\* Mutant: the lock protects the package, but not the records and the list.
LockFreeEarly == \A i \in Instances : start[i] \notin {"fetch", "install", "spawn"}

\* Mutant: the lock protects the records and the list, but not the package.
LockFreeLate == \A i \in Instances : start[i] \notin {"user", "xid", "name", "group"}

\* get_file_lock and lock_exclusive
LockFree == \A i \in Instances : start[i] \notin Holding

To(i, there) == start' = [start EXCEPT ![i] = there]

\* The lock is taken and the list of u's instances read.  An upgrade removes
\* the package, unless the list says that instances are running.
Begin(i, u, upgrade) ==
    /\ start[i] = "idle"
    /\ LockFree
    /\ owner' = [owner EXCEPT ![i] = u]
    /\ seen' = [seen EXCEPT ![i] = group[u]]
    /\ \/ upgrade /\ group[u] # {} /\ To(i, "failed") /\ UNCHANGED directory
       \/ ~upgrade /\ To(i, "fetch") /\ UNCHANGED directory
       \/ /\ upgrade /\ group[u] = {}
          /\ package' = FALSE /\ installed' = FALSE
          /\ To(i, "fetch")
    /\ UNCHANGED <<lists, records, process, kind, stopping>>

\* A package whose colink.toml is there is not fetched again.
Fetch(i) ==
    /\ start[i] = "fetch"
    /\ package' = TRUE
    /\ To(i, "install")
    /\ UNCHANGED <<installed, lists, records, process, kind, owner, seen, stopping>>

\* The download, the unpacking or the checkout of the commit fails; what
\* has been unpacked or cloned by then stays, with a colink.toml or without.
FetchFails(i) ==
    /\ Faulty
    /\ start[i] = "fetch"
    /\ ~package
    /\ package' \in BOOLEAN
    /\ To(i, "failed")
    /\ UNCHANGED <<installed, lists, records, process, kind, owner, seen, stopping>>

\* The install script runs once per package.
Install(i) ==
    /\ start[i] = "install"
    /\ installed' = TRUE
    /\ To(i, "spawn")
    /\ UNCHANGED <<package, lists, records, process, kind, owner, seen, stopping>>

\* The operator is run.  Nobody looks at what `docker run` returns.
Spawn(i) ==
    /\ start[i] = "spawn"
    /\ \/ process' = [process EXCEPT ![i] = "running"] /\ kind' = [kind EXCEPT ![i] = "pid"]
       \/ /\ \E p \in {"running", "ended"} : process' = [process EXCEPT ![i] = p]
          /\ kind' = [kind EXCEPT ![i] = "container_id"]
    /\ To(i, "user")
    /\ UNCHANGED <<directory, lists, records, owner, seen, stopping>>

\* Mutant: the name of the protocol is not recorded.
NextRecordShort(r) == IF r = "user" THEN "xid" ELSE "group"

\* The order of the records of an instance, and of the list.
NextRecord(r) == CASE r = "user" -> "xid" [] r = "xid" -> "name" [] r = "name" -> "group"

Record(i) ==
    /\ start[i] \in {"user", "xid", "name"}
    /\ records' = [records EXCEPT ![i] = @ \cup {start[i]}]
    /\ To(i, NextRecord(start[i]))
    /\ UNCHANGED <<directory, lists, process, kind, owner, seen, stopping>>

\* An update that is stored fails all the same if it cannot be published.
Replies == IF Faulty THEN {"ok", "failed"} ELSE {"ok"}

Enlisted(i) == seen[i] \cup {i}

\* The list that was read is written back with the instance, and the lock given up.
Enlist(i) ==
    /\ start[i] = "group"
    /\ group' = [group EXCEPT ![owner[i]] = Enlisted(i)]
    /\ grouped' = grouped \cup {owner[i]}
    /\ \E r \in Replies : To(i, r)
    /\ UNCHANGED <<directory, records, process, kind, owner, seen, stopping>>

\* A `?`, or the call is dropped with its client: the lock is given up.
Abort(i) ==
    /\ Faulty
    /\ start[i] \in Holding
    /\ To(i, "failed")
    /\ UNCHANGED <<directory, lists, records, process, kind, owner, seen, stopping>>

\* An operator ends by itself.
End(i) ==
    /\ process[i] = "running"
    /\ process' = [process EXCEPT ![i] = "ended"]
    /\ UNCHANGED <<directory, lists, records, kind, start, owner, seen, stopping>>

-------------------------------------------------------------------------------
\* `kill` finds an ended process, too, since the core has not waited for it;
\* `docker kill` finds running containers only.
Killable(i) == kind[i] = "pid" \/ process[i] = "running"

\* Owner and process are looked up, and the operator is killed.
Kill(s, i) ==
    /\ stop[s] = "idle"
    /\ {"user", "xid"} \subseteq records[i]
    /\ target' = [target EXCEPT ![s] = i]
    /\ IF Killable(i)
       THEN /\ process' = [process EXCEPT ![i] = "ended"]
            /\ stop' = [stop EXCEPT ![s] = "killed"]
       ELSE /\ stop' = [stop EXCEPT ![s] = "failed"]
            /\ UNCHANGED process
    /\ UNCHANGED <<directory, lists, records, kind, start, owner, seen>>

\* The instance is taken out of the list, under the lock.
Delist(s) ==
    /\ stop[s] = "killed"
    /\ "name" \in records[target[s]]
    /\ LockFree
    /\ owner[target[s]] \in grouped
    /\ group' = [group EXCEPT ![owner[target[s]]] = @ \ {target[s]}]
    /\ \E r \in Replies : stop' = [stop EXCEPT ![s] = r]
    /\ UNCHANGED <<directory, grouped, records, process, kind, start, owner, seen, target>>

\* The name of the protocol is not recorded, or not yet; or the user has no list
\* of instances; or the call is dropped.
GiveUp(s) ==
    /\ stop[s] = "killed"
    /\ \/ Faulty
       \/ "name" \notin records[target[s]]
       \/ LockFree /\ owner[target[s]] \notin grouped
    /\ stop' = [stop EXCEPT ![s] = "failed"]
    /\ UNCHANGED <<directory, lists, records, process, kind, start, owner, seen, target>>

-------------------------------------------------------------------------------
Starting(i) ==
    \/ Fetch(i) \/ FetchFails(i) \/ Install(i) \/ Spawn(i) \/ Record(i) \/ Enlist(i)
    \/ Abort(i)
    \/ \E u \in Users, upgrade \in BOOLEAN : Begin(i, u, upgrade)

Stopping(s) == Delist(s) \/ GiveUp(s) \/ \E i \in Instances : Kill(s, i)

Next == \/ \E i \in Instances : Starting(i) \/ End(i)
        \/ \E s \in Stops : Stopping(s)

Spec == Init /\ [][Next]_vars

-------------------------------------------------------------------------------
(* What has to hold.                                                       *)

\* Whatever is listed can be found by a stop: its records are complete, and
\* say that it belongs to the user in whose list it is.
ListedIsRecorded ==
    \A u \in Users : \A i \in group[u] :
        owner[i] = u /\ records[i] = {"user", "xid", "name"}

\* An operator that was started and is still running is in its user's list, so
\* that an upgrade of that user spares it: concurrent starts and stops never
\* lose each other's changes of the list, nor is the list ahead of a kill.
RunningIsListed ==
    \A i \in Instances :
        (start[i] = "ok" /\ process[i] = "running") => i \in group[owner[i]]

\* After a stop that succeeded the operator does not run and is in no list,
\* even if the stop overtook the start.
StoppedIsGone ==
    \A s \in Stops : stop[s] = "ok" =>
        /\ process[target[s]] = "ended"
        /\ \A u \in Users : target[s] \notin group[u]

\* No operator is run in a package that is not installed or that a concurrent
\* upgrade has taken away.
RunsInstalled ==
    [][\A i \in Instances :
          (process[i] = "none" /\ process'[i] # "none") => package /\ installed]_vars

\* Comment at line 83 of pom.rs: the package is upgraded if there are no running
\* instances.  Then it is never taken away from a running operator.
UpgradeSparesRunning ==
    [][(package /\ ~package') =>
          \A i \in Instances : process[i] # "running"]_vars
===============================================================================
