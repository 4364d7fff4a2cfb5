----------------------------- MODULE TaskStorage -----------------------------
(***************************************************************************)
(* The status lists of the tasks of one user on one core                   *)
(* (src/src/service/task.rs).  TaskSync has one task and changes its lists *)
(* in one step; here several tasks share the lists, every call to the      *)
(* storage is a step, and a request may fail, or be dropped, between any   *)
(* two of them.  All tasks are of one protocol and of one role in it.      *)
(***************************************************************************)
EXTENDS Naturals, Sequences, FiniteSets

CONSTANTS Tasks,
          Confirmed,  \* the statuses that confirming gives: "approved", "rejected", "started"
          Settled,    \* those that settling gives: "rejected", "started"
          Faulty      \* calls to the storage fail and requests are dropped

ASSUME GoalsAssumption == /\ Confirmed \subseteq {"approved", "rejected", "started"}
                          /\ Settled \subseteq {"rejected", "started"}
ASSUME FlagAssumption == Faulty \in BOOLEAN

\* "ignored" is left out: nothing follows from it that does not from "rejected".
Statuses == {"waiting", "approved", "rejected", "started", "finished"}

\* protocols:{name}:{status}, then tasks:status:{status}.
Lists == {"protocols", "tasks"}

\* What is done to a task: the handler that brings it here, _confirm_task, the
\* second section of a handler that settles it, and _finish_task.
Kinds == {"sync", "confirm", "settle", "finish"}
Calls == Tasks \X Kinds
Task(k) == k[1]
Kind(k) == k[2]

VARIABLES
    status,    \* [Tasks -> status in tasks:{id}]
    list,      \* [Lists -> [Statuses -> the stored list]]
    latest,    \* [Lists -> [Statuses -> the tasks written to its ":latest" key]]
    at,        \* [Calls -> where the call stands]
    working,   \* [Calls -> the list it works on]
    copy,      \* [Calls -> that list as it has read it]
    goal,      \* [Calls -> the status it gives to the task]
    disturbed  \* tasks of which a call ended with some, not all, steps taken

vars == <<status, list, latest, at, working, copy, goal, disturbed>>

\* An entry names the task, and the key path of ":latest" it was written with.
Entries == [task : Tasks, version : Nat]

InSection == {"take", "drop", "store", "note", "fetch", "push"}

TypeOK ==
    /\ status \in [Tasks -> Statuses \cup {"absent"}]
    /\ list \in [Lists -> [Statuses -> Seq(Entries)]]
    /\ latest \in [Lists -> [Statuses -> Seq(Tasks)]]
    /\ at \in [Calls -> {"idle", "lock", "done", "failed"} \cup InSection]
    /\ working \in [Calls -> Lists]
    /\ copy \in [Calls -> Seq(Entries)]
    /\ goal \in [Calls -> Statuses]
    /\ disturbed \subseteq Tasks

Init ==
    /\ status = [t \in Tasks |-> "absent"]
    /\ list = [l \in Lists |-> [s \in Statuses |-> <<>>]]
    /\ latest = [l \in Lists |-> [s \in Statuses |-> <<>>]]
    /\ at = [k \in Calls |-> "idle"]
    /\ working = [k \in Calls |-> "protocols"]
    /\ copy = [k \in Calls |-> <<>>]
    /\ goal = [k \in Calls |-> "waiting"]
    /\ disturbed = {}

Goes(k, place) == at' = [at EXCEPT ![k] = place]

\* After a step on the list it works on, a call does the same to the other
\* list, beginning with `again`, or goes on.
OtherListOr(k, again, next) ==
    IF working[k] = "protocols"
    THEN Goes(k, again) /\ working' = [working EXCEPT ![k] = "tasks"]
    ELSE Goes(k, next) /\ working' = [working EXCEPT ![k] = "protocols"]

-------------------------------------------------------------------------------
(* The calls, up to the lock.                                              *)

\* The task is new here: it is stored first.
Sync(t) ==
    LET k == <<t, "sync">>
    IN  /\ at[k] = "idle"
        /\ status[t] = "absent"
        /\ status' = [status EXCEPT ![t] = "waiting"]
        /\ Goes(k, "lock")
        /\ UNCHANGED <<list, latest, working, copy, goal, disturbed>>

\* A decision that makes, or does not make, the task start.
Confirm(t, s) ==
    LET k == <<t, "confirm">>
    IN  /\ at[k] = "idle"
        /\ status[t] # "absent"
        /\ goal' = [goal EXCEPT ![k] = s]
        /\ Goes(k, "lock")
        /\ UNCHANGED <<status, list, latest, working, copy, disturbed>>

\* The test of the status, after the first section has ended.
Settle(t, s) ==
    LET k == <<t, "settle">>
    IN  /\ at[k] = "idle"
        /\ status[t] \notin {"absent", "started", "rejected"}
        /\ goal' = [goal EXCEPT ![k] = s]
        /\ Goes(k, "lock")
        /\ UNCHANGED <<status, list, latest, working, copy, disturbed>>

Finish(t) ==
    LET k == <<t, "finish">>
    IN  /\ at[k] = "idle"
        /\ status[t] # "absent"
        /\ goal' = [goal EXCEPT ![k] = "finished"]
        /\ Goes(k, "lock")
        /\ UNCHANGED <<status, list, latest, working, copy, disturbed>>

\* Mutant: there is a mutex for every task.
MutexFreeOfTask(k) == \A j \in Calls : Task(j) = Task(k) => at[j] \notin InSection

\* task_storage_mutex; a guard is dropped with the call that holds it.
MutexFree(k) == \A j \in Calls : at[j] \notin InSection

\* The tests on the task as it is read under the lock.
Admitted(k) ==
    CASE Kind(k) = "confirm" -> status[Task(k)] = "waiting"
      [] Kind(k) = "finish" -> status[Task(k)] = "started"
      [] OTHER -> TRUE

Lock(k) ==
    /\ at[k] = "lock"
    /\ MutexFree(k)
    /\ Goes(k, IF ~Admitted(k) THEN "failed" ELSE IF Kind(k) = "sync" THEN "note" ELSE "take")
    /\ UNCHANGED <<status, list, latest, working, copy, goal, disturbed>>

-------------------------------------------------------------------------------
(* remove_task_old_status: for each list, a read and an update.            *)

\* Whether the call has changed something, and has not changed everything.
\* The handler that brings the task has stored it before it takes the lock.
HalfDone(k) ==
    \/ Kind(k) = "sync"
    \/ at[k] \in {"take", "drop"} /\ working[k] = "tasks"
    \/ at[k] \in {"store", "note", "fetch", "push"}

Fails(k) ==
    /\ Goes(k, "failed")
    /\ disturbed' = IF HalfDone(k) THEN disturbed \cup {Task(k)} ELSE disturbed
    /\ copy' = [copy EXCEPT ![k] = <<>>]
    /\ working' = [working EXCEPT ![k] = "protocols"]
    /\ goal' = [goal EXCEPT ![k] = "waiting"]
    /\ UNCHANGED <<status, list, latest>>

Old(k) == list[working[k]][status[Task(k)]]
Places(k, entries) == {i \in 1 .. Len(entries) : entries[i].task = Task(k)}

Take(k) ==
    /\ at[k] = "take"
    /\ Places(k, Old(k)) # {}
    /\ copy' = [copy EXCEPT ![k] = Old(k)]
    /\ Goes(k, "drop")
    /\ UNCHANGED <<status, list, latest, working, goal, disturbed>>

NotFound(k) ==
    /\ at[k] = "take"
    /\ Places(k, Old(k)) = {}
    /\ Fails(k)

\* Mutant: the last entry is removed, whichever task it names.
WithoutLast(k) == SubSeq(copy[k], 1, Len(copy[k]) - 1)

\* The list without its first entry of the task.
Without(k) ==
    LET i == CHOOSE n \in Places(k, copy[k]) : \A m \in Places(k, copy[k]) : n <= m
    IN  SubSeq(copy[k], 1, i - 1) \o SubSeq(copy[k], i + 1, Len(copy[k]))

Drop(k) ==
    /\ at[k] = "drop"
    /\ list' = [list EXCEPT ![working[k]][status[Task(k)]] = Without(k)]
    /\ copy' = [copy EXCEPT ![k] = <<>>]
    /\ OtherListOr(k, "take", "store")
    /\ UNCHANGED <<status, latest, goal, disturbed>>

\* tasks:{id} is updated.
Store(k) ==
    /\ at[k] = "store"
    /\ status' = [status EXCEPT ![Task(k)] = goal[k]]
    /\ Goes(k, "note")
    /\ UNCHANGED <<list, latest, working, copy, goal, disturbed>>

-------------------------------------------------------------------------------
(* add_task_new_status: for each list, ":latest", a read and an update.    *)

New(k) == list[working[k]][goal[k]]

Note(k) ==
    /\ at[k] = "note"
    /\ latest' = [latest EXCEPT ![working[k]][goal[k]] = Append(@, Task(k))]
    /\ Goes(k, "fetch")
    /\ UNCHANGED <<status, list, working, copy, goal, disturbed>>

Fetch(k) ==
    /\ at[k] = "fetch"
    /\ copy' = [copy EXCEPT ![k] = New(k)]
    /\ Goes(k, "push")
    /\ UNCHANGED <<status, list, latest, working, goal, disturbed>>

Entry(k) == [task |-> Task(k), version |-> Len(latest[working[k]][goal[k]])]

Push(k) ==
    /\ at[k] = "push"
    /\ list' = [list EXCEPT ![working[k]][goal[k]] = Append(copy[k], Entry(k))]
    /\ copy' = [copy EXCEPT ![k] = <<>>]
    /\ OtherListOr(k, "note", "done")
    /\ UNCHANGED <<status, latest, goal, disturbed>>

\* A call to the storage fails, before or after it has changed something, or
\* the request is dropped.
Fault(k) ==
    /\ Faulty
    /\ at[k] \in InSection \cup {"lock"}
    /\ Fails(k)

-------------------------------------------------------------------------------
Call(t) ==
    \/ Sync(t) \/ Finish(t)
    \/ \E s \in Confirmed : Confirm(t, s)
    \/ \E s \in Settled : Settle(t, s)

Step(k) == \/ Lock(k) \/ Take(k) \/ NotFound(k) \/ Drop(k) \/ Store(k)
           \/ Note(k) \/ Fetch(k) \/ Push(k)

Next == \/ \E t \in Tasks : Call(t)
        \/ \E k \in Calls : Step(k) \/ Fault(k)

Spec == Init /\ [][Next]_vars

-------------------------------------------------------------------------------
(* What has to hold.                                                       *)

Active(t) == \E k \in Calls : Task(k) = t /\ at[k] \in InSection

Unlisted(t) == status[t] = "absent" \/ at[<<t, "sync">>] = "lock"

InPlace(t) ==
    \A l \in Lists, s \in Statuses :
        Cardinality(Places(<<t, "sync">>, list[l][s]))
          = IF s = status[t] /\ ~Unlisted(t) THEN 1 ELSE 0

\* Calls of other tasks that change the same lists at the same time, or stop
\* half-way, leave a task in the two lists of its status, once in each; and so
\* does a call of its own that fails before its first change.
UndisturbedInPlace == \A t \in Tasks \ disturbed : ~Active(t) => InPlace(t)

\* Each entry of a list holds the key path under which ":latest" named its task,
\* and the entries are in the order of those: who has read a list and then
\* follows ":latest" from its end on misses no task, whatever has failed.
ListedAtLatest ==
    \A l \in Lists, s \in Statuses :
        LET entries == list[l][s]
            named == latest[l][s]
        IN  /\ \A i \in 1 .. Len(entries) :
                  entries[i].version <= Len(named) /\ named[entries[i].version] = entries[i].task
            /\ \A i, j \in 1 .. Len(entries) : i < j => entries[i].version < entries[j].version
===============================================================================
