------------------------ MODULE ProtocolOperatorsProofs ------------------------
(***************************************************************************)
(* Proofs about ProtocolOperators, for any users, starts and stops, with   *)
(* or without failures.                                                    *)
(***************************************************************************)
EXTENDS ProtocolOperators, TLAPS

All == {"user", "xid", "name"}

\* The file lock has one holder at most.
Exclusive ==
    \A i, j \in Instances : (start[i] \in Holding /\ start[j] \in Holding) => i = j

\* How far a start has come tells what it has done.
Progress(i) ==
    /\ start[i] = "idle" => process[i] = "none" /\ records[i] = {}
    /\ start[i] \in {"fetch", "install", "spawn"} => process[i] = "none" /\ records[i] = {}
    /\ start[i] = "install" => package
    /\ start[i] = "spawn" => package /\ installed
    /\ start[i] \in {"user", "xid", "name", "group", "ok"} => process[i] # "none"
    /\ start[i] = "user" => records[i] = {}
    /\ start[i] = "xid" => records[i] = {"user"}
    /\ start[i] = "name" => records[i] = {"user", "xid"}
    /\ start[i] \in {"group", "ok"} => records[i] = All
    /\ start[i] # "idle" => owner[i] \in Users
    /\ records[i] # {} => process[i] # "none"

\* What a start has read of the list is still true while it holds the lock.
SeenIsCurrent ==
    \A i \in Instances : start[i] \in Holding => seen[i] = group[owner[i]]

\* Only starts that have given up the lock are listed.
ListedIsDone ==
    \A u \in Users : \A i \in group[u] : start[i] \in {"ok", "failed"}

\* A stop has killed what it looked up, and ends when its start is over.
StopProgress(s) ==
    /\ stop[s] # "idle" => target[s] \in Instances
    /\ stop[s] \in {"killed", "ok"} =>
         process[target[s]] = "ended" /\ records[target[s]] # {}
    /\ stop[s] = "ok" =>
         /\ start[target[s]] \in {"ok", "failed"}
         /\ \A u \in Users : target[s] \notin group[u]

OperatorsInv ==
    /\ TypeOK
    /\ Exclusive
    /\ \A i \in Instances : Progress(i)
    /\ SeenIsCurrent
    /\ ListedIsDone
    /\ ListedIsRecorded
    /\ RunningIsListed
    /\ \A s \in Stops : StopProgress(s)

\* Every step keeps the types.
LEMMA OperatorsType == OperatorsInv /\ [Next]_vars => TypeOK'
  <1> SUFFICES ASSUME OperatorsInv, [Next]_vars PROVE TypeOK'
    OBVIOUS
  <1>0. TypeOK /\ \A i \in Instances : start[i] = "group" => owner[i] \in Users
    BY DEF OperatorsInv, Progress
  <1> USE DEF TypeOK, Holding, To, directory, lists, stopping, Replies
  <1>1. CASE UNCHANGED vars
    BY <1>0, <1>1 DEF vars
  <1>2. ASSUME NEW i \in Instances, Starting(i) \/ End(i) PROVE TypeOK'
    <2>1. CASE Fetch(i) \/ FetchFails(i) \/ Install(i) \/ Abort(i) \/ End(i)
      BY <1>0, <2>1 DEF Fetch, FetchFails, Install, Abort, End
    <2>2. CASE Spawn(i)
      BY <1>0, <2>2 DEF Spawn
    <2>3. CASE Record(i)
      BY <1>0, <2>3 DEF Record, NextRecord
    <2>4. CASE Enlist(i)
      BY <1>0, <2>4 DEF Enlist, Enlisted
    <2>5. CASE \E u \in Users, upgrade \in BOOLEAN : Begin(i, u, upgrade)
      <3>1. PICK u \in Users, upgrade \in BOOLEAN : Begin(i, u, upgrade)
        BY <2>5
      <3>2. start' \in [Instances -> Holding \cup {"idle", "ok", "failed"}]
        BY <1>0, <3>1 DEF Begin
      <3>3. package' \in BOOLEAN /\ installed' \in BOOLEAN
        BY <1>0, <3>1 DEF Begin
      <3>4. /\ owner' \in [Instances -> Users \cup {NoUser}]
            /\ seen' \in [Instances -> SUBSET Instances]
            /\ UNCHANGED <<lists, records, process, kind, stop, target>>
        BY <1>0, <3>1 DEF Begin
      <3> QED BY <1>0, <3>2, <3>3, <3>4
    <2> QED BY <1>2, <2>1, <2>2, <2>3, <2>4, <2>5 DEF Starting
  <1>3. ASSUME NEW s \in Stops, Stopping(s) PROVE TypeOK'
    BY <1>0, <1>3 DEF Stopping, Delist, GiveUp, Kill
  <1> QED BY <1>1, <1>2, <1>3 DEF Next

\* Before the first start there is no operator, no list and no stop.
LEMMA OperatorsInit == Init => OperatorsInv
  <1> SUFFICES ASSUME Init PROVE OperatorsInv
    OBVIOUS
  <1>1. TypeOK
    BY DEF Init, TypeOK, Holding
  <1>2. /\ \A i \in Instances : start[i] = "idle" /\ process[i] = "none" /\ records[i] = {}
        /\ \A u \in Users : group[u] = {}
        /\ \A s \in Stops : stop[s] = "idle"
    BY DEF Init
  <1>3. Exclusive /\ SeenIsCurrent /\ \A i \in Instances : Progress(i)
    BY <1>2 DEF Exclusive, SeenIsCurrent, Progress, Holding
  <1>4. ListedIsDone /\ ListedIsRecorded /\ RunningIsListed
    BY <1>2 DEF ListedIsDone, ListedIsRecorded, RunningIsListed
  <1>5. \A s \in Stops : StopProgress(s)
    BY <1>2 DEF StopProgress
  <1> QED BY <1>1, <1>3, <1>4, <1>5 DEF OperatorsInv

\* A start that takes the lock is the only one to hold it, and reads the list
\* that it will write back.
LEMMA BeginStep ==
    ASSUME OperatorsInv, NEW i \in Instances, NEW u \in Users, NEW upgrade \in BOOLEAN,
           Begin(i, u, upgrade)
    PROVE  OperatorsInv'
  <1>0. TypeOK /\ TypeOK'
    BY OperatorsType DEF OperatorsInv, Next, Starting
  <1>1. /\ start[i] = "idle"
        /\ \A j \in Instances : start[j] \notin Holding
        /\ UNCHANGED <<group, records, process, kind, stop, target>>
        /\ owner' = [owner EXCEPT ![i] = u]
        /\ seen' = [seen EXCEPT ![i] = group[u]]
    BY DEF Begin, LockFree, stopping, lists
  <1>2. /\ start'[i] \in {"fetch", "failed"}
        /\ \A j \in Instances : j # i => start'[j] = start[j]
    BY <1>0 DEF Begin, To, TypeOK
  <1>3. /\ owner'[i] = u /\ seen'[i] = group[u]
        /\ \A j \in Instances : j # i => owner'[j] = owner[j] /\ seen'[j] = seen[j]
    BY <1>0, <1>1 DEF TypeOK
  <1>4. \A v \in Users : i \notin group[v]
    BY <1>0, <1>1 DEF OperatorsInv, ListedIsDone, TypeOK
  <1>5. Exclusive' /\ SeenIsCurrent'
    BY <1>1, <1>2, <1>3 DEF Exclusive, SeenIsCurrent
  <1>6. \A j \in Instances : Progress(j)'
    BY <1>1, <1>2, <1>3 DEF OperatorsInv, Progress, Holding
  <1>7. ListedIsDone' /\ ListedIsRecorded'
    BY <1>0, <1>1, <1>2, <1>3, <1>4 DEF OperatorsInv, ListedIsDone, ListedIsRecorded, TypeOK
  <1>8. RunningIsListed'
    BY <1>1, <1>2, <1>3 DEF OperatorsInv, RunningIsListed
  <1>9. \A s \in Stops : StopProgress(s)'
    BY <1>1, <1>2 DEF OperatorsInv, StopProgress
  <1> QED BY <1>0, <1>5, <1>6, <1>7, <1>8, <1>9 DEF OperatorsInv

\* While a start prepares the package and runs the operator, the lists and the
\* records stay as they are.
LEMMA PrepareStep ==
    ASSUME OperatorsInv, NEW i \in Instances,
           Fetch(i) \/ FetchFails(i) \/ Install(i) \/ Spawn(i) \/ Abort(i)
    PROVE  OperatorsInv'
  <1>0. TypeOK /\ TypeOK'
    BY OperatorsType DEF OperatorsInv, Next, Starting
  <1>1. /\ start[i] \in Holding
        /\ start'[i] \in {"install", "spawn", "user", "failed"}
        /\ \A j \in Instances : j # i => start'[j] = start[j] /\ process'[j] = process[j]
        /\ UNCHANGED <<group, records, owner, seen, stop, target>>
    BY <1>0 DEF Fetch, FetchFails, Install, Spawn, Abort, To, TypeOK, Holding, stopping, lists
  <1>2. \A j \in Instances : j # i => start[j] \notin Holding
    BY <1>1 DEF OperatorsInv, Exclusive
  <1>3. /\ start'[i] = "install" => package' /\ UNCHANGED process /\ start[i] = "fetch"
        /\ start'[i] = "spawn" => /\ package' = package /\ installed'
                                 /\ UNCHANGED process /\ start[i] = "install"
        /\ start'[i] = "user" => process'[i] # "none" /\ start[i] = "spawn"
        /\ start'[i] = "failed" => UNCHANGED process
    BY <1>0 DEF Fetch, FetchFails, Install, Spawn, Abort, To, TypeOK, directory, lists
  <1>4. process[i] # "none" => process'[i] = process[i]
    BY <1>1, <1>3 DEF OperatorsInv, Progress
  <1>5. Exclusive' /\ SeenIsCurrent'
    BY <1>1, <1>2 DEF OperatorsInv, Exclusive, SeenIsCurrent, Holding
  <1>6. ASSUME NEW j \in Instances PROVE Progress(j)'
    <2>1. CASE j = i
      BY <1>1, <1>3, <1>4, <2>1 DEF OperatorsInv, Progress, Holding
    <2>2. CASE j # i
      BY <1>1, <1>2, <2>2 DEF OperatorsInv, Progress, Holding
    <2> QED BY <2>1, <2>2
  <1>7. ListedIsDone' /\ ListedIsRecorded'
    BY <1>0, <1>1 DEF OperatorsInv, ListedIsDone, ListedIsRecorded, Holding, TypeOK
  <1>8. RunningIsListed'
    BY <1>1 DEF OperatorsInv, RunningIsListed
  <1>9. \A s \in Stops : StopProgress(s)'
    BY <1>1, <1>4 DEF OperatorsInv, StopProgress, Progress, Holding
  <1> QED BY <1>0, <1>5, <1>6, <1>7, <1>8, <1>9 DEF OperatorsInv

\* The records are written one by one, by the start that holds the lock.
LEMMA RecordStep ==
    ASSUME OperatorsInv, NEW i \in Instances, Record(i)
    PROVE  OperatorsInv'
  <1>0. TypeOK /\ TypeOK'
    BY OperatorsType DEF OperatorsInv, Next, Starting
  <1>1. /\ start[i] \in {"user", "xid", "name"}
        /\ start'[i] = NextRecord(start[i])
        /\ records'[i] = records[i] \cup {start[i]}
        /\ \A j \in Instances : j # i => start'[j] = start[j] /\ records'[j] = records[j]
        /\ UNCHANGED <<package, installed, group, process, kind, owner, seen, stop, target>>
    BY <1>0 DEF Record, To, TypeOK, stopping, directory, lists
  <1>2. start'[i] \in {"xid", "name", "group"}
    BY <1>1 DEF NextRecord
  <1>3. Exclusive' /\ SeenIsCurrent'
    BY <1>1, <1>2 DEF OperatorsInv, Exclusive, SeenIsCurrent, Holding
  <1>4. ASSUME NEW j \in Instances PROVE Progress(j)'
    <2>1. CASE j = i
      BY <1>1, <1>2, <2>1 DEF OperatorsInv, Progress, NextRecord, All
    <2>2. CASE j # i
      BY <1>1, <2>2 DEF OperatorsInv, Progress
    <2> QED BY <2>1, <2>2
  <1>5. ListedIsDone' /\ ListedIsRecorded'
    BY <1>0, <1>1 DEF OperatorsInv, ListedIsDone, ListedIsRecorded, TypeOK
  <1>6. RunningIsListed'
    BY <1>1, <1>2 DEF OperatorsInv, RunningIsListed
  <1>7. \A s \in Stops : StopProgress(s)'
    BY <1>1 DEF OperatorsInv, StopProgress
  <1> QED BY <1>0, <1>3, <1>4, <1>5, <1>6, <1>7 DEF OperatorsInv

\* The list is written back as it was read, with the new instance, and
\* nobody has changed it since.
LEMMA EnlistStep ==
    ASSUME OperatorsInv, NEW i \in Instances, Enlist(i)
    PROVE  OperatorsInv'
  <1>0. TypeOK /\ TypeOK'
    BY OperatorsType DEF OperatorsInv, Next, Starting
  <1>1. /\ start[i] = "group" /\ start'[i] \in {"ok", "failed"}
        /\ \A j \in Instances : j # i => start'[j] = start[j]
        /\ UNCHANGED <<package, installed, records, process, kind, owner, seen, stop, target>>
    BY <1>0 DEF Enlist, To, TypeOK, Replies, stopping, directory, lists
  <1>2. owner[i] \in Users /\ records[i] = All
    BY <1>1 DEF OperatorsInv, Progress
  <1>3. /\ group'[owner[i]] = group[owner[i]] \cup {i}
        /\ \A u \in Users : u # owner[i] => group'[u] = group[u]
    BY <1>0, <1>1, <1>2 DEF Enlist, Enlisted, OperatorsInv, SeenIsCurrent, Holding, TypeOK
  <1>4. \A j \in Instances : j # i => start[j] \notin Holding
    BY <1>1 DEF OperatorsInv, Exclusive, Holding
  <1>5. Exclusive' /\ SeenIsCurrent'
    BY <1>1, <1>4 DEF Exclusive, SeenIsCurrent, Holding
  <1>6. \A j \in Instances : Progress(j)'
    BY <1>1, <1>2 DEF OperatorsInv, Progress, Holding
  <1>7. ListedIsDone' /\ ListedIsRecorded'
    <2> SUFFICES ASSUME NEW u \in Users, NEW j \in group'[u]
                 PROVE  /\ start'[j] \in {"ok", "failed"}
                        /\ owner'[j] = u /\ records'[j] = All
      BY DEF ListedIsDone, ListedIsRecorded, All
    <2>1. CASE j = i /\ u = owner[i]
      BY <1>1, <1>2, <2>1
    <2>2. CASE j \in group[u]
      <3>1. /\ start[j] \in {"ok", "failed"} /\ j # i /\ j \in Instances
            /\ owner[j] = u /\ records[j] = All
        BY <1>0, <1>1, <2>2 DEF OperatorsInv, ListedIsDone, ListedIsRecorded, All, TypeOK
      <3> QED BY <1>1, <3>1
    <2> QED BY <1>3, <2>1, <2>2
  <1>8. RunningIsListed'
    <2> SUFFICES ASSUME NEW j \in Instances, start'[j] = "ok", process'[j] = "running"
                 PROVE  j \in group'[owner'[j]]
      BY DEF RunningIsListed
    <2>1. CASE j = i
      BY <1>1, <1>3, <2>1
    <2>2. CASE j # i
      <3>1. j \in group[owner[j]] /\ owner[j] \in Users
        BY <1>1, <2>2 DEF OperatorsInv, RunningIsListed, Progress
      <3> QED BY <1>1, <1>3, <3>1
    <2> QED BY <2>1, <2>2
  <1>9. ASSUME NEW s \in Stops PROVE StopProgress(s)'
    BY <1>1, <1>2, <1>3 DEF OperatorsInv, StopProgress
  <1> QED BY <1>0, <1>5, <1>6, <1>7, <1>8, <1>9 DEF OperatorsInv

\* An operator that ends, or is killed, has been run; the lists do not change.
LEMMA EndStep ==
    ASSUME OperatorsInv, NEW i \in Instances, process[i] # "none", TypeOK',
           \A j \in Instances : process'[j] = IF j = i THEN "ended" ELSE process[j],
           UNCHANGED <<package, installed, group, records, start, owner, seen>>,
           \A s \in Stops : \/ stop'[s] = stop[s] /\ target'[s] = target[s]
                            \/ stop'[s] = "killed" /\ target'[s] = i /\ records[i] # {}
    PROVE  OperatorsInv'
  <1>1. Exclusive' /\ SeenIsCurrent' /\ ListedIsDone' /\ ListedIsRecorded'
    BY DEF OperatorsInv, Exclusive, SeenIsCurrent, ListedIsDone, ListedIsRecorded
  <1>2. \A j \in Instances : Progress(j)'
    BY DEF OperatorsInv, Progress
  <1>3. RunningIsListed'
    BY DEF OperatorsInv, RunningIsListed
  <1>4. \A s \in Stops : StopProgress(s)'
    BY DEF OperatorsInv, StopProgress
  <1> QED BY <1>1, <1>2, <1>3, <1>4 DEF OperatorsInv

\* A stop that fails does so without a trace.
LEMMA RefusedStep ==
    ASSUME OperatorsInv, NEW s \in Stops, TypeOK',
           UNCHANGED <<package, installed, group, records, process, start, owner, seen>>,
           stop'[s] = "failed" /\ target'[s] \in Instances,
           \A r \in Stops : r # s => stop'[r] = stop[r] /\ target'[r] = target[r]
    PROVE  OperatorsInv'
  <1>1. Exclusive' /\ SeenIsCurrent' /\ ListedIsDone' /\ ListedIsRecorded'
    BY DEF OperatorsInv, Exclusive, SeenIsCurrent, ListedIsDone, ListedIsRecorded
  <1>2. \A j \in Instances : Progress(j)'
    BY DEF OperatorsInv, Progress
  <1>3. RunningIsListed'
    BY DEF OperatorsInv, RunningIsListed
  <1>4. \A r \in Stops : StopProgress(r)'
    BY DEF OperatorsInv, StopProgress
  <1> QED BY <1>1, <1>2, <1>3, <1>4 DEF OperatorsInv

\* The kill of a stop, whether the operator is found or not.
LEMMA KillStep ==
    ASSUME OperatorsInv, NEW s \in Stops, NEW i \in Instances, Kill(s, i)
    PROVE  OperatorsInv'
  <1>0. TypeOK /\ TypeOK'
    BY OperatorsType DEF OperatorsInv, Next, Stopping
  <1>1. /\ records[i] # {}
        /\ target'[s] = i
        /\ \A r \in Stops : r # s => stop'[r] = stop[r] /\ target'[r] = target[r]
        /\ UNCHANGED <<package, installed, group, records, start, owner, seen>>
    BY <1>0 DEF Kill, TypeOK, directory, lists
  <1>2. process[i] # "none"
    BY <1>1 DEF OperatorsInv, Progress
  <1>3. CASE Killable(i)
    <2>1. /\ \A j \in Instances : process'[j] = IF j = i THEN "ended" ELSE process[j]
          /\ stop'[s] = "killed"
      BY <1>0, <1>3 DEF Kill, TypeOK
    <2> QED BY <1>0, <1>1, <1>2, <2>1, EndStep
  <1>4. CASE ~Killable(i)
    <2>1. UNCHANGED process /\ stop'[s] = "failed"
      BY <1>0, <1>4 DEF Kill, TypeOK
    <2> QED BY <1>0, <1>1, <2>1, RefusedStep
  <1> QED BY <1>3, <1>4

\* A stop delists its instance while no start holds the lock, and no start
\* will list it again.
LEMMA DelistStep ==
    ASSUME OperatorsInv, NEW s \in Stops, Delist(s)
    PROVE  OperatorsInv'
  <1> DEFINE i == target[s]
  <1>0. TypeOK /\ TypeOK'
    BY OperatorsType DEF OperatorsInv, Next, Stopping
  <1>1. /\ stop[s] = "killed" /\ stop'[s] \in {"ok", "failed"}
        /\ records[i] # {}
        /\ \A j \in Instances : start[j] \notin Holding
        /\ \A r \in Stops : r # s => stop'[r] = stop[r]
        /\ UNCHANGED <<package, installed, records, process, kind, start, owner, seen, target>>
    BY <1>0 DEF Delist, LockFree, TypeOK, Replies, directory, lists
  <1>2. i \in Instances /\ process[i] = "ended"
    BY <1>1 DEF OperatorsInv, StopProgress
  <1>3. start[i] \in {"ok", "failed"} /\ owner[i] \in Users
    BY <1>0, <1>1, <1>2 DEF OperatorsInv, Progress, TypeOK
  <1>4. /\ group'[owner[i]] = group[owner[i]] \ {i}
        /\ \A u \in Users : u # owner[i] => group'[u] = group[u]
    BY <1>0, <1>3 DEF Delist, TypeOK
  <1>5. \A u \in Users : group'[u] \subseteq group[u] /\ i \notin group'[u]
    BY <1>2, <1>4 DEF OperatorsInv, ListedIsRecorded
  <1>6. \A u \in Users : \A j \in group[u] : j # i => j \in group'[u]
    BY <1>4
  <1>7. Exclusive' /\ SeenIsCurrent' /\ ListedIsDone' /\ ListedIsRecorded'
    BY <1>1, <1>5 DEF OperatorsInv, Exclusive, SeenIsCurrent, ListedIsDone, ListedIsRecorded
  <1>8. \A j \in Instances : Progress(j)'
    BY <1>1 DEF OperatorsInv, Progress
  <1>9. RunningIsListed'
    BY <1>1, <1>2, <1>6 DEF OperatorsInv, RunningIsListed, Progress
  <1>10. ASSUME NEW r \in Stops PROVE StopProgress(r)'
    <2>1. CASE r = s
      BY <1>1, <1>2, <1>3, <1>5, <2>1 DEF StopProgress
    <2>2. CASE r # s
      BY <1>1, <1>5, <2>2 DEF OperatorsInv, StopProgress
    <2> QED BY <2>1, <2>2
  <1> QED BY <1>0, <1>7, <1>8, <1>9, <1>10 DEF OperatorsInv

\* Every step keeps the invariant.
LEMMA OperatorsStep == OperatorsInv /\ [Next]_vars => OperatorsInv'
  <1> SUFFICES ASSUME OperatorsInv, [Next]_vars PROVE OperatorsInv'
    OBVIOUS
  <1>0. TypeOK /\ TypeOK'
    BY OperatorsType DEF OperatorsInv
  <1>1. ASSUME NEW i \in Instances, Starting(i) PROVE OperatorsInv'
    BY <1>1, BeginStep, PrepareStep, RecordStep, EnlistStep DEF Starting
  <1>2. ASSUME NEW i \in Instances, End(i) PROVE OperatorsInv'
    BY <1>0, <1>2, EndStep DEF End, TypeOK, directory, lists, stopping
  <1>3. ASSUME NEW s \in Stops, Stopping(s) PROVE OperatorsInv'
    <2>1. CASE GiveUp(s)
      <3>1. target[s] \in Instances
        BY <2>1 DEF GiveUp, OperatorsInv, StopProgress
      <3> QED BY <1>0, <2>1, <3>1, RefusedStep DEF GiveUp, TypeOK, directory, lists
    <2> QED BY <1>3, <2>1, DelistStep, KillStep DEF Stopping
  <1>4. CASE UNCHANGED vars
    BY <1>4 DEF vars, OperatorsInv, TypeOK, Exclusive, Progress, SeenIsCurrent, ListedIsDone,
                ListedIsRecorded, RunningIsListed, StopProgress
  <1> QED BY <1>1, <1>2, <1>3, <1>4 DEF Next

\* The invariant of the file lock, the records, the lists and the processes.
THEOREM OperatorsInvariant == Spec => []OperatorsInv
  BY OperatorsInit, OperatorsStep, PTL DEF Spec

\* The type of the records and of the processes, for any starts and stops.
THEOREM OperatorsTypeCorrect == Spec => []TypeOK
  <1>1. OperatorsInv => TypeOK
    BY DEF OperatorsInv
  <1> QED BY <1>1, OperatorsInvariant, PTL

\* The entry of an instance in a list always leads to complete records.
THEOREM RecordedCorrect == Spec => []ListedIsRecorded
  <1>1. OperatorsInv => ListedIsRecorded
    BY DEF OperatorsInv
  <1> QED BY <1>1, OperatorsInvariant, PTL

\* Concurrent starts and stops do not lose each other's entries.
THEOREM ListedCorrect == Spec => []RunningIsListed
  <1>1. OperatorsInv => RunningIsListed
    BY DEF OperatorsInv
  <1> QED BY <1>1, OperatorsInvariant, PTL

\* What was stopped stays stopped and unlisted, even if the stop came early.
THEOREM StoppedCorrect == Spec => []StoppedIsGone
  <1>1. OperatorsInv => StoppedIsGone
    BY DEF OperatorsInv, StopProgress, StoppedIsGone
  <1> QED BY <1>1, OperatorsInvariant, PTL

\* The lock keeps upgrades away between the installation and the run.
THEOREM InstalledCorrect == Spec => RunsInstalled
  <1> DEFINE Runs == \A i \in Instances :
                        (process[i] = "none" /\ process'[i] # "none") => package /\ installed
  <1>1. OperatorsInv /\ [Next]_vars => [Runs]_vars
    <2> SUFFICES ASSUME OperatorsInv, [Next]_vars,
                        NEW i \in Instances, process[i] = "none", process'[i] # "none"
                 PROVE  package /\ installed
      OBVIOUS
    <2>0. TypeOK
      BY DEF OperatorsInv
    <2>1. PICK j \in Instances : Spawn(j) \/ End(j) \/ \E s \in Stops : Kill(s, j)
      BY DEF Next, Starting, Stopping, Begin, Fetch, FetchFails, Install, Record, Enlist,
             Abort, Delist, GiveUp, vars
    <2>2. CASE Spawn(j)
      BY <2>2 DEF Spawn, OperatorsInv, Progress
    <2>3. CASE End(j)
      BY <2>0, <2>3 DEF End, TypeOK
    <2>4. CASE \E s \in Stops : Kill(s, j)
      <3>1. process[j] # "none"
        BY <2>4 DEF Kill, OperatorsInv, Progress
      <3> QED BY <2>0, <2>4, <3>1 DEF Kill, TypeOK
    <2> QED BY <2>1, <2>2, <2>3, <2>4
  <1> QED BY <1>1, OperatorsInvariant, PTL DEF Spec, RunsInstalled
===============================================================================
