--------------------------- MODULE TaskStorageProofs ---------------------------
(***************************************************************************)
(* Proofs about TaskStorage, for any number of tasks, with and without     *)
(* failing calls and dropped requests.                                     *)
(***************************************************************************)
EXTENDS TaskStorage, FiniteSetTheorems, SequenceTheorems, TLAPS

Adding == {"note", "fetch", "push"}

(* The two changes of a list.                                              *)

\* A non-empty set of naturals has a least one.
LEMMA LeastOne ==
    ASSUME NEW S, S \subseteq Nat, S # {}
    PROVE  \E n \in S : \A m \in S : n <= m
  <1>1. \E n \in S : \A m \in S : ~(<<m, n>> \in OpToRel(<, Nat))
    BY NatLessThanWellFounded, WFMin
  <1>2. PICK n \in S : \A m \in S : ~(<<m, n>> \in OpToRel(<, Nat))
    BY <1>1
  <1>3. \A m \in S : ~(m < n)
    BY <1>2 DEF OpToRel
  <1> QED BY <1>3

\* remove_task_old_status takes out one entry of the task, and keeps the others
\* in their order.
LEMMA WithoutOne ==
    ASSUME TypeOK, NEW k \in Calls, Places(k, copy[k]) # {}
    PROVE  \E i \in 1 .. Len(copy[k]) :
             /\ copy[k][i].task = Task(k)
             /\ Without(k) \in Seq(Entries)
             /\ Len(Without(k)) = Len(copy[k]) - 1
             /\ \A j \in 1 .. Len(copy[k]) - 1 :
                  Without(k)[j] = copy[k][IF j < i THEN j ELSE j + 1]
  <1> DEFINE q == copy[k]
             S == Places(k, q)
             i == CHOOSE n \in S : \A m \in S : n <= m
  <1>1. q \in Seq(Entries)
    BY DEF TypeOK
  <1>2. S \subseteq Nat /\ S \subseteq 1 .. Len(q)
    BY <1>1 DEF Places
  <1>3. i \in S
    BY <1>2, LeastOne
  <1>4. i \in 1 .. Len(q) /\ q[i].task = Task(k)
    BY <1>3 DEF Places
  <1>5. Without(k) = SubSeq(q, 1, i - 1) \o SubSeq(q, i + 1, Len(q))
    BY DEF Without
  <1> HIDE DEF i, S
  <1>6. /\ SubSeq(q, 1, i - 1) \in Seq(Entries) /\ Len(SubSeq(q, 1, i - 1)) = i - 1
        /\ \A j \in 1 .. i - 1 : SubSeq(q, 1, i - 1)[j] = q[j]
    BY <1>1, <1>4, SubSeqProperties
  <1>7. /\ SubSeq(q, i + 1, Len(q)) \in Seq(Entries)
        /\ Len(SubSeq(q, i + 1, Len(q))) = Len(q) - i
        /\ \A j \in 1 .. Len(q) - i : SubSeq(q, i + 1, Len(q))[j] = q[i + j]
    BY <1>1, <1>4, SubSeqProperties
  <1> DEFINE a == SubSeq(q, 1, i - 1)
             b == SubSeq(q, i + 1, Len(q))
  <1> HIDE DEF a, b, q
  <1>8. /\ Without(k) \in Seq(Entries) /\ Len(Without(k)) = (i - 1) + (Len(q) - i)
        /\ \A j \in 1 .. (i - 1) + (Len(q) - i) :
             Without(k)[j] = IF j <= i - 1 THEN a[j] ELSE b[j - (i - 1)]
    BY <1>5, <1>6, <1>7, ConcatProperties DEF a, b
  <1>9. Len(q) \in Nat
    BY <1>1
  <1>10. Len(Without(k)) = Len(q) - 1
    BY <1>4, <1>8, <1>9
  <1>11. ASSUME NEW j \in 1 .. Len(q) - 1 PROVE Without(k)[j] = q[IF j < i THEN j ELSE j + 1]
    <2>1. CASE j < i
      BY <1>4, <1>6, <1>8, <1>9, <2>1 DEF a
    <2>2. CASE ~(j < i)
      <3>1. j - (i - 1) \in 1 .. Len(q) - i /\ i + (j - (i - 1)) = j + 1
        BY <1>4, <1>9, <2>2
      <3>2. Without(k)[j] = b[j - (i - 1)]
        BY <1>4, <1>8, <1>9, <2>2
      <3> QED BY <1>7, <2>2, <3>1, <3>2 DEF b
    <2> QED BY <2>1, <2>2
  <1> QED BY <1>4, <1>8, <1>10, <1>11 DEF q

-------------------------------------------------------------------------------
(* Types.                                                                  *)

\* A call is named by its task and its kind.
LEMMA CallShape ==
    /\ \A k \in Calls : Task(k) \in Tasks /\ Kind(k) \in Kinds /\ k = <<Task(k), Kind(k)>>
    /\ \A t \in Tasks, x \in Kinds : /\ <<t, x>> \in Calls
                                     /\ Task(<<t, x>>) = t /\ Kind(<<t, x>>) = x
    BY DEF Calls, Task, Kind

\* What the handlers give to a task is one of the statuses.
LEMMA ValueTypes ==
    /\ Confirmed \subseteq Statuses /\ Settled \subseteq Statuses
    /\ {"waiting", "finished"} \subseteq Statuses /\ "absent" \notin Statuses
    /\ Lists = {"protocols", "tasks"}
    BY GoalsAssumption DEF Statuses, Lists

\* An update of one of the lists changes no other.
LEMMA ListSet ==
    ASSUME TypeOK, NEW l \in Lists, NEW s \in Statuses, NEW q \in Seq(Entries),
           list' = [list EXCEPT ![l][s] = q]
    PROVE  /\ list' \in [Lists -> [Statuses -> Seq(Entries)]]
           /\ list'[l][s] = q
           /\ \A m \in Lists, r \in Statuses : m # l \/ r # s => list'[m][r] = list[m][r]
    BY DEF TypeOK

\* The same for a task written to a ":latest" key.
LEMMA LatestSet ==
    ASSUME TypeOK, NEW l \in Lists, NEW s \in Statuses, NEW t \in Tasks,
           latest' = [latest EXCEPT ![l][s] = Append(@, t)]
    PROVE  /\ latest' \in [Lists -> [Statuses -> Seq(Tasks)]]
           /\ latest'[l][s] = Append(latest[l][s], t)
           /\ \A m \in Lists, r \in Statuses : m # l \/ r # s => latest'[m][r] = latest[m][r]
    BY DEF TypeOK

\* A call that has begun is about a task that the core knows.
Known == \A k \in Calls : at[k] # "idle" => status[Task(k)] # "absent"

\* A call takes an entry out of a list that has one.
Found == \A k \in Calls : at[k] = "drop" => Places(k, copy[k]) # {}

Typed == TypeOK /\ Known /\ Found

\* An empty core has the types.
LEMMA TypedInit == Init => Typed
  <1> SUFFICES ASSUME Init PROVE Typed
    OBVIOUS
  <1>1. <<>> \in Seq(Entries) /\ <<>> \in Seq(Tasks)
    BY EmptySeq
  <1>2. TypeOK
    BY <1>1 DEF Init, TypeOK, Statuses, Lists
  <1> QED BY <1>2 DEF Typed, Known, Found, Init

\* A call works on a list of a status.
LEMMA CallTypes ==
    ASSUME Typed, NEW k \in Calls, at[k] # "idle"
    PROVE  /\ Task(k) \in Tasks /\ status[Task(k)] \in Statuses
           /\ working[k] \in Lists /\ goal[k] \in Statuses
           /\ Old(k) \in Seq(Entries) /\ New(k) \in Seq(Entries)
           /\ latest[working[k]][goal[k]] \in Seq(Tasks)
  BY CallShape DEF Typed, Known, TypeOK, Old, New

\* A call goes to a place, and the others stay at theirs.
LEMMA GoesType ==
    ASSUME TypeOK, NEW k \in Calls, NEW place \in {"idle", "lock", "done", "failed"} \cup InSection,
           Goes(k, place)
    PROVE  /\ at' \in [Calls -> {"idle", "lock", "done", "failed"} \cup InSection]
           /\ at'[k] = place /\ \A j \in Calls : j # k => at'[j] = at[j]
  BY DEF TypeOK, Goes

\* After the first list comes the second, after the second the next step.
LEMMA OtherListType ==
    ASSUME TypeOK, NEW k \in Calls,
           NEW again \in {"idle", "lock", "done", "failed"} \cup InSection,
           NEW next \in {"idle", "lock", "done", "failed"} \cup InSection,
           OtherListOr(k, again, next)
    PROVE  /\ at' \in [Calls -> {"idle", "lock", "done", "failed"} \cup InSection]
           /\ working' \in [Calls -> Lists]
           /\ \A j \in Calls : j # k => at'[j] = at[j] /\ working'[j] = working[j]
           /\ \/ working[k] = "protocols" /\ at'[k] = again /\ working'[k] = "tasks"
              \/ working[k] = "tasks" /\ at'[k] = next /\ working'[k] = "protocols"
  <1>1. CASE working[k] = "protocols"
    <2>1. Goes(k, again) /\ working' = [working EXCEPT ![k] = "tasks"]
      BY <1>1 DEF OtherListOr
    <2>2. "tasks" \in Lists
      BY DEF Lists
    <2> QED BY <1>1, <2>1, <2>2, GoesType DEF TypeOK
  <1>2. CASE working[k] = "tasks"
    <2>1. Goes(k, next) /\ working' = [working EXCEPT ![k] = "protocols"]
      BY <1>2 DEF OtherListOr
    <2>2. "protocols" \in Lists
      BY DEF Lists
    <2> QED BY <1>2, <2>1, <2>2, GoesType DEF TypeOK
  <1> QED BY <1>1, <1>2 DEF TypeOK, Lists

\* What a call does that ends early.
LEMMA FailsType ==
    ASSUME TypeOK, NEW k \in Calls, Fails(k)
    PROVE  /\ TypeOK' /\ UNCHANGED <<status, list, latest>>
           /\ at'[k] = "failed" /\ working'[k] = "protocols" /\ goal'[k] = "waiting"
           /\ \A j \in Calls : j # k => /\ at'[j] = at[j] /\ working'[j] = working[j]
                                        /\ goal'[j] = goal[j] /\ copy'[j] = copy[j]
           /\ disturbed \subseteq disturbed'
           /\ HalfDone(k) => Task(k) \in disturbed'
  <1>1. /\ Goes(k, "failed") /\ UNCHANGED <<status, list, latest>>
        /\ copy' = [copy EXCEPT ![k] = <<>>]
        /\ working' = [working EXCEPT ![k] = "protocols"]
        /\ goal' = [goal EXCEPT ![k] = "waiting"]
        /\ disturbed' = IF HalfDone(k) THEN disturbed \cup {Task(k)} ELSE disturbed
    BY DEF Fails
  <1>2. <<>> \in Seq(Entries) /\ "protocols" \in Lists /\ "waiting" \in Statuses
    BY EmptySeq DEF Lists, Statuses
  <1> QED BY <1>1, <1>2, CallShape, GoesType DEF TypeOK

\* A call that goes on, or none, keeps what the others have found.
LEMMA FoundKept ==
    ASSUME TypeOK, Found, NEW k \in Calls,
           \A j \in Calls : j # k => at'[j] = at[j] /\ copy'[j] = copy[j],
           at'[k] # "drop"
    PROVE  Found'
  BY DEF Found, Places, Task

\* The same of a call that reads no list.
LEMMA FoundGoes ==
    ASSUME TypeOK, Found, NEW k \in Calls,
           NEW place \in {"lock", "take", "store", "note", "fetch", "push", "done", "failed"},
           Goes(k, place), copy' = copy
    PROVE  Found'
  BY GoesType, FoundKept DEF InSection

\* Every step keeps the types, and begins or goes on with a call only when the
\* core has its task.
LEMMA TypedStep == Typed /\ [Next]_vars => Typed'
  <1> SUFFICES ASSUME Typed, [Next]_vars PROVE Typed'
    OBVIOUS
  <1> USE CallShape, ValueTypes
  <1>0. TypeOK /\ Known /\ Found
    BY DEF Typed
  <1>1. ASSUME NEW t \in Tasks, Sync(t) PROVE Typed'
    <2>1. <<t, "sync">> \in Calls /\ Task(<<t, "sync">>) = t
      BY DEF Kinds
    <2>2. /\ Goes(<<t, "sync">>, "lock") /\ status' = [status EXCEPT ![t] = "waiting"]
          /\ UNCHANGED <<list, latest, working, copy, goal, disturbed>>
      BY <1>1 DEF Sync
    <2>3. TypeOK' /\ Found'
      <3>1. TypeOK'
        BY <1>0, <2>1, <2>2, GoesType DEF TypeOK
      <3> QED BY <1>0, <2>1, <2>2, <3>1, FoundGoes
    <2>4. \A u \in Tasks : status[u] # "absent" => status'[u] # "absent"
      BY <1>0, <2>2 DEF TypeOK
    <2> QED BY <1>0, <2>1, <2>2, <2>3, <2>4, GoesType DEF Typed, Known, TypeOK
  <1>2. ASSUME NEW k \in Calls, NEW s \in Statuses, at[k] = "idle", status[Task(k)] # "absent",
               goal' = [goal EXCEPT ![k] = s], Goes(k, "lock"),
               UNCHANGED <<status, list, latest, working, copy, disturbed>>
        PROVE  Typed'
    <2>1. Found'
      BY <1>0, <1>2, FoundGoes
    <2>2. TypeOK'
      BY <1>0, <1>2, GoesType DEF TypeOK
    <2> QED BY <1>0, <1>2, <2>1, <2>2, GoesType DEF Typed, Known
  <1>3. ASSUME NEW k \in Calls, Lock(k) PROVE Typed'
    <2>1. PICK place \in {"failed", "note", "take"} : Goes(k, place)
      BY <1>3 DEF Lock
    <2>2. at[k] # "idle" /\ UNCHANGED <<status, list, latest, working, copy, goal, disturbed>>
      BY <1>3 DEF Lock
    <2> QED BY <1>0, <2>1, <2>2, GoesType, FoundKept DEF Typed, TypeOK, Known, InSection
  <1>4. ASSUME NEW k \in Calls, NotFound(k) \/ Fault(k) PROVE Typed'
    <2>1. at[k] # "idle" /\ Fails(k)
      BY <1>4 DEF NotFound, Fault, InSection
    <2>2. /\ TypeOK' /\ status' = status /\ at'[k] = "failed"
          /\ \A j \in Calls : j # k => at'[j] = at[j] /\ copy'[j] = copy[j]
      BY <1>0, <2>1, FailsType
    <2> QED BY <1>0, <2>1, <2>2, FoundKept DEF Typed, Known
  <1>5. ASSUME NEW k \in Calls, Take(k) PROVE Typed'
    <2>1. /\ at[k] # "idle" /\ copy' = [copy EXCEPT ![k] = Old(k)] /\ Goes(k, "drop")
          /\ Places(k, Old(k)) # {}
          /\ UNCHANGED <<status, list, latest, working, goal, disturbed>>
      BY <1>5 DEF Take
    <2>2. copy' \in [Calls -> Seq(Entries)]
      BY <1>0, <2>1, CallTypes DEF TypeOK, Typed
    <2>3. Found'
      <3>1. copy'[k] = Old(k) /\ \A j \in Calls : j # k => copy'[j] = copy[j] /\ at'[j] = at[j]
        BY <1>0, <2>1, GoesType DEF TypeOK, InSection
      <3>2. ASSUME NEW j \in Calls, at'[j] = "drop" PROVE Places(j, copy[j])' # {}
        BY <1>0, <2>1, <3>1, <3>2 DEF Found, Places, Task
      <3> QED BY <3>2 DEF Found
    <2> QED BY <1>0, <2>1, <2>2, <2>3, GoesType DEF Typed, TypeOK, Known, InSection
  <1>6. ASSUME NEW k \in Calls, Fetch(k) PROVE Typed'
    <2>1. /\ at[k] # "idle" /\ copy' = [copy EXCEPT ![k] = New(k)] /\ Goes(k, "push")
          /\ UNCHANGED <<status, list, latest, working, goal, disturbed>>
      BY <1>6 DEF Fetch
    <2>2. copy' \in [Calls -> Seq(Entries)]
      BY <1>0, <2>1, CallTypes DEF TypeOK, Typed
    <2>3. at'[k] = "push" /\ \A j \in Calls : j # k => at'[j] = at[j] /\ copy'[j] = copy[j]
      BY <1>0, <2>1, GoesType DEF TypeOK, InSection
    <2>4. Found'
      BY <1>0, <2>3, FoundKept
    <2>5. TypeOK'
      BY <1>0, <2>1, <2>2, GoesType DEF TypeOK, InSection
    <2> QED BY <1>0, <2>1, <2>3, <2>4, <2>5 DEF Typed, Known
  <1>7. ASSUME NEW k \in Calls, Drop(k) \/ Push(k) PROVE Typed'
    <2>1. /\ at[k] # "idle" /\ copy' = [copy EXCEPT ![k] = <<>>]
          /\ OtherListOr(k, "take", "store") \/ OtherListOr(k, "note", "done")
          /\ UNCHANGED <<status, latest, goal, disturbed>>
      BY <1>7 DEF Drop, Push
    <2>2. PICK l \in Lists, s \in Statuses, q \in Seq(Entries) : list' = [list EXCEPT ![l][s] = q]
      <3>1. CASE Drop(k)
        <4>1. at[k] = "drop" /\ list' = [list EXCEPT ![working[k]][status[Task(k)]] = Without(k)]
          BY <3>1 DEF Drop
        <4>2. Without(k) \in Seq(Entries)
          BY <1>0, <4>1, WithoutOne DEF Found
        <4> QED BY <2>1, <4>1, <4>2, CallTypes
      <3>2. CASE Push(k)
        <4>1. list' = [list EXCEPT ![working[k]][goal[k]] = Append(copy[k], Entry(k))]
          BY <3>2 DEF Push
        <4>2. latest[working[k]][goal[k]] \in Seq(Tasks) /\ copy[k] \in Seq(Entries)
          BY <1>0, <2>1, CallTypes DEF TypeOK
        <4>3. Entry(k) \in Entries
          BY <4>2, LenProperties DEF Entry, Entries
        <4>4. Append(copy[k], Entry(k)) \in Seq(Entries)
          BY <4>2, <4>3, AppendProperties
        <4> QED BY <2>1, <4>1, <4>4, CallTypes
      <3> QED BY <1>7, <3>1, <3>2
    <2>3. list' \in [Lists -> [Statuses -> Seq(Entries)]]
      BY <1>0, <2>2, ListSet
    <2>4. /\ at' \in [Calls -> {"idle", "lock", "done", "failed"} \cup InSection]
          /\ working' \in [Calls -> Lists]
          /\ at'[k] # "drop"
          /\ \A j \in Calls : j # k => at'[j] = at[j]
      BY <1>0, <2>1, OtherListType DEF InSection
    <2>5. copy' \in [Calls -> Seq(Entries)] /\ \A j \in Calls : j # k => copy'[j] = copy[j]
      BY <1>0, <2>1, EmptySeq DEF TypeOK
    <2>6. TypeOK' /\ Found'
      BY <1>0, <2>1, <2>3, <2>4, <2>5, FoundKept DEF TypeOK
    <2> QED BY <1>0, <2>1, <2>4, <2>6 DEF Typed, Known
  <1>8. ASSUME NEW k \in Calls, Store(k) PROVE Typed'
    <2>1. /\ at[k] # "idle" /\ status' = [status EXCEPT ![Task(k)] = goal[k]] /\ Goes(k, "note")
          /\ UNCHANGED <<list, latest, working, copy, goal, disturbed>>
      BY <1>8 DEF Store
    <2>2. goal[k] \in Statuses
      BY <2>1, CallTypes
    <2>3. TypeOK' /\ Found'
      <3>1. TypeOK'
        BY <1>0, <2>1, <2>2, GoesType DEF TypeOK, InSection
      <3> QED BY <1>0, <2>1, <3>1, FoundGoes
    <2>4. \A t \in Tasks : status[t] # "absent" => status'[t] # "absent"
      BY <1>0, <2>1, <2>2 DEF TypeOK
    <2> QED BY <1>0, <2>1, <2>3, <2>4, GoesType DEF Typed, Known, InSection
  <1>9. ASSUME NEW k \in Calls, Note(k) PROVE Typed'
    <2>1. /\ at[k] # "idle" /\ Goes(k, "fetch")
          /\ latest' = [latest EXCEPT ![working[k]][goal[k]] = Append(@, Task(k))]
          /\ UNCHANGED <<status, list, working, copy, goal, disturbed>>
      BY <1>9 DEF Note
    <2>2. latest' \in [Lists -> [Statuses -> Seq(Tasks)]]
      BY <1>0, <2>1, CallTypes, LatestSet
    <2>3. TypeOK' /\ Found'
      <3>1. TypeOK'
        BY <1>0, <2>1, <2>2, GoesType DEF TypeOK, InSection
      <3> QED BY <1>0, <2>1, <3>1, FoundGoes
    <2> QED BY <1>0, <2>1, <2>3, GoesType DEF Typed, Known, InSection
  <1>10. CASE UNCHANGED vars
    BY <1>0, <1>10 DEF vars, Typed, TypeOK, Known, Found, Places
  <1>11. ASSUME NEW t \in Tasks, Call(t) PROVE Typed'
    <2>1. CASE Sync(t)
      BY <1>1, <2>1
    <2>2. CASE Finish(t)
      BY <1>2, <2>2 DEF Finish, Kinds
    <2>3. ASSUME NEW s \in Confirmed, Confirm(t, s) PROVE Typed'
      BY <1>2, <2>3 DEF Confirm, Kinds
    <2>4. ASSUME NEW s \in Settled, Settle(t, s) PROVE Typed'
      BY <1>2, <2>4 DEF Settle, Kinds
    <2> QED BY <1>11, <2>1, <2>2, <2>3, <2>4 DEF Call
  <1> QED BY <1>3, <1>4, <1>5, <1>6, <1>7, <1>8, <1>9, <1>10, <1>11 DEF Next, Step

\* The keys of the storage hold what the code reads from them, whatever fails:
\* a list of entries, a task of one of the statuses.
THEOREM TypeCorrect == Spec => []TypeOK
  <1>1. Typed => TypeOK
    BY DEF Typed
  <1> QED BY <1>1, TypedInit, TypedStep, PTL DEF Spec

-------------------------------------------------------------------------------
(***************************************************************************)
(* Under the mutex.  A call in the section is the only one that changes    *)
(* the lists, so that what it has read of them is still what is stored     *)
(* when it writes.                                                         *)
(***************************************************************************)

Mutex == \A j, k \in Calls : at[j] \in InSection /\ at[k] \in InSection => j = k

\* The entries of a list follow what was written to ":latest".
InOrder(entries, named) ==
    /\ \A i \in 1 .. Len(entries) :
          /\ entries[i].version \in 1 .. Len(named)
          /\ named[entries[i].version] = entries[i].task
    /\ \A i, j \in 1 .. Len(entries) : i < j => entries[i].version < entries[j].version

\* ":latest" was written last for this call, and the list does not show it yet.
Named(k) ==
    LET named == latest[working[k]][goal[k]]
    IN  /\ named # <<>>
        /\ named[Len(named)] = Task(k)
        /\ \A i \in 1 .. Len(New(k)) : New(k)[i].version < Len(named)

CallInv(k) ==
    /\ at[k] \notin InSection => working[k] = "protocols"
    /\ Kind(k) = "sync" => goal[k] = "waiting" /\ at[k] \notin {"take", "drop", "store"}
    /\ at[k] = "store" => working[k] = "protocols"
    /\ at[k] = "drop" => copy[k] = Old(k)
    /\ at[k] = "push" => copy[k] = New(k)
    /\ at[k] \in {"fetch", "push"} => Named(k)

SectionInv ==
    /\ Typed /\ Mutex
    /\ \A k \in Calls : CallInv(k)
    /\ \A l \in Lists, s \in Statuses : InOrder(list[l][s], latest[l][s])

\* The task of an entry that is taken out leaves the others in order.
LEMMA InOrderWithout ==
    ASSUME NEW q \in Seq(Entries), NEW named \in Seq(Tasks), InOrder(q, named),
           NEW i \in 1 .. Len(q), NEW rest \in Seq(Entries), Len(rest) = Len(q) - 1,
           \A j \in 1 .. Len(q) - 1 : rest[j] = q[IF j < i THEN j ELSE j + 1]
    PROVE  InOrder(rest, named)
  <1>0. Len(q) \in Nat
    OBVIOUS
  <1>1. \A j \in 1 .. Len(rest) : (IF j < i THEN j ELSE j + 1) \in 1 .. Len(q)
    BY <1>0
  <1>2. \A j \in 1 .. Len(rest) : /\ rest[j].version \in 1 .. Len(named)
                                  /\ named[rest[j].version] = rest[j].task
    BY <1>1 DEF InOrder
  <1>3. ASSUME NEW j \in 1 .. Len(rest), NEW m \in 1 .. Len(rest), j < m
        PROVE  rest[j].version < rest[m].version
    <2>1. (IF j < i THEN j ELSE j + 1) < (IF m < i THEN m ELSE m + 1)
      BY <1>0, <1>3
    <2> QED BY <1>1, <2>1 DEF InOrder
  <1> QED BY <1>2, <1>3 DEF InOrder

\* Another write to ":latest" names no entry of the list.
LEMMA InOrderNamed ==
    ASSUME NEW q \in Seq(Entries), NEW named \in Seq(Tasks), InOrder(q, named), NEW t \in Tasks
    PROVE  /\ InOrder(q, Append(named, t))
           /\ Append(named, t) # <<>> /\ Append(named, t)[Len(Append(named, t))] = t
           /\ \A i \in 1 .. Len(q) : q[i].version < Len(Append(named, t))
  <1>1. /\ Len(named) \in Nat /\ Len(q) \in Nat
        /\ Len(Append(named, t)) = Len(named) + 1
        /\ \A i \in 1 .. Len(named) : Append(named, t)[i] = named[i]
        /\ Append(named, t)[Len(named) + 1] = t /\ Append(named, t) # <<>>
    BY AppendProperties, LenProperties
  <1>2. \A i \in 1 .. Len(q) : /\ q[i].version \in 1 .. Len(named)
                               /\ named[q[i].version] = q[i].task
    BY DEF InOrder
  <1> HIDE DEF InOrder
  <1>3. \A i \in 1 .. Len(q) : /\ q[i].version \in 1 .. Len(Append(named, t))
                               /\ Append(named, t)[q[i].version] = q[i].task
                               /\ q[i].version < Len(Append(named, t))
    BY <1>1, <1>2
  <1>4. InOrder(q, Append(named, t))
    BY <1>3 DEF InOrder
  <1> QED BY <1>1, <1>3, <1>4

\* The entry that it was written for goes to the end.
LEMMA InOrderPushed ==
    ASSUME NEW q \in Seq(Entries), NEW named \in Seq(Tasks), InOrder(q, named),
           NEW e \in Entries, named # <<>>,
           e.version = Len(named), named[Len(named)] = e.task,
           \A i \in 1 .. Len(q) : q[i].version < Len(named)
    PROVE  InOrder(Append(q, e), named)
  <1>1. /\ Len(named) \in Nat \ {0} /\ Len(q) \in Nat
        /\ Len(Append(q, e)) = Len(q) + 1
        /\ \A i \in 1 .. Len(q) : Append(q, e)[i] = q[i]
        /\ Append(q, e)[Len(q) + 1] = e
    BY AppendProperties, LenProperties, EmptySeq
  <1>2. \A i \in 1 .. Len(q) + 1 : i \in 1 .. Len(q) \/ i = Len(q) + 1
    BY <1>1
  <1>3. \A i \in 1 .. Len(q) + 1 : /\ Append(q, e)[i].version \in 1 .. Len(named)
                                   /\ named[Append(q, e)[i].version] = Append(q, e)[i].task
    BY <1>1, <1>2 DEF InOrder
  <1>4. ASSUME NEW i \in 1 .. Len(q) + 1, NEW j \in 1 .. Len(q) + 1, i < j
        PROVE  Append(q, e)[i].version < Append(q, e)[j].version
    <2>1. i \in 1 .. Len(q)
      BY <1>1, <1>4
    <2>2. CASE j = Len(q) + 1
      BY <1>1, <2>1, <2>2
    <2>3. CASE j \in 1 .. Len(q)
      BY <1>1, <1>4, <2>1, <2>3 DEF InOrder
    <2> QED BY <1>2, <2>2, <2>3
  <1> QED BY <1>1, <1>3, <1>4 DEF InOrder

\* What a step of a call leaves alone.
LEMMA StepFrame ==
    ASSUME Typed, NEW k \in Calls, Step(k) \/ Fault(k)
    PROVE  /\ at[k] \in InSection \cup {"lock"}
           /\ \A j \in Calls : j # k => /\ at'[j] = at[j] /\ working'[j] = working[j]
                                        /\ copy'[j] = copy[j] /\ goal'[j] = goal[j]
           /\ at[k] = "lock" => UNCHANGED <<status, list, latest>>
           /\ at[k] = "lock" /\ at'[k] \in InSection => MutexFree(k)
           /\ disturbed \subseteq disturbed'
  <1>0. TypeOK
    BY DEF Typed
  <1>1. CASE Lock(k)
    <2>1. PICK place \in {"failed", "note", "take"} : Goes(k, place)
      BY <1>1 DEF Lock
    <2>2. at[k] = "lock" /\ MutexFree(k)
          /\ UNCHANGED <<status, list, latest, working, copy, goal, disturbed>>
      BY <1>1 DEF Lock
    <2> QED BY <1>0, <2>1, <2>2, GoesType DEF InSection
  <1>2. CASE NotFound(k) \/ Fault(k)
    <2>1. at[k] \in InSection \cup {"lock"} /\ Fails(k)
      BY <1>2 DEF NotFound, Fault, InSection
    <2> QED BY <1>0, <2>1, FailsType DEF InSection
  <1>3. CASE Take(k) \/ Fetch(k) \/ Store(k) \/ Note(k)
    <2>1. /\ at[k] \in InSection /\ at[k] # "lock"
          /\ \E place \in InSection : Goes(k, place)
          /\ copy' \in {copy, [copy EXCEPT ![k] = Old(k)], [copy EXCEPT ![k] = New(k)]}
          /\ UNCHANGED <<working, goal, disturbed>>
      BY <1>3 DEF Take, Fetch, Store, Note, InSection
    <2> QED BY <1>0, <2>1, GoesType DEF TypeOK
  <1>4. CASE Drop(k) \/ Push(k)
    <2>1. /\ at[k] \in InSection /\ at[k] # "lock"
          /\ OtherListOr(k, "take", "store") \/ OtherListOr(k, "note", "done")
          /\ copy' = [copy EXCEPT ![k] = <<>>]
          /\ UNCHANGED <<goal, disturbed>>
      BY <1>4 DEF Drop, Push, InSection
    <2> QED BY <1>0, <2>1, OtherListType DEF TypeOK, InSection
  <1> QED BY <1>1, <1>2, <1>3, <1>4 DEF Step

\* What the other calls rely on stays as it is.
LEMMA OthersKept ==
    ASSUME SectionInv, NEW k \in Calls, Step(k) \/ Fault(k)
    PROVE  Mutex' /\ \A j \in Calls : j # k => CallInv(j)'
  <1>0. Typed /\ Mutex /\ \A j \in Calls : CallInv(j)
    BY DEF SectionInv
  <1>1. Mutex'
    <2>1. \A j \in Calls : j # k => at'[j] = at[j]
      BY <1>0, StepFrame
    <2>2. at'[k] \in InSection => at[k] \in InSection \/ MutexFree(k)
      BY <1>0, StepFrame
    <2> QED BY <1>0, <2>1, <2>2 DEF Mutex, MutexFree
  <1>2. ASSUME NEW j \in Calls, j # k PROVE CallInv(j)'
    <2>1. /\ at'[j] = at[j] /\ working'[j] = working[j]
          /\ copy'[j] = copy[j] /\ goal'[j] = goal[j]
      BY <1>0, <1>2, StepFrame
    <2>2. CASE at[j] \in InSection
      <3>1. UNCHANGED <<status, list, latest>>
        BY <1>0, <1>2, <2>2, StepFrame DEF Mutex
      <3> QED BY <1>0, <2>1, <3>1 DEF CallInv, Named, Old, New, Task, Kind
    <2>3. CASE at[j] \notin InSection
      BY <1>0, <2>1, <2>3 DEF CallInv, InSection, Kind
    <2> QED BY <2>2, <2>3
  <1> QED BY <1>1, <1>2

\* A call begins.
LEMMA SectionBegin ==
    ASSUME SectionInv, NEW t \in Tasks, Call(t)
    PROVE  SectionInv'
  <1> USE CallShape
  <1>0. Typed /\ TypeOK /\ Known /\ Mutex
    BY DEF SectionInv, Typed
  <1>1. Typed'
    BY <1>0, TypedStep DEF Next
  <1>2. PICK k \in Calls :
          /\ at[k] = "idle" /\ Goes(k, "lock") /\ Task(k) = t
          /\ UNCHANGED <<list, latest, working, copy>>
          /\ \/ status' = [status EXCEPT ![t] = "waiting"] /\ status[t] = "absent" /\ goal' = goal
             \/ /\ status' = status /\ Kind(k) # "sync"
                /\ \E s \in Statuses : goal' = [goal EXCEPT ![k] = s]
    BY ValueTypes DEF Call, Sync, Finish, Confirm, Settle, Kinds
  <1>3. at'[k] = "lock" /\ \A j \in Calls : j # k => at'[j] = at[j]
    BY <1>0, <1>2, GoesType
  <1>4. Mutex'
    BY <1>0, <1>3 DEF Mutex, InSection
  <1>5. ASSUME NEW j \in Calls PROVE CallInv(j)'
    <2>1. CallInv(j)
      BY DEF SectionInv
    <2>2. CASE j = k
      <3>1. Kind(k) = "sync" => goal'[k] = goal[k]
        BY <1>2
      <3> QED BY <1>2, <1>3, <2>1, <2>2, <3>1 DEF CallInv, InSection, Kind
    <2>3. CASE j # k
      <3>1. at'[j] = at[j] /\ goal'[j] = goal[j]
        BY <1>0, <1>2, <1>3, <2>3 DEF TypeOK
      <3>2. at[j] # "idle" => status'[Task(j)] = status[Task(j)]
        BY <1>0, <1>2 DEF TypeOK, Known
      <3>3. CASE at[j] \in InSection
        <4>1. status'[Task(j)] = status[Task(j)]
          BY <3>2, <3>3 DEF InSection
        <4> QED BY <1>2, <2>1, <3>1, <4>1 DEF CallInv, Named, Old, New, Task, Kind
      <3>4. CASE at[j] \notin InSection
        BY <1>2, <2>1, <3>1, <3>4 DEF CallInv, InSection, Kind
      <3> QED BY <3>3, <3>4
    <2> QED BY <2>2, <2>3
  <1>6. \A l \in Lists, s \in Statuses : InOrder(list[l][s], latest[l][s])'
    BY <1>2 DEF SectionInv, InOrder
  <1> QED BY <1>1, <1>4, <1>5, <1>6 DEF SectionInv

\* The write that takes the task out of a list is made of what is stored there.
LEMMA DropEffect ==
    ASSUME SectionInv, NEW k \in Calls, Drop(k)
    PROVE  /\ working[k] \in Lists /\ status[Task(k)] \in Statuses /\ Old(k) \in Seq(Entries)
           /\ \E i \in 1 .. Len(Old(k)), rest \in Seq(Entries) :
                /\ Old(k)[i].task = Task(k)
                /\ Len(rest) = Len(Old(k)) - 1
                /\ \A j \in 1 .. Len(Old(k)) - 1 : rest[j] = Old(k)[IF j < i THEN j ELSE j + 1]
                /\ list'[working[k]][status[Task(k)]] = rest
           /\ \A m \in Lists, r \in Statuses :
                m # working[k] \/ r # status[Task(k)] => list'[m][r] = list[m][r]
  <1>0. Typed /\ TypeOK /\ Found /\ CallInv(k)
    BY DEF SectionInv, Typed
  <1>1. /\ at[k] = "drop" /\ at[k] # "idle"
        /\ list' = [list EXCEPT ![working[k]][status[Task(k)]] = Without(k)]
    BY DEF Drop
  <1>2. copy[k] = Old(k) /\ Places(k, copy[k]) # {}
    BY <1>0, <1>1 DEF CallInv, Found
  <1>3. working[k] \in Lists /\ status[Task(k)] \in Statuses /\ Old(k) \in Seq(Entries)
    BY <1>0, <1>1, CallTypes
  <1>4. PICK i \in 1 .. Len(copy[k]) :
          /\ copy[k][i].task = Task(k)
          /\ Without(k) \in Seq(Entries)
          /\ Len(Without(k)) = Len(copy[k]) - 1
          /\ \A j \in 1 .. Len(copy[k]) - 1 :
               Without(k)[j] = copy[k][IF j < i THEN j ELSE j + 1]
    BY <1>0, <1>2, WithoutOne
  <1>5. Without(k) \in Seq(Entries)
    BY <1>4
  <1>6. /\ list'[working[k]][status[Task(k)]] = Without(k)
        /\ \A m \in Lists, r \in Statuses :
             m # working[k] \/ r # status[Task(k)] => list'[m][r] = list[m][r]
    BY <1>0, <1>1, <1>3, <1>5 DEF TypeOK
  <1> QED BY <1>2, <1>3, <1>4, <1>5, <1>6

\* The same of the write that lists the task again.
LEMMA PushEffect ==
    ASSUME SectionInv, NEW k \in Calls, Push(k)
    PROVE  /\ working[k] \in Lists /\ goal[k] \in Statuses /\ New(k) \in Seq(Entries)
           /\ \E e \in Entries : /\ e.task = Task(k)
                                 /\ e.version = Len(latest[working[k]][goal[k]])
                                 /\ list'[working[k]][goal[k]] = Append(New(k), e)
           /\ \A m \in Lists, r \in Statuses :
                m # working[k] \/ r # goal[k] => list'[m][r] = list[m][r]
  <1>0. Typed /\ TypeOK /\ CallInv(k)
    BY DEF SectionInv, Typed
  <1>1. /\ at[k] = "push" /\ at[k] # "idle"
        /\ list' = [list EXCEPT ![working[k]][goal[k]] = Append(copy[k], Entry(k))]
    BY DEF Push
  <1>2. copy[k] = New(k)
    BY <1>0, <1>1 DEF CallInv
  <1>3. /\ working[k] \in Lists /\ goal[k] \in Statuses /\ New(k) \in Seq(Entries)
        /\ Task(k) \in Tasks /\ latest[working[k]][goal[k]] \in Seq(Tasks)
    BY <1>0, <1>1, CallTypes
  <1>4. /\ Entry(k) \in Entries /\ Entry(k).task = Task(k)
        /\ Entry(k).version = Len(latest[working[k]][goal[k]])
    BY <1>3, LenProperties DEF Entry, Entries
  <1>5. Append(New(k), Entry(k)) \in Seq(Entries)
    BY <1>3, <1>4, AppendProperties
  <1>6. /\ list'[working[k]][goal[k]] = Append(New(k), Entry(k))
        /\ \A m \in Lists, r \in Statuses :
             m # working[k] \/ r # goal[k] => list'[m][r] = list[m][r]
    BY <1>0, <1>1, <1>2, <1>3, <1>5 DEF TypeOK
  <1> QED BY <1>3, <1>4, <1>6

\* A call goes on: what it reads and writes.
LEMMA SectionOn ==
    ASSUME SectionInv, NEW k \in Calls, Step(k) \/ Fault(k)
    PROVE  SectionInv'
  <1> USE CallShape
  <1>0. Typed /\ TypeOK /\ Known /\ Found /\ Mutex /\ CallInv(k)
    BY DEF SectionInv, Typed
  <1>1. Typed' /\ Mutex' /\ \A j \in Calls : j # k => CallInv(j)'
    BY <1>0, TypedStep, OthersKept DEF Next
  <1>2. SUFFICES CallInv(k)' /\ \A l \in Lists, s \in Statuses : InOrder(list'[l][s], latest'[l][s])
    BY <1>1 DEF SectionInv, InOrder
  <1>3. at[k] # "idle"
    BY <1>0, StepFrame DEF InSection
  <1>4. /\ working[k] \in Lists /\ goal[k] \in Statuses /\ status[Task(k)] \in Statuses
        /\ Old(k) \in Seq(Entries) /\ New(k) \in Seq(Entries)
        /\ latest[working[k]][goal[k]] \in Seq(Tasks) /\ Task(k) \in Tasks
    BY <1>0, <1>3, CallTypes
  <1>5. ASSUME UNCHANGED <<list, latest>>
        PROVE  \A l \in Lists, s \in Statuses : InOrder(list'[l][s], latest'[l][s])
    BY <1>5 DEF SectionInv
  <1>6. CASE Lock(k)
    <2>1. /\ at[k] = "lock" /\ UNCHANGED <<list, latest, working, copy, goal, status>>
          /\ Goes(k, "failed") \/ (Kind(k) = "sync" /\ Goes(k, "note"))
             \/ (Kind(k) # "sync" /\ Goes(k, "take"))
      BY <1>6 DEF Lock
    <2>2. /\ at'[k] \in {"failed", "note", "take"}
          /\ at'[k] = "take" => Kind(k) # "sync"
      BY <1>0, <2>1, GoesType DEF InSection
    <2>3. CallInv(k)'
      BY <1>0, <2>1, <2>2 DEF CallInv, InSection, Kind
    <2> QED BY <1>5, <2>1, <2>3
  <1>7. CASE NotFound(k) \/ Fault(k)
    <2>1. Fails(k)
      BY <1>7 DEF NotFound, Fault
    <2>2. /\ UNCHANGED <<list, latest>>
          /\ at'[k] = "failed" /\ working'[k] = "protocols" /\ goal'[k] = "waiting"
      BY <1>0, <2>1, FailsType
    <2> QED BY <1>5, <2>2 DEF CallInv, InSection
  <1>8. CASE Take(k)
    <2>1. /\ at[k] = "take" /\ copy' = [copy EXCEPT ![k] = Old(k)] /\ Goes(k, "drop")
          /\ UNCHANGED <<status, list, latest, working, goal>>
      BY <1>8 DEF Take
    <2>2. at'[k] = "drop" /\ copy'[k] = Old(k)
      BY <1>0, <2>1, GoesType DEF TypeOK, InSection
    <2>3. CallInv(k)'
      BY <1>0, <2>1, <2>2 DEF CallInv, InSection, Kind, Old, Task
    <2> QED BY <1>5, <2>1, <2>3
  <1>9. CASE Drop(k)
    <2>1. /\ at[k] = "drop" /\ list' = [list EXCEPT ![working[k]][status[Task(k)]] = Without(k)]
          /\ OtherListOr(k, "take", "store") /\ UNCHANGED <<status, latest, goal>>
      BY <1>9 DEF Drop
    <2>2. Kind(k) # "sync"
      BY <1>0, <2>1 DEF CallInv
    <2>3. PICK i \in 1 .. Len(Old(k)), rest \in Seq(Entries) :
            /\ Old(k)[i].task = Task(k)
            /\ Len(rest) = Len(Old(k)) - 1
            /\ \A j \in 1 .. Len(Old(k)) - 1 : rest[j] = Old(k)[IF j < i THEN j ELSE j + 1]
            /\ list'[working[k]][status[Task(k)]] = rest
      BY <1>9, DropEffect
    <2>4. InOrder(rest, latest[working[k]][status[Task(k)]])
      <3>1. InOrder(Old(k), latest[working[k]][status[Task(k)]])
        BY <1>4 DEF SectionInv, Old
      <3>2. latest[working[k]][status[Task(k)]] \in Seq(Tasks) /\ Old(k) \in Seq(Entries)
        BY <1>0, <1>4 DEF TypeOK
      <3> QED BY <2>3, <3>1, <3>2, InOrderWithout
    <2>5. \A m \in Lists, r \in Statuses :
            m # working[k] \/ r # status[Task(k)] => list'[m][r] = list[m][r]
      BY <1>9, DropEffect
    <2>6. ASSUME NEW l \in Lists, NEW s \in Statuses PROVE InOrder(list'[l][s], latest'[l][s])
      <3>1. CASE l = working[k] /\ s = status[Task(k)]
        BY <2>1, <2>3, <2>4, <3>1
      <3>2. CASE l # working[k] \/ s # status[Task(k)]
        BY <2>1, <2>5, <3>2 DEF SectionInv
      <3> QED BY <3>1, <3>2
    <2>7. /\ at'[k] = "take" \/ (at'[k] = "store" /\ working'[k] = "protocols")
          /\ goal'[k] = goal[k]
      BY <1>0, <2>1, OtherListType DEF InSection
    <2>8. CallInv(k)'
      BY <2>2, <2>7 DEF CallInv, InSection, Kind
    <2> QED BY <2>6, <2>8
  <1>10. CASE Store(k)
    <2>1. /\ at[k] = "store" /\ Goes(k, "note") /\ UNCHANGED <<list, latest, working, copy, goal>>
      BY <1>10 DEF Store
    <2>2. at'[k] = "note"
      BY <1>0, <2>1, GoesType DEF InSection
    <2>3. CallInv(k)'
      BY <1>0, <2>1, <2>2 DEF CallInv, InSection, Kind
    <2> QED BY <1>5, <2>1, <2>3
  <1>11. CASE Note(k)
    <2> DEFINE named == latest[working[k]][goal[k]]
    <2>1. /\ at[k] = "note" /\ Goes(k, "fetch") /\ UNCHANGED <<status, list, working, copy, goal>>
          /\ latest' = [latest EXCEPT ![working[k]][goal[k]] = Append(@, Task(k))]
      BY <1>11 DEF Note
    <2>2. at'[k] = "fetch"
      BY <1>0, <2>1, GoesType DEF InSection
    <2>3. /\ latest'[working[k]][goal[k]] = Append(named, Task(k))
          /\ \A m \in Lists, r \in Statuses :
               m # working[k] \/ r # goal[k] => latest'[m][r] = latest[m][r]
      BY <1>0, <1>4, <2>1 DEF TypeOK
    <2>4. /\ InOrder(New(k), Append(named, Task(k)))
          /\ Append(named, Task(k)) # <<>>
          /\ Append(named, Task(k))[Len(Append(named, Task(k)))] = Task(k)
          /\ \A i \in 1 .. Len(New(k)) : New(k)[i].version < Len(Append(named, Task(k)))
      <3>1. InOrder(New(k), named)
        BY <1>4 DEF SectionInv, New
      <3>2. New(k) \in Seq(Entries) /\ named \in Seq(Tasks) /\ Task(k) \in Tasks
        BY <1>4
      <3> HIDE DEF named
      <3> QED BY <3>1, <3>2, InOrderNamed
    <2>5. ASSUME NEW l \in Lists, NEW s \in Statuses PROVE InOrder(list'[l][s], latest'[l][s])
      <3>1. CASE l = working[k] /\ s = goal[k]
        BY <2>1, <2>3, <2>4, <3>1 DEF New
      <3>2. CASE l # working[k] \/ s # goal[k]
        BY <2>1, <2>3, <3>2 DEF SectionInv
      <3> QED BY <3>1, <3>2
    <2>6. Named(k)'
      <3>1. New(k)' = New(k)
        BY <2>1 DEF New
      <3> QED BY <2>1, <2>3, <2>4, <3>1 DEF Named, Task
    <2>7. CallInv(k)'
      BY <1>0, <2>1, <2>2, <2>6 DEF CallInv, InSection, Kind
    <2> QED BY <2>5, <2>7
  <1>12. CASE Fetch(k)
    <2>1. /\ at[k] = "fetch" /\ copy' = [copy EXCEPT ![k] = New(k)] /\ Goes(k, "push")
          /\ UNCHANGED <<status, list, latest, working, goal>>
      BY <1>12 DEF Fetch
    <2>2. at'[k] = "push" /\ copy'[k] = New(k)
      BY <1>0, <2>1, GoesType DEF TypeOK, InSection
    <2>3. Named(k)' /\ New(k)' = New(k)
      BY <1>0, <2>1 DEF CallInv, Named, New, Task
    <2>4. CallInv(k)'
      BY <1>0, <2>1, <2>2, <2>3 DEF CallInv, InSection, Kind
    <2> QED BY <1>5, <2>1, <2>4
  <1>13. CASE Push(k)
    <2> DEFINE named == latest[working[k]][goal[k]]
    <2>1. at[k] = "push" /\ OtherListOr(k, "note", "done") /\ UNCHANGED <<status, latest, goal>>
      BY <1>13 DEF Push
    <2>2. Named(k)
      BY <1>0, <2>1 DEF CallInv
    <2>3. PICK e \in Entries : /\ e.task = Task(k) /\ e.version = Len(named)
                              /\ list'[working[k]][goal[k]] = Append(New(k), e)
      BY <1>13, PushEffect
    <2>4. InOrder(Append(New(k), e), named)
      <3>1. InOrder(New(k), named)
        BY <1>4 DEF SectionInv, New
      <3> QED BY <1>4, <2>2, <2>3, <3>1, InOrderPushed DEF Named
    <2>5. \A m \in Lists, r \in Statuses :
            m # working[k] \/ r # goal[k] => list'[m][r] = list[m][r]
      BY <1>13, PushEffect
    <2>6. ASSUME NEW l \in Lists, NEW s \in Statuses PROVE InOrder(list'[l][s], latest'[l][s])
      <3>1. CASE l = working[k] /\ s = goal[k]
        BY <2>1, <2>3, <2>4, <3>1
      <3>2. CASE l # working[k] \/ s # goal[k]
        BY <2>1, <2>5, <3>2 DEF SectionInv
      <3> QED BY <3>1, <3>2
    <2>7. at'[k] = "note" \/ (at'[k] = "done" /\ working'[k] = "protocols")
      BY <1>0, <2>1, OtherListType DEF InSection
    <2>8. CallInv(k)'
      BY <1>0, <2>1, <2>7 DEF CallInv, InSection, Kind
    <2> QED BY <2>6, <2>8
  <1> QED BY <1>6, <1>7, <1>8, <1>9, <1>10, <1>11, <1>12, <1>13 DEF Step

\* Nobody is in the section of an empty core.
LEMMA SectionInit == Init => SectionInv
  <1> SUFFICES ASSUME Init PROVE SectionInv
    OBVIOUS
  <1>1. Mutex /\ \A k \in Calls : CallInv(k)
    BY DEF Init, Mutex, CallInv, InSection
  <1>2. \A l \in Lists, s \in Statuses : InOrder(list[l][s], latest[l][s])
    BY EmptySeq DEF Init, InOrder
  <1> QED BY <1>1, <1>2, TypedInit DEF SectionInv

\* What holds of the section, the copies and the lists is inductive.
LEMMA SectionStep == SectionInv /\ [Next]_vars => SectionInv'
  <1>1. SectionInv /\ UNCHANGED vars => SectionInv'
    <2> SUFFICES ASSUME SectionInv, UNCHANGED vars PROVE SectionInv'
      OBVIOUS
    <2>1. Typed'
      BY TypedStep DEF SectionInv
    <2>2. Mutex' /\ \A k \in Calls : CallInv(k)'
      BY DEF SectionInv, vars, Mutex, CallInv, Named, Old, New, Task, Kind
    <2>3. \A l \in Lists, s \in Statuses : InOrder(list[l][s], latest[l][s])'
      BY DEF SectionInv, vars, InOrder
    <2> QED BY <2>1, <2>2, <2>3 DEF SectionInv
  <1> QED BY <1>1, SectionBegin, SectionOn DEF Next
\* No two calls are between taking the mutex and giving it back, also when a
\* call fails there.
THEOREM MutexCorrect == Spec => []Mutex
  <1>1. SectionInv => Mutex
    BY DEF SectionInv
  <1> QED BY <1>1, SectionInit, SectionStep, PTL DEF Spec

\* What the readers of a list count on who follow ":latest" from its end on:
\* every entry holds the key path that named its task, in the order of the
\* entries, whatever has failed.
THEOREM ListedAtLatestCorrect == Spec => []ListedAtLatest
  <1>1. ASSUME SectionInv PROVE ListedAtLatest
    <2>1. ASSUME NEW l \in Lists, NEW s \in Statuses
          PROVE  /\ \A i \in 1 .. Len(list[l][s]) :
                       /\ list[l][s][i].version <= Len(latest[l][s])
                       /\ latest[l][s][list[l][s][i].version] = list[l][s][i].task
                 /\ \A i, j \in 1 .. Len(list[l][s]) :
                       i < j => list[l][s][i].version < list[l][s][j].version
      <3>1. InOrder(list[l][s], latest[l][s])
        BY <1>1 DEF SectionInv
      <3>2. latest[l][s] \in Seq(Tasks)
        BY <1>1 DEF SectionInv, Typed, TypeOK
      <3>3. Len(latest[l][s]) \in Nat
        BY <3>2, LenProperties
      <3> QED BY <3>1, <3>3 DEF InOrder
    <2> QED BY <2>1 DEF ListedAtLatest
  <1> QED BY <1>1, SectionInit, SectionStep, PTL DEF Spec

-------------------------------------------------------------------------------
(***************************************************************************)
(* Where a task is listed.                                                 *)
(***************************************************************************)

In(t, entries) == \E i \in 1 .. Len(entries) : entries[i].task = t

Once(t, entries) ==
    \A i, j \in 1 .. Len(entries) : entries[i].task = t /\ entries[j].task = t => i = j

\* A call on its way from one status to the other: the task is in list l no
\* more, or not yet.
Away(k, l) ==
    \/ at[k] \in {"take", "drop"} /\ working[k] = "tasks" /\ l = "protocols"
    \/ at[k] = "store"
    \/ at[k] \in Adding /\ (working[k] = "protocols" \/ l = "tasks")

Expected(t, l, s) ==
    s = status[t] /\ ~Unlisted(t) /\ \A x \in Kinds : ~Away(<<t, x>>, l)

\* A call that lists the task has given it its status; and none has changed
\* anything of a task that is not listed yet.
Going(t, k) ==
    /\ at[k] \in Adding => status[t] = goal[k]
    /\ at[k] \in Adding \cup {"store", "drop"} \/ working[k] = "tasks"
         => at[<<t, "sync">>] # "lock"

PlaceOf(t) ==
    /\ at[<<t, "sync">>] = "lock" => status[t] = "waiting"
    /\ \A x \in Kinds : Going(t, <<t, x>>)
    /\ \A l \in Lists, s \in Statuses : /\ Once(t, list[l][s])
                                        /\ In(t, list[l][s]) <=> Expected(t, l, s)

PlaceInv ==
    /\ SectionInv
    /\ \A t \in Tasks \ disturbed : PlaceOf(t)
\* An entry that is taken out was the only one of its task, and no other task's.
LEMMA InWithout ==
    ASSUME NEW q \in Seq(Entries), NEW i \in 1 .. Len(q), NEW rest \in Seq(Entries),
           Len(rest) = Len(q) - 1,
           \A j \in 1 .. Len(q) - 1 : rest[j] = q[IF j < i THEN j ELSE j + 1],
           NEW t, Once(t, q)
    PROVE  /\ Once(t, rest)
           /\ t = q[i].task => ~In(t, rest)
           /\ t # q[i].task => (In(t, rest) <=> In(t, q))
  <1> DEFINE From(j) == IF j < i THEN j ELSE j + 1
  <1>0. Len(q) \in Nat
    BY LenProperties
  <1>1. \A j \in 1 .. Len(rest) : From(j) \in 1 .. Len(q) /\ From(j) # i /\ rest[j] = q[From(j)]
    BY <1>0
  <1>2. \A j, m \in 1 .. Len(rest) : From(j) = From(m) => j = m
    BY <1>0
  <1>3. \A n \in 1 .. Len(q) : n # i => \E j \in 1 .. Len(rest) : From(j) = n
    <2>1. ASSUME NEW n \in 1 .. Len(q), n # i PROVE \E j \in 1 .. Len(rest) : From(j) = n
      <3>1. CASE n < i
        BY <1>0, <3>1
      <3>2. CASE i < n
        <4>1. n - 1 \in 1 .. Len(rest) /\ From(n - 1) = n
          BY <1>0, <3>2
        <4> QED BY <4>1
      <3> QED BY <1>0, <2>1, <3>1, <3>2
    <2> QED BY <2>1
  <1> HIDE DEF From
  <1>4. Once(t, rest)
    BY <1>1, <1>2 DEF Once
  <1>5. ASSUME t = q[i].task PROVE ~In(t, rest)
    BY <1>1, <1>5 DEF In, Once
  <1>6. ASSUME t # q[i].task PROVE In(t, rest) <=> In(t, q)
    <2>1. In(t, rest) => In(t, q)
      BY <1>1 DEF In
    <2>2. ASSUME In(t, q) PROVE In(t, rest)
      <3>1. PICK n \in 1 .. Len(q) : q[n].task = t
        BY <2>2 DEF In
      <3>2. PICK j \in 1 .. Len(rest) : From(j) = n
        BY <1>3, <1>6, <3>1
      <3>3. rest[j] = q[n]
        BY <1>1, <3>2
      <3> QED BY <3>1, <3>3 DEF In
    <2> QED BY <2>1, <2>2
  <1> QED BY <1>4, <1>5, <1>6

\* An entry at the end of a list lists its task, and no other.
LEMMA InPushed ==
    ASSUME NEW q \in Seq(Entries), NEW e \in Entries, NEW t, Once(t, q)
    PROVE  /\ t = e.task /\ ~In(t, q) => In(t, Append(q, e)) /\ Once(t, Append(q, e))
           /\ t # e.task => Once(t, Append(q, e)) /\ (In(t, Append(q, e)) <=> In(t, q))
  <1>1. /\ Len(q) \in Nat /\ Len(Append(q, e)) = Len(q) + 1
        /\ \A i \in 1 .. Len(q) : Append(q, e)[i] = q[i]
        /\ Append(q, e)[Len(q) + 1] = e
    BY AppendProperties, LenProperties
  <1>2. \A i \in 1 .. Len(q) + 1 : i \in 1 .. Len(q) \/ i = Len(q) + 1
    BY <1>1
  <1>3. (\A i \in 1 .. Len(q) : i \in 1 .. Len(q) + 1) /\ Len(q) + 1 \in 1 .. Len(q) + 1
    BY <1>1
  <1> DEFINE longer == Append(q, e)
  <1> HIDE DEF longer
  <1>4. /\ Len(longer) = Len(q) + 1
        /\ \A i \in 1 .. Len(q) : longer[i] = q[i]
        /\ longer[Len(q) + 1] = e
    BY <1>1 DEF longer
  <1>5. ASSUME t = e.task, ~In(t, q) PROVE In(t, longer) /\ Once(t, longer)
    BY <1>2, <1>3, <1>4, <1>5 DEF In, Once
  <1>6. ASSUME t # e.task PROVE Once(t, longer) /\ (In(t, longer) <=> In(t, q))
    BY <1>2, <1>3, <1>4, <1>6 DEF In, Once
  <1> QED BY <1>5, <1>6 DEF longer

\* PlaceOf after a step, from its parts.
LEMMA PlaceIntro ==
    ASSUME NEW t \in Tasks,
           at'[<<t, "sync">>] = "lock" => status'[t] = "waiting",
           \A x \in Kinds : Going(t, <<t, x>>)',
           \A l \in Lists, s \in Statuses :
              Once(t, list'[l][s]) /\ (In(t, list'[l][s]) <=> Expected(t, l, s)')
    PROVE  PlaceOf(t)'
  BY DEF PlaceOf, Once, In

\* A call of another task does not move this one.
LEMMA PlaceOther ==
    ASSUME NEW t \in Tasks, PlaceOf(t), status'[t] = status[t],
           \A x \in Kinds : /\ at'[<<t, x>>] = at[<<t, x>>] /\ goal'[<<t, x>>] = goal[<<t, x>>]
                            /\ working'[<<t, x>>] = working[<<t, x>>],
           \A l \in Lists, s \in Statuses :
              Once(t, list'[l][s]) /\ (In(t, list'[l][s]) <=> In(t, list[l][s]))
    PROVE  PlaceOf(t)'
  <1>1. \A x \in Kinds : Going(t, <<t, x>>)'
    BY DEF PlaceOf, Going, Kinds
  <1>2. \A l \in Lists, s \in Statuses : Expected(t, l, s)' <=> Expected(t, l, s)
    BY DEF Expected, Unlisted, Away, Kinds
  <1>3. at'[<<t, "sync">>] = "lock" => status'[t] = "waiting"
    BY DEF PlaceOf, Kinds
  <1> QED BY <1>1, <1>2, <1>3, PlaceIntro DEF PlaceOf

\* Nor does a step of a call of its own that changes no list and no status, and
\* after which the call is as far on its way as before.
LEMMA PlaceOwn ==
    ASSUME NEW t \in Tasks, NEW y \in Kinds, PlaceOf(t), UNCHANGED <<status, list>>,
           \A x \in Kinds : x # y => /\ at'[<<t, x>>] = at[<<t, x>>]
                                     /\ goal'[<<t, x>>] = goal[<<t, x>>]
                                     /\ working'[<<t, x>>] = working[<<t, x>>],
           y = "sync" => at[<<t, y>>] # "lock" /\ at'[<<t, y>>] # "lock",
           \A l \in Lists : Away(<<t, y>>, l)' <=> Away(<<t, y>>, l),
           Going(t, <<t, y>>)'
    PROVE  PlaceOf(t)'
  <1>1. \A x \in Kinds : Going(t, <<t, x>>)'
    BY DEF PlaceOf, Going, Kinds
  <1>2. \A l \in Lists, x \in Kinds : Away(<<t, x>>, l)' <=> Away(<<t, x>>, l)
    BY DEF Away
  <1>3. \A l \in Lists, s \in Statuses : Expected(t, l, s)' <=> Expected(t, l, s)
    BY <1>2 DEF Expected, Unlisted, Kinds
  <1>4. at'[<<t, "sync">>] = "lock" => status'[t] = "waiting"
    BY DEF PlaceOf, Kinds
  <1> QED BY <1>1, <1>3, <1>4, PlaceIntro DEF PlaceOf
\* What a call does to the entries of the tasks of the other calls.
LEMMA OtherEntries ==
    ASSUME SectionInv, NEW k \in Calls, Step(k) \/ Fault(k),
           NEW t \in Tasks, t # Task(k), \A l \in Lists, s \in Statuses : Once(t, list[l][s])
    PROVE  /\ status'[t] = status[t]
           /\ \A l \in Lists, s \in Statuses :
                Once(t, list'[l][s]) /\ (In(t, list'[l][s]) <=> In(t, list[l][s]))
  <1>0. Typed /\ TypeOK
    BY DEF SectionInv, Typed
  <1>1. CASE Drop(k)
    <2>1. PICK i \in 1 .. Len(Old(k)), rest \in Seq(Entries) :
            /\ Old(k)[i].task = Task(k)
            /\ Len(rest) = Len(Old(k)) - 1
            /\ \A j \in 1 .. Len(Old(k)) - 1 : rest[j] = Old(k)[IF j < i THEN j ELSE j + 1]
            /\ list'[working[k]][status[Task(k)]] = rest
      BY <1>1, DropEffect
    <2>2. /\ working[k] \in Lists /\ status[Task(k)] \in Statuses /\ Old(k) \in Seq(Entries)
          /\ \A m \in Lists, r \in Statuses :
               m # working[k] \/ r # status[Task(k)] => list'[m][r] = list[m][r]
      BY <1>1, DropEffect
    <2>3. Once(t, Old(k))
      BY <2>2 DEF Old
    <2>4. Once(t, rest) /\ (In(t, rest) <=> In(t, Old(k)))
      BY <2>1, <2>2, <2>3, InWithout
    <2>5. status' = status
      BY <1>1 DEF Drop
    <2> QED BY <2>1, <2>2, <2>4, <2>5 DEF Old
  <1>2. CASE Push(k)
    <2>1. PICK e \in Entries : e.task = Task(k) /\ list'[working[k]][goal[k]] = Append(New(k), e)
      BY <1>2, PushEffect
    <2>2. /\ working[k] \in Lists /\ goal[k] \in Statuses /\ New(k) \in Seq(Entries)
          /\ \A m \in Lists, r \in Statuses :
               m # working[k] \/ r # goal[k] => list'[m][r] = list[m][r]
      BY <1>2, PushEffect
    <2>3. Once(t, New(k))
      BY <2>2 DEF New
    <2>4. Once(t, Append(New(k), e)) /\ (In(t, Append(New(k), e)) <=> In(t, New(k)))
      BY <2>1, <2>2, <2>3, InPushed
    <2>5. status' = status
      BY <1>2 DEF Push
    <2> QED BY <2>1, <2>2, <2>4, <2>5 DEF New
  <1>3. CASE Store(k)
    <2>1. list' = list /\ status' = [status EXCEPT ![Task(k)] = goal[k]]
      BY <1>3 DEF Store
    <2> QED BY <1>0, <2>1 DEF TypeOK
  <1>4. CASE Lock(k) \/ Take(k) \/ NotFound(k) \/ Note(k) \/ Fetch(k) \/ Fault(k)
    <2>1. UNCHANGED <<list, status>>
      BY <1>4 DEF Lock, Take, NotFound, Note, Fetch, Fault, Fails
    <2> QED BY <2>1
  <1> QED BY <1>1, <1>2, <1>3, <1>4 DEF Step
\* The steps of a call that leave its task as far on its way as it is.
LEMMA PlaceStays ==
    ASSUME SectionInv, NEW k \in Calls, PlaceOf(Task(k)),
           \/ Lock(k) /\ Kind(k) # "sync"
           \/ (NotFound(k) \/ Fault(k)) /\ ~HalfDone(k)
           \/ Take(k) \/ Note(k) \/ Fetch(k)
    PROVE  PlaceOf(Task(k))'
  <1> DEFINE t == Task(k)
             y == Kind(k)
  <1> USE CallShape
  <1>0. /\ Typed /\ TypeOK /\ CallInv(k) /\ PlaceOf(t)
        /\ t \in Tasks /\ y \in Kinds /\ k = <<t, y>> /\ "sync" \in Kinds
        /\ \A x \in Kinds : <<t, x>> \in Calls /\ (x # y => <<t, x>> # k)
    BY DEF SectionInv, Typed, Kinds
  <1>1. Step(k) \/ Fault(k)
    BY DEF Step
  <1>2. \A x \in Kinds : x # y => /\ at'[<<t, x>>] = at[<<t, x>>] /\ goal'[<<t, x>>] = goal[<<t, x>>]
                                  /\ working'[<<t, x>>] = working[<<t, x>>]
    BY <1>0, <1>1, StepFrame
  <1>3. UNCHANGED <<status, list>>
    BY DEF Lock, NotFound, Fault, Fails, Take, Note, Fetch
  <1>4. Going(t, k)
    BY <1>0 DEF PlaceOf
  <1> SUFFICES /\ y = "sync" => at[k] # "lock" /\ at'[k] # "lock"
               /\ \A l \in Lists : Away(k, l)' <=> Away(k, l)
               /\ Going(t, k)'
    <2> HIDE DEF t, y
    <2> QED BY <1>0, <1>2, <1>3, PlaceOwn
  <1>5. CASE Lock(k) /\ y # "sync"
    <2>1. /\ at[k] = "lock" /\ UNCHANGED <<status, working, goal>>
          /\ \E place \in {"failed", "take"} : Goes(k, place)
      BY <1>5 DEF Lock
    <2>2. at'[k] \in {"failed", "take"} /\ working'[k] = "protocols" /\ working[k] = "protocols"
      BY <1>0, <2>1, GoesType DEF InSection, CallInv
    <2> QED BY <1>5, <2>1, <2>2 DEF Away, Going, Adding
  <1>6. CASE (NotFound(k) \/ Fault(k)) /\ ~HalfDone(k)
    <2>1. Fails(k) /\ at[k] \in InSection \cup {"lock"}
      BY <1>6 DEF NotFound, Fault, InSection
    <2>2. at'[k] = "failed" /\ working'[k] = "protocols"
      BY <1>0, <2>1, FailsType
    <2>3. /\ y # "sync" /\ at[k] \in {"lock", "take", "drop"}
          /\ at[k] \in {"take", "drop"} => working[k] # "tasks"
      BY <1>6, <2>1 DEF HalfDone, InSection
    <2> QED BY <2>2, <2>3 DEF Away, Going, Adding
  <1>7. CASE Take(k)
    <2>1. /\ at[k] = "take" /\ at[k] # "idle" /\ Goes(k, "drop")
          /\ Places(k, Old(k)) # {} /\ UNCHANGED <<status, working, goal>>
      BY <1>7 DEF Take
    <2>2. at'[k] = "drop"
      BY <1>0, <2>1, GoesType DEF InSection
    <2>3. y # "sync"
      BY <1>0, <2>1 DEF CallInv
    <2>4. working[k] \in Lists /\ status[t] \in Statuses
      BY <1>0, <2>1, CallTypes
    <2>5. In(t, list[working[k]][status[t]])
      BY <2>1 DEF Places, In, Old
    <2>6. Expected(t, working[k], status[t])
      BY <1>0, <2>4, <2>5 DEF PlaceOf
    <2>7. at[<<t, "sync">>] # "lock" /\ at'[<<t, "sync">>] # "lock"
      BY <1>0, <1>2, <2>3, <2>6 DEF Expected, Unlisted
    <2> QED BY <1>0, <2>1, <2>2, <2>3, <2>7 DEF Away, Going, Adding, Task
  <1>8. CASE Note(k) \/ Fetch(k)
    <2>1. /\ at[k] \in {"note", "fetch"} /\ \E place \in {"fetch", "push"} : Goes(k, place)
          /\ UNCHANGED <<status, working, goal>>
      BY <1>8 DEF Note, Fetch
    <2>2. at'[k] \in {"fetch", "push"}
      BY <1>0, <2>1, GoesType DEF InSection
    <2>3. at'[<<t, "sync">>] # "lock"
      BY <1>0, <1>2, <1>4, <2>1, <2>2 DEF Going, Adding
    <2> QED BY <1>0, <1>4, <2>1, <2>2, <2>3 DEF Away, Going, Adding, Task
  <1> QED BY <1>5, <1>6, <1>7, <1>8
\* Under the mutex, the way of the task is that of the one call.
LEMMA Alone ==
    ASSUME SectionInv, NEW k \in Calls, Step(k), at[k] \in InSection \/ MutexFree(k)
    PROVE  /\ \A x \in Kinds : x # Kind(k) => Going(Task(k), <<Task(k), x>>)'
           /\ \A l \in Lists, s \in Statuses :
                /\ Expected(Task(k), l, s)
                     <=> s = status[Task(k)] /\ ~Unlisted(Task(k)) /\ ~Away(k, l)
                /\ Expected(Task(k), l, s)'
                     <=> s = status'[Task(k)] /\ ~Unlisted(Task(k))' /\ ~Away(k, l)'
  <1> DEFINE t == Task(k)
             y == Kind(k)
  <1> USE CallShape
  <1>0. /\ Typed /\ Mutex /\ \A j \in Calls : CallInv(j)
        /\ t \in Tasks /\ y \in Kinds /\ k = <<t, y>>
        /\ \A x \in Kinds : <<t, x>> \in Calls /\ (x # y => <<t, x>> # k)
    BY DEF SectionInv
  <1>1. \A x \in Kinds : x # y => /\ at'[<<t, x>>] = at[<<t, x>>]
                                  /\ working'[<<t, x>>] = working[<<t, x>>]
                                  /\ at[<<t, x>>] \notin InSection
    BY <1>0, StepFrame DEF Mutex, MutexFree
  <1>2. \A x \in Kinds : x # y => working[<<t, x>>] = "protocols"
    BY <1>0, <1>1 DEF CallInv
  <1>3. \A x \in Kinds : x # y => Going(t, <<t, x>>)'
    BY <1>1, <1>2 DEF Going, Adding, InSection
  <1>4. \A x \in Kinds, l \in Lists :
          x # y => ~Away(<<t, x>>, l) /\ ~Away(<<t, x>>, l)'
    BY <1>1 DEF Away, Adding, InSection
  <1>5. ASSUME NEW l \in Lists
        PROVE  /\ (\A x \in Kinds : ~Away(<<t, x>>, l)) <=> ~Away(k, l)
               /\ (\A x \in Kinds : ~Away(<<t, x>>, l)') <=> ~Away(k, l)'
    <2>1. ~Away(k, l)' <=> ~Away(<<t, y>>, l)'
      BY <1>0 DEF Away
    <2>2. ~Away(k, l) <=> ~Away(<<t, y>>, l)
      BY <1>0
    <2> HIDE DEF t, y
    <2> QED BY <1>0, <1>4, <2>1, <2>2
  <1>6. ASSUME NEW l \in Lists, NEW s \in Statuses
        PROVE  /\ Expected(t, l, s) <=> s = status[t] /\ ~Unlisted(t) /\ ~Away(k, l)
               /\ Expected(t, l, s)' <=> s = status'[t] /\ ~Unlisted(t)' /\ ~Away(k, l)'
    <2>1. Expected(t, l, s)'
            <=> s = status'[t] /\ ~Unlisted(t)' /\ \A x \in Kinds : ~Away(<<t, x>>, l)'
      BY DEF Expected, Unlisted, Away, Task
    <2> QED BY <1>5, <2>1 DEF Expected
  <1> QED BY <1>3, <1>6

\* The steps of a call that move its task.
LEMMA PlaceMoves ==
    ASSUME SectionInv, NEW k \in Calls, PlaceOf(Task(k)),
           (Lock(k) /\ Kind(k) = "sync") \/ Drop(k) \/ Store(k) \/ Push(k)
    PROVE  PlaceOf(Task(k))'
  <1> DEFINE t == Task(k)
             y == Kind(k)
  <1> USE CallShape
  <1>0. /\ Typed /\ TypeOK /\ Known /\ CallInv(k) /\ PlaceOf(t)
        /\ t \in Tasks /\ y \in Kinds /\ k = <<t, y>> /\ "sync" \in Kinds
        /\ <<t, "sync">> \in Calls /\ (y # "sync" => <<t, "sync">> # k)
    BY DEF SectionInv, Typed, Kinds
  <1>1. Step(k) /\ at[k] # "idle" /\ (at[k] \in InSection \/ MutexFree(k))
    BY DEF Step, Lock, Drop, Store, Push, InSection
  <1>2. /\ \A x \in Kinds : x # y => Going(t, <<t, x>>)'
        /\ \A l \in Lists, s \in Statuses :
             /\ Expected(t, l, s) <=> s = status[t] /\ ~Unlisted(t) /\ ~Away(k, l)
             /\ Expected(t, l, s)' <=> s = status'[t] /\ ~Unlisted(t)' /\ ~Away(k, l)'
    BY <1>1, Alone
  <1>3. /\ status[t] \in Statuses /\ status[t] # "absent"
        /\ working[k] \in Lists /\ goal[k] \in Statuses
    BY <1>0, <1>1, CallTypes, ValueTypes
  <1>4. /\ Going(t, k)
        /\ at[<<t, "sync">>] = "lock" => status[t] = "waiting"
        /\ \A l \in Lists, s \in Statuses :
             Once(t, list[l][s]) /\ (In(t, list[l][s]) <=> Expected(t, l, s))
    BY <1>0 DEF PlaceOf
  <1>5. SUFFICES /\ at'[<<t, "sync">>] = "lock" => status'[t] = "waiting"
                 /\ Going(t, k)'
                 /\ \A l \in Lists, s \in Statuses :
                      Once(t, list'[l][s]) /\ (In(t, list'[l][s]) <=> Expected(t, l, s)')
    <2>1. Going(t, k)' => Going(t, <<t, y>>)'
      BY <1>0 DEF Going
    <2> HIDE DEF t, y
    <2> QED BY <1>0, <1>2, <2>1, PlaceIntro
  <1>6. y # "sync" => at'[<<t, "sync">>] = at[<<t, "sync">>]
    BY <1>0, <1>1, StepFrame
  <1>7. CASE Lock(k) /\ y = "sync"
    <2>1. at[k] = "lock" /\ Goes(k, "note") /\ UNCHANGED <<status, list, working, goal>>
      BY <1>7 DEF Lock, Admitted
    <2>2. at'[k] = "note" /\ working[k] = "protocols" /\ goal[k] = "waiting" /\ status[t] = "waiting"
      BY <1>0, <1>4, <1>7, <2>1, GoesType DEF InSection, CallInv
    <2>3. Going(t, k)'
      BY <1>0, <1>7, <2>1, <2>2 DEF Going, Adding, Task
    <2>4. ASSUME NEW l \in Lists, NEW s \in Statuses PROVE ~Expected(t, l, s) /\ ~Expected(t, l, s)'
      <3>1. Unlisted(t)
        BY <1>0, <1>7, <2>1 DEF Unlisted
      <3>2. Away(k, l)'
        BY <2>1, <2>2 DEF Away, Adding
      <3> QED BY <1>2, <3>1, <3>2
    <2> QED BY <1>0, <1>4, <1>7, <2>1, <2>2, <2>3, <2>4
  <1>8. CASE Drop(k)
    <2>1. /\ at[k] = "drop" /\ OtherListOr(k, "take", "store") /\ UNCHANGED <<status, goal>>
      BY <1>8 DEF Drop
    <2>2. \/ working[k] = "protocols" /\ at'[k] = "take" /\ working'[k] = "tasks"
          \/ working[k] = "tasks" /\ at'[k] = "store" /\ working'[k] = "protocols"
      BY <1>0, <2>1, OtherListType DEF InSection
    <2>3. y # "sync" /\ at[<<t, "sync">>] # "lock" /\ at'[<<t, "sync">>] # "lock"
      BY <1>0, <1>4, <1>6, <2>1 DEF CallInv, Going
    <2>4. ~Unlisted(t) /\ ~Unlisted(t)'
      BY <1>3, <2>1, <2>3 DEF Unlisted, Task
    <2>5. Going(t, k)'
      BY <2>2, <2>3 DEF Going, Adding, Task
    <2>6. \A l \in Lists : Away(k, l)' <=> Away(k, l) \/ l = working[k]
      BY <2>1, <2>2 DEF Away, Adding, Lists
    <2>7. ~In(t, list'[working[k]][status[t]]) /\ Once(t, list'[working[k]][status[t]])
      <3>1. PICK i \in 1 .. Len(Old(k)), rest \in Seq(Entries) :
              /\ Old(k)[i].task = Task(k)
              /\ Len(rest) = Len(Old(k)) - 1
              /\ \A j \in 1 .. Len(Old(k)) - 1 : rest[j] = Old(k)[IF j < i THEN j ELSE j + 1]
              /\ list'[working[k]][status[Task(k)]] = rest
        BY <1>8, DropEffect
      <3>2. Old(k) \in Seq(Entries)
        BY <1>8, DropEffect
      <3>3. Once(t, Old(k))
        BY <1>3, <1>4 DEF Old
      <3> DEFINE old == Old(k)
      <3>4. /\ old \in Seq(Entries) /\ i \in 1 .. Len(old) /\ t = old[i].task /\ Once(t, old)
            /\ Len(rest) = Len(old) - 1
            /\ \A j \in 1 .. Len(old) - 1 : rest[j] = old[IF j < i THEN j ELSE j + 1]
        BY <3>1, <3>2, <3>3
      <3>5. ~In(t, rest) /\ Once(t, rest)
        <4> HIDE DEF old, t
        <4> QED BY <3>4, InWithout
      <3> QED BY <3>1, <3>5
    <2>8. ASSUME NEW l \in Lists, NEW s \in Statuses
          PROVE  Once(t, list'[l][s]) /\ (In(t, list'[l][s]) <=> Expected(t, l, s)')
      <3>1. CASE l = working[k] /\ s = status[t]
        BY <1>2, <2>6, <2>7, <3>1
      <3>2. CASE l # working[k] \/ s # status[t]
        <4>1. list'[l][s] = list[l][s]
          BY <1>8, <3>2, DropEffect
        <4>2. Expected(t, l, s)' <=> Expected(t, l, s)
          BY <1>2, <2>1, <2>4, <2>6, <3>2
        <4> QED BY <1>4, <4>1, <4>2
      <3> QED BY <3>1, <3>2
    <2> QED BY <2>3, <2>5, <2>8
  <1>9. CASE Store(k)
    <2>1. /\ at[k] = "store" /\ Goes(k, "note") /\ status' = [status EXCEPT ![t] = goal[k]]
          /\ UNCHANGED <<list, working, goal>>
      BY <1>9 DEF Store
    <2>2. at'[k] = "note" /\ working[k] = "protocols" /\ status'[t] = goal[k]
      BY <1>0, <2>1, GoesType DEF InSection, CallInv, TypeOK
    <2>3. y # "sync" /\ at[<<t, "sync">>] # "lock" /\ at'[<<t, "sync">>] # "lock"
      BY <1>0, <1>4, <1>6, <2>1 DEF CallInv, Going
    <2>4. Going(t, k)'
      BY <2>1, <2>2, <2>3 DEF Going, Adding, Task
    <2>5. ASSUME NEW l \in Lists PROVE Away(k, l) /\ Away(k, l)'
      BY <2>1, <2>2 DEF Away, Adding
    <2>6. \A l \in Lists, s \in Statuses : ~Expected(t, l, s) /\ ~Expected(t, l, s)'
      BY <1>2, <2>5
    <2> QED BY <1>4, <2>1, <2>3, <2>4, <2>6
  <1>10. CASE Push(k)
    <2>1. /\ at[k] = "push" /\ OtherListOr(k, "note", "done") /\ UNCHANGED <<status, goal>>
      BY <1>10 DEF Push
    <2>2. \/ working[k] = "protocols" /\ at'[k] = "note" /\ working'[k] = "tasks"
          \/ working[k] = "tasks" /\ at'[k] = "done" /\ working'[k] = "protocols"
      BY <1>0, <2>1, OtherListType DEF InSection
    <2>3. at[<<t, "sync">>] # "lock" /\ at'[<<t, "sync">>] # "lock" /\ status[t] = goal[k]
      BY <1>0, <1>4, <1>6, <2>1, <2>2 DEF Going, Adding
    <2>4. ~Unlisted(t) /\ ~Unlisted(t)'
      BY <1>3, <2>1, <2>3 DEF Unlisted, Task
    <2>5. Going(t, k)'
      BY <2>1, <2>2, <2>3 DEF Going, Adding, Task
    <2>6. \A l \in Lists : Away(k, l) <=> Away(k, l)' \/ l = working[k]
      BY <2>1, <2>2 DEF Away, Adding, Lists
    <2>7. \A l \in Lists : l = working[k] => ~Away(k, l)'
      BY <2>1, <2>2 DEF Away, Adding
    <2>8. In(t, list'[working[k]][goal[k]]) /\ Once(t, list'[working[k]][goal[k]])
      <3>1. PICK e \in Entries : e.task = Task(k) /\ list'[working[k]][goal[k]] = Append(New(k), e)
        BY <1>10, PushEffect
      <3>2. New(k) \in Seq(Entries)
        BY <1>10, PushEffect
      <3>3. Once(t, New(k)) /\ ~In(t, New(k))
        BY <1>2, <1>3, <1>4, <2>6 DEF New
      <3>4. In(t, Append(New(k), e)) /\ Once(t, Append(New(k), e))
        BY <3>1, <3>2, <3>3, InPushed
      <3> QED BY <3>1, <3>4
    <2>9. ASSUME NEW l \in Lists, NEW s \in Statuses
          PROVE  Once(t, list'[l][s]) /\ (In(t, list'[l][s]) <=> Expected(t, l, s)')
      <3>1. CASE l = working[k] /\ s = goal[k]
        BY <1>2, <2>1, <2>3, <2>4, <2>7, <2>8, <3>1
      <3>2. CASE l # working[k] \/ s # goal[k]
        <4>1. list'[l][s] = list[l][s]
          BY <1>10, <3>2, PushEffect
        <4>2. Expected(t, l, s)' <=> Expected(t, l, s)
          BY <1>2, <2>1, <2>3, <2>4, <2>6, <3>2
        <4> QED BY <1>4, <4>1, <4>2
      <3> QED BY <3>1, <3>2
    <2> QED BY <2>3, <2>5, <2>9
  <1> QED BY <1>7, <1>8, <1>9, <1>10

\* A task that the core does not have is in no list.
LEMMA PlaceInit == Init => PlaceInv
  <1> SUFFICES ASSUME Init PROVE PlaceInv
    OBVIOUS
  <1> USE CallShape
  <1>1. ASSUME NEW t \in Tasks PROVE PlaceOf(t)
    <2>1. /\ status[t] = "absent" /\ at[<<t, "sync">>] = "idle"
          /\ \A x \in Kinds : at[<<t, x>>] = "idle" /\ working[<<t, x>>] = "protocols"
          /\ \A l \in Lists, s \in Statuses : list[l][s] = <<>>
      BY DEF Init, Kinds
    <2> QED BY <2>1, ValueTypes DEF PlaceOf, Going, Adding, Once, In, Expected, Unlisted
  <1> QED BY <1>1, SectionInit DEF PlaceInv

\* A call begins: the task it brings is listed nowhere before the lock.
LEMMA PlaceBegin ==
    ASSUME PlaceInv, NEW u \in Tasks, Call(u)
    PROVE  PlaceInv'
  <1> USE CallShape
  <1>0. SectionInv /\ Typed /\ TypeOK /\ Known /\ \A k \in Calls : CallInv(k)
    BY DEF PlaceInv, SectionInv, Typed
  <1>1. SectionInv'
    BY <1>0, SectionBegin
  <1>2. PICK y \in Kinds :
          /\ at[<<u, y>>] = "idle" /\ Goes(<<u, y>>, "lock")
          /\ UNCHANGED <<list, working, disturbed>>
          /\ \/ y = "sync" /\ status' = [status EXCEPT ![u] = "waiting"] /\ status[u] = "absent"
                /\ goal' = goal
             \/ /\ y # "sync" /\ status' = status
                /\ \E s \in Statuses : goal' = [goal EXCEPT ![<<u, y>>] = s]
    BY ValueTypes DEF Call, Sync, Finish, Confirm, Settle, Kinds
  <1>3. /\ at'[<<u, y>>] = "lock" /\ working[<<u, y>>] = "protocols"
        /\ \A j \in Calls : j # <<u, y>> => at'[j] = at[j] /\ goal'[j] = goal[j]
    BY <1>0, <1>2, GoesType DEF CallInv, InSection, TypeOK
  <1>4. ASSUME NEW t \in Tasks \ disturbed' PROVE PlaceOf(t)'
    <2>1. PlaceOf(t)
      BY <1>2 DEF PlaceInv
    <2>2. CASE t # u
      <3>1. status'[t] = status[t]
        BY <1>0, <1>2, <2>2 DEF TypeOK
      <3> QED BY <1>2, <1>3, <2>1, <2>2, <3>1, PlaceOther DEF PlaceOf
    <2>3. CASE t = u /\ y # "sync"
      <3>1. Going(t, <<t, y>>)'
        BY <1>2, <1>3, <2>3 DEF Going, Adding
      <3>2. \A l \in Lists : Away(<<t, y>>, l)' <=> Away(<<t, y>>, l)
        BY <1>2, <1>3, <2>3 DEF Away, Adding
      <3> QED BY <1>2, <1>3, <2>1, <2>3, <3>1, <3>2, PlaceOwn
    <2>4. CASE t = u /\ y = "sync"
      <3>1. status[t] = "absent" /\ status'[t] = "waiting" /\ at'[<<t, "sync">>] = "lock"
        BY <1>0, <1>2, <1>3, <2>4 DEF TypeOK
      <3>2. \A x \in Kinds : at[<<t, x>>] = "idle" /\ working[<<t, x>>] = "protocols"
        BY <1>0, <3>1 DEF Known, CallInv, InSection
      <3>3. \A x \in Kinds : at'[<<t, x>>] \in {"idle", "lock"} /\ working'[<<t, x>>] = "protocols"
        BY <1>2, <1>3, <2>4, <3>2
      <3>4. \A x \in Kinds : Going(t, <<t, x>>)'
        BY <3>3 DEF Going, Adding
      <3>5. \A l \in Lists, s \in Statuses : ~Expected(t, l, s) /\ ~Expected(t, l, s)'
        BY <3>1 DEF Expected, Unlisted
      <3> QED BY <1>2, <2>1, <3>1, <3>4, <3>5, PlaceIntro DEF PlaceOf
    <2> QED BY <2>2, <2>3, <2>4
  <1> QED BY <1>1, <1>4 DEF PlaceInv

\* Every step keeps each undisturbed task in its place, or on its way there.
LEMMA PlaceStep == PlaceInv /\ [Next]_vars => PlaceInv'
  <1> SUFFICES ASSUME PlaceInv, [Next]_vars PROVE PlaceInv'
    OBVIOUS
  <1> USE CallShape
  <1>0. SectionInv /\ SectionInv' /\ Typed
    BY SectionStep DEF PlaceInv, SectionInv
  <1>1. ASSUME NEW k \in Calls, Step(k) \/ Fault(k) PROVE PlaceInv'
    <2>1. ASSUME NEW t \in Tasks \ disturbed' PROVE PlaceOf(t)'
      <3>1. PlaceOf(t)
        BY <1>0, <1>1, StepFrame DEF PlaceInv
      <3>2. CASE t # Task(k)
        <4>1. /\ status'[t] = status[t]
              /\ \A l \in Lists, s \in Statuses :
                   Once(t, list'[l][s]) /\ (In(t, list'[l][s]) <=> In(t, list[l][s]))
          BY <1>0, <1>1, <3>1, <3>2, OtherEntries DEF PlaceOf
        <4>2. \A x \in Kinds : <<t, x>> \in Calls /\ <<t, x>> # k
          BY <3>2
        <4>3. \A x \in Kinds : /\ at'[<<t, x>>] = at[<<t, x>>] /\ goal'[<<t, x>>] = goal[<<t, x>>]
                               /\ working'[<<t, x>>] = working[<<t, x>>]
          BY <1>0, <1>1, <4>2, StepFrame
        <4> QED BY <3>1, <4>1, <4>3, PlaceOther
      <3>3. CASE t = Task(k)
        <4>1. CASE NotFound(k) \/ Fault(k)
          <5>1. ~HalfDone(k)
            BY <1>0, <3>3, <4>1, FailsType DEF NotFound, Fault, Typed
          <5>2. PlaceOf(Task(k))'
            BY <1>0, <3>1, <3>3, <4>1, <5>1, PlaceStays
          <5> QED BY <3>3, <5>2 DEF PlaceOf, Task
        <4>2. CASE ~(NotFound(k) \/ Fault(k))
          <5>1. PlaceOf(Task(k))'
            BY <1>0, <1>1, <3>1, <3>3, <4>2, PlaceStays, PlaceMoves DEF Step
          <5> QED BY <3>3, <5>1 DEF PlaceOf, Task
        <4> QED BY <4>1, <4>2
      <3> QED BY <3>2, <3>3
    <2> QED BY <1>0, <2>1 DEF PlaceInv
  <1>2. CASE UNCHANGED vars
    <2>1. ASSUME NEW t \in Tasks \ disturbed' PROVE PlaceOf(t)'
      <3>1. PlaceOf(t) /\ UNCHANGED <<status, list, at, goal, working>>
        BY <1>2 DEF PlaceInv, vars
      <3> QED BY <3>1, PlaceOther DEF PlaceOf
    <2> QED BY <1>0, <2>1 DEF PlaceInv
  <1> QED BY <1>1, <1>2, PlaceBegin DEF Next

\* Where the invariant says that a list has the task once, one entry is counted.
LEMMA PlacesCounted ==
    ASSUME NEW k \in Calls, NEW q \in Seq(Entries), Once(Task(k), q)
    PROVE  Cardinality(Places(k, q)) = IF In(Task(k), q) THEN 1 ELSE 0
  <1>1. CASE In(Task(k), q)
    <2>1. PICK i \in 1 .. Len(q) : q[i].task = Task(k)
      BY <1>1 DEF In
    <2>2. Places(k, q) = {i}
      BY <2>1 DEF Places, Once
    <2> QED BY <1>1, <2>2, FS_Singleton
  <1>2. CASE ~In(Task(k), q)
    <2>1. Places(k, q) = {}
      BY <1>2 DEF Places, In
    <2> QED BY <1>2, <2>1, FS_EmptySet
  <1> QED BY <1>1, <1>2

\* Whatever the calls of the other tasks do to the same lists, and wherever they
\* stop: a task none of whose own calls stopped half-way is, when none of them
\* is under the mutex, once in each of the two lists of its status and in no
\* other.
THEOREM UndisturbedInPlaceCorrect == Spec => []UndisturbedInPlace
  <1>1. ASSUME PlaceInv PROVE UndisturbedInPlace
    <2> USE CallShape
    <2>1. ASSUME NEW t \in Tasks \ disturbed, ~Active(t), NEW l \in Lists, NEW s \in Statuses
          PROVE  Cardinality(Places(<<t, "sync">>, list[l][s]))
                   = IF s = status[t] /\ ~Unlisted(t) THEN 1 ELSE 0
      <3>1. Once(t, list[l][s]) /\ (In(t, list[l][s]) <=> Expected(t, l, s))
        BY <1>1 DEF PlaceInv, PlaceOf
      <3>2. \A x \in Kinds : ~Away(<<t, x>>, l)
        BY <2>1 DEF Active, Away, Adding, InSection
      <3>3. In(t, list[l][s]) <=> s = status[t] /\ ~Unlisted(t)
        BY <3>1, <3>2 DEF Expected
      <3>4. list[l][s] \in Seq(Entries)
        BY <1>1 DEF PlaceInv, SectionInv, Typed, TypeOK
      <3>5. <<t, "sync">> \in Calls /\ Task(<<t, "sync">>) = t
        BY DEF Kinds
      <3>6. Cardinality(Places(<<t, "sync">>, list[l][s])) = IF In(t, list[l][s]) THEN 1 ELSE 0
        BY <3>1, <3>4, <3>5, PlacesCounted
      <3> QED BY <3>3, <3>6
    <2> QED BY <2>1 DEF UndisturbedInPlace, InPlace
  <1> QED BY <1>1, PlaceInit, PlaceStep, PTL DEF Spec
===============================================================================
