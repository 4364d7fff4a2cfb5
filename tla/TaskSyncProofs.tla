---------------------------- MODULE TaskSyncProofs ----------------------------
(***************************************************************************)
(* Proofs about TaskSync, for every number of participants and whatever    *)
(* decisions the create request carries, with and without the agreement,   *)
(* lost calls, sections that are cut off, and expiry; then about           *)
(* TaskRestart, for every number of restarts as well.                      *)
(***************************************************************************)
EXTENDS TaskRestart, FiniteSetTheorems, TLAPS

\* Every call goes to a participant, and the calls the actions name are calls.
LEMMA CallShape ==
    /\ \A c \in Calls : To(c) \in Parts
    /\ \A i \in Others : CreateCall(i) \in Calls /\ ConfirmCall(i) \in Calls
    /\ \A p, i \in Others : BcastCall(p, i) \in Calls
    /\ 0 \in Parts
    /\ Others \subseteq Parts
    BY NAssumption DEF Calls, CreateCall, ConfirmCall, BcastCall, To, Parts, Others

\* The call kinds do not overlap.
LEMMA CallKinds ==
    \A p, i, q, j \in Others :
        /\ CreateCall(i) # ConfirmCall(p)
        /\ CreateCall(i) # BcastCall(q, j)
        /\ ConfirmCall(p) # BcastCall(q, j)
        /\ (CreateCall(p) = CreateCall(i)) => p = i
        /\ (ConfirmCall(p) = ConfirmCall(i)) => p = i
        /\ (BcastCall(p, i) = BcastCall(q, j)) => p = q /\ i = j
        /\ To(CreateCall(i)) = i /\ To(ConfirmCall(p)) = 0 /\ To(BcastCall(p, i)) = i
        /\ p # 0
  BY DEF CreateCall, ConfirmCall, BcastCall, To, Others

\* The inter-core calls of a task are of three kinds.
LEMMA CallCases ==
    \A c \in Calls : \/ \E i \in Others : c = CreateCall(i)
                     \/ \E p \in Others : c = ConfirmCall(p)
                     \/ \E p, i \in Others : c = BcastCall(p, i)
  BY DEF Calls

\* What is added to and taken from the lists leaves them of their type.
LEMMA ListsType ==
    ASSUME TypeOK, NEW p \in Parts, NEW s \in Statuses
    PROVE  /\ Add(p, s) => /\ listed' \in [Parts -> [Statuses -> Nat]]
                           /\ announced' \in [Parts -> [Statuses -> Nat]]
           /\ ChangeStatus(p, s) => /\ listed' \in [Parts -> [Statuses -> Nat]]
                                    /\ announced' \in [Parts -> [Statuses -> Nat]]
                                    /\ status' \in [Parts -> Statuses \cup {"absent"}]
  <1>1. /\ listed[p][s] \in Nat /\ announced[p][s] \in Nat
        /\ listed[p] \in [Statuses -> Nat] /\ announced[p] \in [Statuses -> Nat]
    BY DEF TypeOK
  <1>2. ASSUME Add(p, s)
        PROVE  /\ listed' \in [Parts -> [Statuses -> Nat]]
               /\ announced' \in [Parts -> [Statuses -> Nat]]
    BY <1>1, <1>2 DEF Add, TypeOK
  <1>3. ASSUME ChangeStatus(p, s)
        PROVE  /\ listed' \in [Parts -> [Statuses -> Nat]]
               /\ announced' \in [Parts -> [Statuses -> Nat]]
               /\ status' \in [Parts -> Statuses \cup {"absent"}]
    <2> DEFINE new == [t \in Statuses |-> (listed[p][t] - (IF t = status[p] THEN 1 ELSE 0))
                                            + (IF t = s THEN 1 ELSE 0)]
    <2>1. listed[p][status[p]] > 0
      BY <1>3 DEF ChangeStatus, Removable
    <2>2. ASSUME NEW t \in Statuses PROVE new[t] \in Nat
      <3>1. listed[p][t] \in Nat
        BY <1>1
      <3>2. CASE t = status[p]
        BY <2>1, <3>1, <3>2
      <3>3. CASE t # status[p]
        BY <3>1, <3>3
      <3> QED BY <3>2, <3>3
    <2>3. new \in [Statuses -> Nat]
      BY <2>2
    <2>4. listed' = [listed EXCEPT ![p] = new]
      BY <1>3 DEF ChangeStatus
    <2> HIDE DEF new
    <2>5. listed' \in [Parts -> [Statuses -> Nat]]
      BY <2>3, <2>4 DEF TypeOK
    <2>6. announced' \in [Parts -> [Statuses -> Nat]]
      BY <1>1, <1>3 DEF ChangeStatus, TypeOK
    <2>7. status' \in [Parts -> Statuses \cup {"absent"}]
      BY <1>3 DEF ChangeStatus, TypeOK
    <2> QED BY <2>5, <2>6, <2>7
  <1> QED BY <1>2, <1>3

\* So does a section that is cut off.
LEMMA CutType ==
    ASSUME TypeOK, NEW p \in Parts, NEW s \in Statuses, NEW d \in [Parts -> Decisions]
    PROVE  /\ CutAdd(p, s) => /\ listed' \in [Parts -> [Statuses -> Nat]]
                              /\ announced' \in [Parts -> [Statuses -> Nat]]
                              /\ cut' \subseteq Parts
           /\ CutStatus(p, s, d) => /\ listed' \in [Parts -> [Statuses -> Nat]]
                                    /\ announced' \in [Parts -> [Statuses -> Nat]]
                                    /\ status' \in [Parts -> Statuses \cup {"absent"}]
                                    /\ decisions' \in [Parts -> [Parts -> Decisions]]
                                    /\ cut' \subseteq Parts
  <1>1. /\ announced[p][s] \in Nat /\ announced[p] \in [Statuses -> Nat]
        /\ [announced EXCEPT ![p][s] = @ + 1] \in [Parts -> [Statuses -> Nat]]
    BY DEF TypeOK
  <1>2. CutAdd(p, s) => /\ listed' \in [Parts -> [Statuses -> Nat]]
                        /\ announced' \in [Parts -> [Statuses -> Nat]]
                        /\ cut' \subseteq Parts
    BY <1>1 DEF CutAdd, TypeOK
  <1>3. ASSUME CutStatus(p, s, d)
        PROVE  /\ listed' \in [Parts -> [Statuses -> Nat]]
               /\ announced' \in [Parts -> [Statuses -> Nat]]
               /\ status' \in [Parts -> Statuses \cup {"absent"}]
               /\ decisions' \in [Parts -> [Parts -> Decisions]]
               /\ cut' \subseteq Parts
    <2>1. listed' \in [Parts -> [Statuses -> Nat]]
      <3>1. status[p] \in Statuses /\ listed[p][status[p]] - 1 \in Nat
        BY <1>3 DEF CutStatus, Removable, TypeOK
      <3>2. listed' \in {listed, [listed EXCEPT ![p][status[p]] = @ - 1]}
        BY <1>3 DEF CutStatus
      <3> QED BY <3>1, <3>2 DEF TypeOK
    <2>2. announced' \in [Parts -> [Statuses -> Nat]]
      BY <1>1, <1>3 DEF CutStatus, TypeOK
    <2>3. /\ status' \in {status, [status EXCEPT ![p] = s]}
          /\ decisions' \in {decisions, [decisions EXCEPT ![p] = d]}
          /\ cut' = cut \cup {p}
      BY <1>3 DEF CutStatus
    <2>4. status' \in [Parts -> Statuses \cup {"absent"}]
      BY <2>3 DEF TypeOK
    <2>5. /\ decisions \in [Parts -> [Parts -> Decisions]]
          /\ cut \subseteq Parts
      BY DEF TypeOK
    <2>6. decisions' \in [Parts -> [Parts -> Decisions]]
      BY <2>3, <2>5
    <2>7. cut' \subseteq Parts
      BY <2>3, <2>5
    <2> QED BY <2>1, <2>2, <2>4, <2>6, <2>7
  <1> QED BY <1>2, <1>3

\* A reply moves its call to a final phase.
LEMMA ReplyType ==
    ASSUME TypeOK, NEW c \in Calls, Reply(c)
    PROVE  /\ phase' \in [Calls -> Phases]
           /\ phase'[c] \in {"ok", "failed"}
           /\ \A x \in Calls : x # c => phase'[x] = phase[x]
  <1>1. PICK r \in Outcomes : phase' = [phase EXCEPT ![c] = r]
    BY DEF Reply
  <1>2. r \in {"ok", "failed"}
    BY DEF Outcomes
  <1> QED BY <1>1, <1>2 DEF TypeOK, Phases

\* The statuses and decisions the handlers compute are of their types.
LEMMA ValueTypes ==
    /\ FirstStatus \in {"approved", "started"}
    /\ NoDecisions \in [Parts -> Decisions]
    /\ \A d \in Signable : StatusOf(d) \in {"approved", "rejected", "ignored"}
    /\ \A c \in Calls : SettledAs(c) \in {"rejected", "started"}
    /\ TypeOK => /\ FirstDecisions \in [Parts -> Decisions]
                 /\ \A c \in Calls : Merged(c) \in [Parts -> Decisions]
                 /\ \A p \in Others, d \in Signable :
                      /\ Mine(p, d) \in [Parts -> Decisions]
                      /\ ConfirmedAs(p, d) \in {"started", "approved", "rejected", "ignored"}
  <1>1. FirstStatus \in {"approved", "started"} /\ \A c \in Calls : SettledAs(c) \in {"rejected", "started"}
    BY DEF FirstStatus, SettledAs
  <1>2. NoDecisions \in [Parts -> Decisions]
    BY DEF NoDecisions, Decisions
  <1>3. \A d \in Signable : StatusOf(d) \in {"approved", "rejected", "ignored"}
    BY DEF StatusOf, Signable
  <1>4. TypeOK => FirstDecisions \in [Parts -> Decisions]
    BY DEF TypeOK, Requests, FirstDecisions, Decisions, Signable
  <1>5. TypeOK => \A c \in Calls : Merged(c) \in [Parts -> Decisions]
    BY CallShape DEF TypeOK, Merged
  <1>6. TypeOK => \A p \in Others, d \in Signable : Mine(p, d) \in [Parts -> Decisions]
    BY CallShape DEF TypeOK, Mine, Decisions
  <1>7. \A p \in Others, d \in Signable :
          ConfirmedAs(p, d) \in {"started", "approved", "rejected", "ignored"}
    BY <1>3 DEF ConfirmedAs
  <1> QED BY <1>1, <1>2, <1>3, <1>4, <1>5, <1>6, <1>7

\* The type invariant of the task's state, kept by every step of a core.
LEMMA TypeStep == TypeOK /\ [Next]_vars => TypeOK'
  <1> SUFFICES ASSUME TypeOK, [Next]_vars PROVE TypeOK'
    OBVIOUS
  <1> USE CallShape, ValueTypes
  <1>1. CASE CreateTask
    BY <1>1 DEF CreateTask, TypeOK, Statuses
  <1>2. ASSUME NEW i \in Others, CreateSend(i) PROVE TypeOK'
    BY <1>2 DEF CreateSend, TypeOK, task, Phases
  <1>3. CASE CreateFail
    BY <1>3 DEF CreateFail, TypeOK, task
  <1>4. CASE CreateList
    <2>1. FirstStatus \in Statuses /\ Add(0, FirstStatus)
      BY <1>4 DEF CreateList, Statuses
    <2>2. /\ listed' \in [Parts -> [Statuses -> Nat]]
          /\ announced' \in [Parts -> [Statuses -> Nat]]
      BY <2>1, ListsType
    <2> QED BY <1>4, <2>2 DEF CreateList, TypeOK
  <1>5. ASSUME NEW p \in Others, NEW d \in Signable, ConfirmTask(p, d)
        PROVE  TypeOK'
    <2>1. /\ Mine(p, d) \in [Parts -> Decisions]
          /\ ConfirmedAs(p, d) \in Statuses /\ ChangeStatus(p, ConfirmedAs(p, d))
      BY <1>5 DEF ConfirmTask, Statuses
    <2>2. /\ listed' \in [Parts -> [Statuses -> Nat]]
          /\ announced' \in [Parts -> [Statuses -> Nat]]
          /\ status' \in [Parts -> Statuses \cup {"absent"}]
      BY <2>1, ListsType
    <2>3. /\ decisions' = [decisions EXCEPT ![p] = Mine(p, d)]
          /\ \/ /\ phase' = [phase EXCEPT ![ConfirmCall(p)] = "sent"]
                /\ payload' = [payload EXCEPT ![ConfirmCall(p)] = Mine(p, d)]
             \/ UNCHANGED <<phase, payload>>
          /\ UNCHANGED <<creating, verdict, expired, filled, cut>>
      BY <1>5 DEF ConfirmTask
    <2>4. "sent" \in Phases
      BY DEF Phases
    <2>5. /\ decisions' \in [Parts -> [Parts -> Decisions]]
          /\ phase' \in [Calls -> Phases]
      <3>1. decisions' \in [Parts -> [Parts -> Decisions]]
        BY <2>1, <2>3 DEF TypeOK
      <3>2. phase' \in [Calls -> Phases]
        BY <2>3, <2>4 DEF TypeOK
      <3> QED BY <3>1, <3>2
    <2>6. payload' \in [Calls -> [Parts -> Decisions]]
      BY <2>1, <2>3 DEF TypeOK
    <2> QED BY <2>2, <2>3, <2>5, <2>6 DEF TypeOK
  <1>6. ASSUME NEW p \in Parts, FinishTask(p) PROVE TypeOK'
    <2>1. "finished" \in Statuses /\ ChangeStatus(p, "finished")
      BY <1>6 DEF FinishTask, Statuses
    <2>2. /\ listed' \in [Parts -> [Statuses -> Nat]]
          /\ announced' \in [Parts -> [Statuses -> Nat]]
          /\ status' \in [Parts -> Statuses \cup {"absent"}]
      BY <2>1, ListsType
    <2> QED BY <1>6, <2>2 DEF FinishTask, TypeOK
  <1>7. ASSUME NEW c \in Calls, SyncNew(c) PROVE TypeOK'
    BY <1>7 DEF SyncNew, TypeOK, Phases, Statuses
  <1>8. ASSUME NEW c \in Calls, SyncList(c) PROVE TypeOK'
    <2>1. "waiting" \in Statuses /\ Add(To(c), "waiting") /\ Reply(c)
      BY <1>8 DEF SyncList, Statuses
    <2>2. /\ listed' \in [Parts -> [Statuses -> Nat]]
          /\ announced' \in [Parts -> [Statuses -> Nat]]
          /\ phase' \in [Calls -> Phases]
      BY <2>1, ListsType, ReplyType
    <2> QED BY <1>8, <2>2 DEF SyncList, TypeOK
  <1>9. ASSUME NEW c \in Calls, SyncMerge(c) PROVE TypeOK'
    <2>1. phase' \in [Calls -> Phases]
      <3>1. CASE Settles(c)
        BY <1>9, <3>1 DEF SyncMerge, TypeOK, Phases
      <3>2. CASE ~Settles(c)
        BY <1>9, <3>2, ReplyType DEF SyncMerge
      <3> QED BY <3>1, <3>2
    <2>2. verdict' \in [Calls -> BOOLEAN]
      BY <1>9 DEF SyncMerge, TypeOK, AnyReject
    <2>3. decisions' \in [Parts -> [Parts -> Decisions]]
      BY <1>9 DEF SyncMerge, TypeOK
    <2> QED BY <1>9, <2>1, <2>2, <2>3 DEF SyncMerge, TypeOK
  <1>10. ASSUME NEW c \in Calls, SyncRefuse(c) PROVE TypeOK'
    BY <1>10 DEF SyncRefuse, TypeOK, task, Phases
  <1>11. ASSUME NEW c \in Calls, Decide(c) PROVE TypeOK'
    <2>1. SettledAs(c) \in Statuses /\ ChangeStatus(To(c), SettledAs(c))
      BY <1>11 DEF Decide, Statuses
    <2>2. /\ listed' \in [Parts -> [Statuses -> Nat]]
          /\ announced' \in [Parts -> [Statuses -> Nat]]
          /\ status' \in [Parts -> Statuses \cup {"absent"}]
      BY <2>1, ListsType
    <2>3. phase' \in [Calls -> Phases] /\ payload' \in [Calls -> [Parts -> Decisions]]
      <3>1. CASE Broadcasts(c)
        <4>1. /\ phase' = [phase EXCEPT ![c] = "bcast"]
              /\ payload' = [x \in Calls |-> IF x[1] = "bcast" /\ x[2] = c[2]
                                             THEN decisions[0] ELSE payload[x]]
          BY <1>11, <3>1 DEF Decide
        <4>2. decisions[0] \in [Parts -> Decisions] /\ payload \in [Calls -> [Parts -> Decisions]]
          BY DEF TypeOK
        <4>3. payload' \in [Calls -> [Parts -> Decisions]]
          BY <4>1, <4>2
        <4> QED BY <4>1, <4>3 DEF TypeOK, Phases
      <3>2. CASE ~Broadcasts(c)
        BY <1>11, <3>2, ReplyType DEF Decide, TypeOK
      <3> QED BY <3>1, <3>2
    <2> QED BY <1>11, <2>2, <2>3 DEF Decide, TypeOK
  <1>12. ASSUME NEW c \in Calls, DecideFail(c) PROVE TypeOK'
    BY <1>12 DEF DecideFail, TypeOK, task, Phases
  <1>13. ASSUME NEW p \in Others, NEW i \in Others, BcastSend(p, i) PROVE TypeOK'
    BY <1>13 DEF BcastSend, TypeOK, task, Phases
  <1>14. ASSUME NEW p \in Others, BcastDone(p) PROVE TypeOK'
    BY <1>14, ReplyType DEF BcastDone, TypeOK, task
  <1>15. ASSUME NEW p \in Others, BcastFail(p) PROVE TypeOK'
    BY <1>15 DEF BcastFail, TypeOK, task, Phases
  <1>16. ASSUME NEW c \in Calls, Lose(c) PROVE TypeOK'
    BY <1>16 DEF Lose, TypeOK, task, Phases
  <1>17. ASSUME NEW p \in Parts, Expire(p) PROVE TypeOK'
    BY <1>17 DEF Expire, TypeOK, task
  <1>18. CASE UNCHANGED vars
    BY <1>18 DEF vars, TypeOK
  <1>19. CASE CreateListCut
    <2>1. FirstStatus \in Statuses /\ CutAdd(0, FirstStatus)
      BY <1>19 DEF CreateListCut, Statuses
    <2>2. /\ listed' \in [Parts -> [Statuses -> Nat]]
          /\ announced' \in [Parts -> [Statuses -> Nat]] /\ cut' \subseteq Parts
      BY <2>1, CutType
    <2> QED BY <1>19, <2>2 DEF CreateListCut, TypeOK
  <1>20. ASSUME NEW c \in Calls, SyncListCut(c) PROVE TypeOK'
    <2>1. "waiting" \in Statuses /\ CutAdd(To(c), "waiting")
      BY <1>20 DEF SyncListCut, Statuses
    <2>2. /\ listed' \in [Parts -> [Statuses -> Nat]]
          /\ announced' \in [Parts -> [Statuses -> Nat]] /\ cut' \subseteq Parts
      BY <2>1, CutType
    <2> QED BY <1>20, <2>2 DEF SyncListCut, TypeOK, Phases
  <1>21. ASSUME NEW p \in Parts, NEW s \in Statuses, NEW d \in [Parts -> Decisions],
                CutStatus(p, s, d), phase' \in [Calls -> Phases],
                UNCHANGED <<creating, payload, verdict, expired, filled>>
         PROVE  TypeOK'
    BY <1>21, CutType DEF TypeOK
  <1>22. ASSUME NEW p \in Others, NEW d \in Signable, ConfirmCut(p, d) PROVE TypeOK'
    <2>1. Mine(p, d) \in [Parts -> Decisions] /\ ConfirmedAs(p, d) \in Statuses
      BY DEF Statuses
    <2> QED BY <1>21, <1>22, <2>1 DEF ConfirmCut, TypeOK
  <1>23. ASSUME NEW p \in Parts, FinishCut(p) PROVE TypeOK'
    <2>1. decisions[p] \in [Parts -> Decisions] /\ "finished" \in Statuses
      BY DEF TypeOK, Statuses
    <2> QED BY <1>21, <1>23, <2>1 DEF FinishCut, TypeOK
  <1>24. ASSUME NEW c \in Calls, DecideCut(c) PROVE TypeOK'
    <2>1. decisions[To(c)] \in [Parts -> Decisions] /\ SettledAs(c) \in Statuses
      BY DEF TypeOK, Statuses
    <2>2. phase' \in [Calls -> Phases]
      BY <1>24 DEF DecideCut, TypeOK, Phases
    <2> QED BY <1>21, <1>24, <2>1, <2>2 DEF DecideCut
  <1> QED BY <1>1, <1>2, <1>3, <1>4, <1>5, <1>6, <1>7, <1>8, <1>9, <1>10, <1>11, <1>12,
             <1>13, <1>14, <1>15, <1>16, <1>17, <1>18, <1>19, <1>20, <1>22, <1>23, <1>24
          DEF Next, Creation, Handler, Broadcast, User

\* The state of the task always has its type.
THEOREM TypeCorrect == Spec => []TypeOK
  <1>1. Init => TypeOK
    BY ValueTypes DEF Init, TypeOK, NoEntries, Phases
  <1> QED BY <1>1, TypeStep, PTL DEF Spec

-------------------------------------------------------------------------------
(***************************************************************************)
(* The steps that change the task, as its decisions and statuses see them: *)
(* a section that a cut ends after the store does to them what the whole   *)
(* one does.                                                               *)
(***************************************************************************)

\* The user of p confirms.
Confirms(p, d) ==
    /\ status[p] = "waiting"
    /\ status' = [status EXCEPT ![p] = ConfirmedAs(p, d)]
    /\ decisions' = [decisions EXCEPT ![p] = Mine(p, d)]
    /\ \/ UNCHANGED <<phase, payload>>
       \/ /\ RequireAgreement /\ d # "ignore"
          /\ phase' = [phase EXCEPT ![ConfirmCall(p)] = "sent"]
          /\ payload' = [payload EXCEPT ![ConfirmCall(p)] = Mine(p, d)]
    /\ UNCHANGED <<creating, verdict, filled>>

\* The user of p finishes the task.
Finishes(p) ==
    /\ status[p] = "started"
    /\ status' = [status EXCEPT ![p] = "finished"]
    /\ UNCHANGED <<decisions, creating, phase, payload, verdict, filled>>

\* The handler of c settles the task.
DecidesOn(c) ==
    /\ phase[c] = "decide"
    /\ status[To(c)] \in Statuses
    /\ status' = [status EXCEPT ![To(c)] = SettledAs(c)]
    /\ \A x \in Calls : x # c => phase'[x] = phase[x]
    /\ \/ /\ phase'[c] \in {"ok", "failed"}
          /\ UNCHANGED payload
       \/ /\ Broadcasts(c) /\ phase'[c] = "bcast"
          /\ payload' = [x \in Calls |-> IF x[1] = "bcast" /\ x[2] = c[2]
                                         THEN decisions[0] ELSE payload[x]]
    /\ UNCHANGED <<decisions, creating, verdict, filled>>

\* A call moves forward, or is given up, and the task stays as it is.
Quiet ==
    /\ UNCHANGED <<status, decisions, payload, verdict, filled>>
    /\ creating' = "idle" <=> creating = "idle"
    /\ \A c \in Calls : phase'[c] \in {"decide", "bcast"} => phase'[c] = phase[c]
    /\ \A c \in Calls : phase'[c] # "none" =>
          phase[c] # "none" \/ \E p, i \in Others : c = BcastCall(p, i) /\ phase[ConfirmCall(p)] = "bcast"

\* A section that is cut off either has not stored the task or has.
LEMMA CutStored ==
    ASSUME TypeOK, NEW p \in Parts, NEW s, NEW d, CutStatus(p, s, d)
    PROVE  \/ UNCHANGED <<status, decisions, announced>>
           \/ /\ status[p] \in Statuses
              /\ status' = [status EXCEPT ![p] = s]
              /\ decisions' = [decisions EXCEPT ![p] = d]
              /\ \/ UNCHANGED announced
                 \/ announced' = [announced EXCEPT ![p][s] = @ + 1]
  BY DEF CutStatus, Removable

\* What the steps of a core, a user or the network may do.
StepKind ==
    \/ CreateTask
    \/ \E i \in Others : CreateSend(i)
    \/ \E p \in Others, d \in Signable : Confirms(p, d)
    \/ \E p \in Parts : Finishes(p)
    \/ \E c \in Calls : SyncNew(c) \/ SyncMerge(c) \/ DecidesOn(c)
    \/ Quiet

\* The steps that only move a call forward, or give it up.
LEMMA QuietSteps ==
    ASSUME TypeOK,
           \/ CreateFail \/ CreateList \/ CreateListCut
           \/ \E c \in Calls : \/ SyncList(c) \/ SyncRefuse(c) \/ DecideFail(c) \/ Lose(c)
                               \/ SyncListCut(c)
           \/ \E p \in Others : Broadcast(p)
           \/ \E p \in Parts : Expire(p)
           \/ UNCHANGED vars
    PROVE  Quiet
  <1> USE CallShape
  <1>1. CASE CreateFail \/ CreateList \/ CreateListCut
    BY <1>1 DEF CreateFail, CreateList, CreateListCut, task, Quiet
  <1>2. ASSUME NEW c \in Calls, SyncList(c) PROVE Quiet
    <2>1. /\ phase[c] = "listing" /\ phase'[c] \in {"ok", "failed"}
          /\ \A x \in Calls : x # c => phase'[x] = phase[x]
      BY <1>2, ReplyType DEF SyncList
    <2> QED BY <1>2, <2>1 DEF SyncList, Quiet
  <1>3. ASSUME NEW c \in Calls, SyncRefuse(c) \/ DecideFail(c) \/ Lose(c) \/ SyncListCut(c)
        PROVE  Quiet
    BY <1>3 DEF SyncRefuse, DecideFail, Lose, SyncListCut, CutAdd, task, TypeOK, Quiet
  <1>4. ASSUME NEW p \in Others, Broadcast(p) PROVE Quiet
    <2>0. phase[ConfirmCall(p)] = "bcast" /\ UNCHANGED <<task, creating, payload, verdict, filled>>
      BY <1>4 DEF Broadcast, BcastDone, BcastFail, BcastSend
    <2>1. CASE BcastDone(p) \/ BcastFail(p)
      <3>1. /\ phase'[ConfirmCall(p)] \in {"ok", "failed"}
            /\ \A x \in Calls : x # ConfirmCall(p) => phase'[x] = phase[x]
        BY <2>1, ReplyType DEF BcastDone, BcastFail, TypeOK
      <3> QED BY <2>0, <3>1 DEF task, Quiet
    <2>2. ASSUME NEW i \in Others, BcastSend(p, i) PROVE Quiet
      <3>1. /\ phase'[BcastCall(p, i)] = "sent"
            /\ \A x \in Calls : x # BcastCall(p, i) => phase'[x] = phase[x]
        BY <2>2 DEF BcastSend, TypeOK
      <3> QED BY <2>0, <3>1 DEF task, Quiet
    <2> QED BY <1>4, <2>1, <2>2 DEF Broadcast
  <1>5. CASE UNCHANGED vars \/ \E p \in Parts : Expire(p)
    BY <1>5 DEF Expire, vars, task, Quiet
  <1> QED BY <1>1, <1>2, <1>3, <1>4, <1>5

\* _confirm_task, to its end or to a cut.
LEMMA ConfirmKind ==
    ASSUME TypeOK, NEW p \in Others, NEW d \in Signable, ConfirmTask(p, d) \/ ConfirmCut(p, d)
    PROVE  Quiet \/ Confirms(p, d)
  <1>1. CASE ConfirmTask(p, d)
    BY <1>1 DEF ConfirmTask, Confirmable, ChangeStatus, Confirms
  <1>2. CASE ConfirmCut(p, d)
    BY <1>2, CutStored, CallShape DEF ConfirmCut, Confirmable, Confirms, Quiet
  <1> QED BY <1>1, <1>2

\* _finish_task.
LEMMA FinishKind ==
    ASSUME TypeOK, NEW p \in Parts, FinishTask(p) \/ FinishCut(p)
    PROVE  Quiet \/ Finishes(p)
  <1>1. CASE FinishTask(p)
    BY <1>1 DEF FinishTask, ChangeStatus, Finishes
  <1>2. CASE FinishCut(p)
    <2>1. [decisions EXCEPT ![p] = decisions[p]] = decisions
      BY DEF TypeOK
    <2> QED BY <1>2, <2>1, CutStored DEF FinishCut, Finishes, Quiet
  <1> QED BY <1>1, <1>2

\* The second section of the handler, to its end ...
LEMMA DecidedOn ==
    ASSUME TypeOK, NEW c \in Calls, Decide(c)
    PROVE  DecidesOn(c)
  <1> USE CallShape
  <1>1. CASE Broadcasts(c)
    BY <1>1 DEF Decide, ChangeStatus, Removable, DecidesOn, TypeOK
  <1>2. CASE ~Broadcasts(c)
    BY <1>2, ReplyType DEF Decide, ChangeStatus, Removable, DecidesOn
  <1> QED BY <1>1, <1>2

\* ... or to a cut.
LEMMA DecideKind ==
    ASSUME TypeOK, NEW c \in Calls, Decide(c) \/ DecideCut(c)
    PROVE  Quiet \/ DecidesOn(c)
  <1> USE CallShape
  <1>1. CASE Decide(c)
    BY <1>1, DecidedOn
  <1>2. CASE DecideCut(c)
    <2>1. [decisions EXCEPT ![To(c)] = decisions[To(c)]] = decisions
      BY DEF TypeOK
    <2>2. /\ phase[c] = "decide" /\ phase'[c] = "failed"
          /\ \A x \in Calls : x # c => phase'[x] = phase[x]
          /\ UNCHANGED <<creating, payload, verdict, filled>>
      BY <1>2 DEF DecideCut, TypeOK
    <2>3. CutStatus(To(c), SettledAs(c), decisions[To(c)])
      BY <1>2 DEF DecideCut
    <2>4. CASE UNCHANGED <<status, decisions, announced>>
      BY <2>2, <2>4 DEF Quiet
    <2>5. CASE /\ status[To(c)] \in Statuses
               /\ status' = [status EXCEPT ![To(c)] = SettledAs(c)]
               /\ decisions' = [decisions EXCEPT ![To(c)] = decisions[To(c)]]
      BY <2>1, <2>2, <2>5 DEF DecidesOn
    <2> QED BY <2>3, <2>4, <2>5, CutStored
  <1> QED BY <1>1, <1>2

\* Each step is of one of the kinds.
LEMMA StepKinds == TypeOK /\ [Next]_vars => StepKind
  <1> SUFFICES ASSUME TypeOK, [Next]_vars PROVE StepKind
    OBVIOUS
  <1> USE CallShape DEF StepKind
  <1>1. CASE \/ CreateFail \/ CreateList \/ CreateListCut
             \/ \E c \in Calls : \/ SyncList(c) \/ SyncRefuse(c) \/ DecideFail(c) \/ Lose(c)
                                 \/ SyncListCut(c)
             \/ \E p \in Others : Broadcast(p)
             \/ \E p \in Parts : Expire(p)
             \/ UNCHANGED vars
    BY <1>1, QuietSteps
  <1>2. CASE \E p \in Parts : User(p)
    BY <1>2, ConfirmKind, FinishKind DEF User
  <1>3. CASE \E c \in Calls : Decide(c) \/ DecideCut(c)
    BY <1>3, DecideKind
  <1>4. CASE CreateTask \/ (\E i \in Others : CreateSend(i)) \/ \E c \in Calls : SyncNew(c) \/ SyncMerge(c)
    BY <1>4
  <1> QED BY <1>1, <1>2, <1>3, <1>4 DEF Next, Creation, Handler

-------------------------------------------------------------------------------
(***************************************************************************)
(* The inductive invariant.  Agreement alone is not inductive: a handler   *)
(* settles a task on a verdict it computed in an earlier section, from     *)
(* decisions that had travelled in messages, so the invariant follows a    *)
(* decision from the participant who signs it (NotYetSigned) through       *)
(* stores and messages (DecisionsGenuine) to the verdict (VerdictSound)    *)
(* and the status (Justified).  ClaimInv says how far a decision that the  *)
(* create request brought can get.  CallOrder and ListsOf tie the lists to *)
(* the calls they depend on.                                               *)
(***************************************************************************)

\* What makes participant p count q's approval.
Backed(p, q) == Own(q) = "approve" \/ (p # 0 /\ q # p /\ filled[q] = "unsigned_approve")

\* The decisions of the participants justify the status of p's core.
Justified(p) ==
    /\ status[p] \in {"started", "finished"} =>
         IF RequireAgreement THEN \A q \in Parts : Backed(p, q) ELSE Own(p) = "approve"
    /\ status[p] = "rejected" =>
         IF RequireAgreement THEN \E q \in Parts : Own(q) = "reject" ELSE Own(p) = "reject"

NotYetSigned ==
    /\ creating = "idle" <=> status[0] = "absent"
    /\ status[0] # "waiting"
    /\ creating # "idle" => Own(0) = "approve"
    /\ \A p \in Parts : status[p] \in {"absent", "waiting"} => Own(p) = "none"

\* The verdict of a first section is still right in the second one.
VerdictSound ==
    \A c \in Calls : phase[c] = "decide" =>
        /\ RequireAgreement
        /\ status[To(c)] # "absent"
        /\ IF verdict[c] THEN \E q \in Parts : Own(q) = "reject" ELSE AllOwnApprove

DecisionInv == /\ TypeOK
               /\ NotYetSigned
               /\ DecisionsGenuine
               /\ VerdictSound
               /\ \A p \in Parts : Justified(p)

\* The create request carries a decision of nobody but p.
SoleClaim(p) == \A i \in Others : filled[i] # "none" => i = p

\* No decision of the create request is left at the initiator.
Resolved == Plain \/ \E q \in Others : SoleClaim(q) /\ decisions[0][q] \in Signable

ClaimsStored ==
    \A p, i \in Others :
        p # i /\ status[p] # "absent" /\ filled[i] # "none" /\ decisions[p][i] \notin Unsigned
          => Resolved

ClaimsConfirmed ==
    \A p \in Others : phase[ConfirmCall(p)] # "none" =>
        /\ payload[ConfirmCall(p)][p] \in Signable
        /\ \A i \in Others :
              i # p /\ filled[i] # "none" /\ payload[ConfirmCall(p)][i] \notin Unsigned => Resolved

ClaimsSettling ==
    \A p \in Others : phase[ConfirmCall(p)] \in {"decide", "bcast"} => Resolved

ClaimsBroadcast ==
    \A p, j \in Others : phase[ConfirmCall(p)] = "bcast" \/ phase[BcastCall(p, j)] # "none" =>
        /\ Resolved
        /\ \A i \in Others : filled[i] # "none" => payload[BcastCall(p, j)][i] \in Signable

ClaimsCreated ==
    \A p, i \in Others :
        phase[CreateCall(p)] # "none" => payload[CreateCall(p)][i] = filled[i]

\* A decision of the create request is passed on as it came, and a call that
\* contains one is refused: until such a decision is replaced at the initiator,
\* by the one its participant signed, nobody else's decision gets there.
ClaimInv ==
    ClaimsStored /\ ClaimsConfirmed /\ ClaimsSettling /\ ClaimsBroadcast /\ ClaimsCreated

\* A create call finds no task; a confirm and a broadcast find one.
CallOrder ==
    \A p \in Others :
        /\ phase[CreateCall(p)] \in {"none", "sent", "listing", "ok", "failed"}
        /\ phase[CreateCall(p)] \in {"none", "sent"} => status[p] = "absent"
        /\ phase[CreateCall(p)] \in {"listing", "ok"} => status[p] # "absent"
        /\ creating = "idle" => phase[CreateCall(p)] = "none"
        /\ creating = "done" => phase[CreateCall(p)] = "ok"
        /\ phase[ConfirmCall(p)] # "none" => status[p] # "absent"
        /\ phase[ConfirmCall(p)] # "listing"
        /\ phase[ConfirmCall(p)] = "bcast" => creating = "done"
        /\ \A i \in Others : /\ phase[BcastCall(p, i)] # "none" => creating = "done"
                             /\ phase[BcastCall(p, i)] \notin {"listing", "bcast"}

\* What the create request brought, and what was signed, are told apart.
LEMMA Signatures ==
    ASSUME TypeOK
    PROVE  /\ \A i \in Parts : filled[i] \in {"none"} \cup Unsigned
           /\ filled[0] = "none"
           /\ \A p \in Parts : Own(p) \in {"none"} \cup Signable
           /\ \A p \in Parts : Own(p) # "none" => decisions[p][p] = Own(p)
           /\ "none" \notin Unsigned /\ "none" \notin Signable
           /\ \A d \in Signable : d \notin Unsigned /\ d # "none"
           /\ \A d \in Signable : (Approves(d) <=> d = "approve") /\ (Rejects(d) <=> d = "reject")
           /\ \A d \in Unsigned : (Approves(d) <=> d = "unsigned_approve")
           /\ ~Approves("none") /\ ~Rejects("none")
           /\ 0 \notin Others
           /\ \A i \in Parts : i # 0 => i \in Others
  <1>1. /\ \A i \in Parts : filled[i] \in {"none"} \cup Unsigned
        /\ filled[0] = "none"
    BY DEF TypeOK, Requests
  <1>2. /\ \A p \in Parts : Own(p) \in {"none"} \cup Signable
        /\ \A p \in Parts : Own(p) # "none" => decisions[p][p] = Own(p)
    BY DEF TypeOK, Own, Decisions
  <1>3. /\ "none" \notin Unsigned /\ "none" \notin Signable
        /\ \A d \in Signable : d \notin Unsigned /\ d # "none"
        /\ \A d \in Signable : (Approves(d) <=> d = "approve") /\ (Rejects(d) <=> d = "reject")
        /\ \A d \in Unsigned : (Approves(d) <=> d = "unsigned_approve")
        /\ ~Approves("none") /\ ~Rejects("none")
    BY DEF Signable, Unsigned, Approves, Rejects
  <1>4. 0 \notin Others /\ \A i \in Parts : i # 0 => i \in Others
    BY DEF Parts, Others
  <1> QED BY <1>1, <1>2, <1>3, <1>4

\* Steps that leave the task's decisions and statuses alone, and start no
\* second section, keep the decision invariant.
LEMMA DecisionFrame ==
    ASSUME DecisionInv, TypeOK',
           UNCHANGED <<status, decisions, payload, verdict, filled>>,
           creating' = "idle" <=> creating = "idle",
           \A c \in Calls : phase'[c] = "decide" => phase[c] = "decide"
    PROVE  DecisionInv'
  <1>1. NotYetSigned'
    BY DEF DecisionInv, NotYetSigned, Own
  <1>2. DecisionsGenuine'
    BY DEF DecisionInv, DecisionsGenuine, Own
  <1>3. VerdictSound'
    BY DEF DecisionInv, VerdictSound, Own, AllOwnApprove
  <1>4. \A p \in Parts : Justified(p)'
    BY DEF DecisionInv, Justified, Own, Backed
  <1> QED BY <1>1, <1>2, <1>3, <1>4 DEF DecisionInv

\* Before _create_task no core has a task, a decision or a verdict.
LEMMA DecisionInit == Init => DecisionInv
  <1> SUFFICES ASSUME Init PROVE DecisionInv
    OBVIOUS
  <1>1. TypeOK
    BY ValueTypes DEF Init, TypeOK, NoEntries, Phases
  <1>2. \A p \in Parts : Own(p) = "none"
    BY DEF Init, Own, NoDecisions
  <1>3. NotYetSigned /\ DecisionsGenuine /\ VerdictSound
    BY CallShape, <1>2 DEF Init, NotYetSigned, DecisionsGenuine, VerdictSound, NoDecisions
  <1>4. \A p \in Parts : Justified(p)
    BY DEF Init, Justified
  <1> QED BY <1>1, <1>3, <1>4 DEF DecisionInv

\* What a participant signs stays signed, and a verdict based on it stays right.
LEMMA VerdictKept ==
    ASSUME DecisionInv,
           \A p \in Parts : Own(p) # "none" => Own(p)' = Own(p),
           \A p \in Parts : status[p] # "absent" => status'[p] # "absent",
           NEW c \in Calls, phase[c] = "decide", verdict'[c] = verdict[c]
    PROVE  /\ RequireAgreement
           /\ status'[To(c)] # "absent"
           /\ IF verdict'[c] THEN \E q \in Parts : Own(q)' = "reject" ELSE AllOwnApprove'
  <1> USE CallShape
  <1>1. /\ RequireAgreement
        /\ status[To(c)] # "absent"
        /\ IF verdict[c] THEN \E q \in Parts : Own(q) = "reject" ELSE AllOwnApprove
    BY DEF DecisionInv, VerdictSound
  <1>2. CASE verdict[c]
    <2>1. PICK q \in Parts : Own(q) = "reject"
      BY <1>1, <1>2
    <2> QED BY <1>1, <1>2, <2>1
  <1>3. CASE ~verdict[c]
    BY <1>1, <1>3 DEF AllOwnApprove
  <1> QED BY <1>2, <1>3

\* What justifies a status keeps justifying it.
LEMMA JustifiedKept ==
    ASSUME DecisionInv, filled' = filled,
           \A p \in Parts : Own(p) # "none" => Own(p)' = Own(p),
           NEW p \in Parts,
           status'[p] = status[p] \/ (status[p] = "started" /\ status'[p] = "finished")
                                  \/ status'[p] \in {"absent", "waiting", "approved", "ignored"}
    PROVE  Justified(p)'
  <1>1. Justified(p)
    BY DEF DecisionInv
  <1>2. \A q \in Parts : Backed(p, q) => Backed(p, q)'
    BY DEF Backed
  <1>3. /\ Own(p) = "approve" => Own(p)' = "approve"
        /\ \A q \in Parts : Own(q) = "reject" => Own(q)' = "reject"
    OBVIOUS
  <1> QED BY <1>1, <1>2, <1>3 DEF Justified

\* _create_task signs the initiator's approval, before any message exists.
LEMMA DecisionCreate == ASSUME DecisionInv, CreateTask PROVE DecisionInv'
  <1> USE CallShape, ValueTypes
  <1>0. TypeOK /\ TypeOK'
    BY TypeStep DEF DecisionInv, Next, Creation
  <1>1. /\ status' = [status EXCEPT ![0] = FirstStatus]
        /\ decisions' = [decisions EXCEPT ![0] = FirstDecisions]
        /\ creating = "idle" /\ creating' = "sending"
        /\ UNCHANGED <<phase, payload, verdict, filled>>
        /\ status[0] = "absent" /\ Own(0) = "none"
    BY DEF CreateTask, DecisionInv, NotYetSigned
  <1>2. /\ \A p \in Parts : p # 0 => status'[p] = status[p] /\ Own(p)' = Own(p)
        /\ Own(0)' = "approve" /\ status'[0] = FirstStatus
        /\ \A i \in Parts : decisions'[0][i] = (IF i = 0 THEN "approve" ELSE filled[i])
        /\ \A p \in Parts : p # 0 => decisions'[p] = decisions[p]
    <2>1. /\ \A p \in Parts : p # 0 => status'[p] = status[p] /\ decisions'[p] = decisions[p]
          /\ decisions'[0] = FirstDecisions /\ status'[0] = FirstStatus
      BY <1>0, <1>1 DEF TypeOK
    <2>2. \A i \in Parts : FirstDecisions[i] = (IF i = 0 THEN "approve" ELSE filled[i])
      BY <1>0 DEF FirstDecisions, TypeOK, Requests
    <2> QED BY <2>1, <2>2 DEF Own, Unsigned
  <1>3. NotYetSigned'
    BY <1>1, <1>2 DEF DecisionInv, NotYetSigned
  <1>4. DecisionsGenuine'
    BY <1>1, <1>2 DEF DecisionInv, DecisionsGenuine
  <1>5. \A p \in Parts : Own(p) # "none" => Own(p)' = Own(p)
    BY <1>1, <1>2
  <1>6. VerdictSound'
    <2>1. \A p \in Parts : status[p] # "absent" => status'[p] # "absent"
      BY <1>2
    <2> QED BY <1>1, <1>5, <2>1, VerdictKept DEF VerdictSound
  <1>7. ASSUME NEW p \in Parts PROVE Justified(p)'
    <2>1. CASE p # 0
      BY <1>1, <1>2, <1>5, <2>1, JustifiedKept
    <2>2. CASE p = 0
      <3>1. FirstStatus = "started" /\ RequireAgreement => Parts = {0}
        BY NAssumption DEF FirstStatus, Parts
      <3>2. FirstStatus = "started" /\ RequireAgreement => \A q \in Parts : Backed(0, q)'
        BY <1>2, <3>1 DEF Backed
      <3> QED BY <1>2, <2>2, <3>2 DEF Justified
    <2> QED BY <2>1, <2>2
  <1> QED BY <1>0, <1>3, <1>4, <1>6, <1>7 DEF DecisionInv

\* The create loop sends what the initiator's core has stored.
LEMMA DecisionSend ==
    ASSUME DecisionInv, NEW i \in Others, CreateSend(i)
    PROVE  DecisionInv'
  <1> USE CallShape, ValueTypes
  <1>0. TypeOK /\ TypeOK'
    BY TypeStep DEF DecisionInv, Next, Creation
  <1>1. /\ \A c \in Calls : payload'[c] \in {payload[c], FirstDecisions}
        /\ \A c \in Calls : phase'[c] = "decide" => phase[c] = "decide"
        /\ UNCHANGED <<status, decisions, creating, verdict, filled>>
        /\ Own(0) = "approve"
    BY <1>0 DEF CreateSend, task, TypeOK, DecisionInv, NotYetSigned
  <1>2. \A j \in Parts : FirstDecisions[j] \in {"none", Own(j), filled[j]}
    BY <1>0, <1>1 DEF FirstDecisions, TypeOK, Requests
  <1>3. NotYetSigned' /\ VerdictSound' /\ \A p \in Parts : Justified(p)'
    BY <1>1 DEF DecisionInv, NotYetSigned, VerdictSound, Justified, Own, AllOwnApprove, Backed
  <1>4. DecisionsGenuine'
    BY <1>1, <1>2 DEF DecisionInv, DecisionsGenuine, Own
  <1> QED BY <1>0, <1>3, <1>4 DEF DecisionInv

\* _confirm_task: the vote is the one and only decision of p.
LEMMA DecisionConfirm ==
    ASSUME DecisionInv, TypeOK', NEW p \in Others, NEW d \in Signable, Confirms(p, d)
    PROVE  DecisionInv'
  <1> USE CallShape
  <1> DEFINE starts == IF RequireAgreement THEN AllApprove(Mine(p, d)) ELSE d = "approve"
  <1>0. TypeOK /\ d \in Decisions
    BY DEF DecisionInv, Decisions
  <1>1. /\ status[p] = "waiting" /\ Own(p) = "none" /\ p # 0
        /\ decisions' = [decisions EXCEPT ![p] = Mine(p, d)]
        /\ \A c \in Calls : payload'[c] \in {payload[c], Mine(p, d)}
        /\ \A c \in Calls : phase'[c] = "decide" => phase[c] = "decide"
        /\ UNCHANGED <<creating, verdict, filled>>
    BY <1>0 DEF Confirms, DecisionInv, NotYetSigned, Others, TypeOK
  <1>2. /\ Mine(p, d)[p] = d
        /\ \A i \in Parts : i # p => Mine(p, d)[i] = decisions[p][i]
    BY <1>0 DEF TypeOK, Mine
  <1>3. /\ \A q \in Parts : q # p => /\ status'[q] = status[q] /\ Own(q)' = Own(q)
                                     /\ decisions'[q] = decisions[q]
        /\ Own(p)' = d /\ decisions'[p] = Mine(p, d)
        /\ status'[p] = (IF starts THEN "started" ELSE StatusOf(d))
    <2>1. /\ \A q \in Parts : q # p => status'[q] = status[q] /\ decisions'[q] = decisions[q]
          /\ decisions'[p] = Mine(p, d) /\ status'[p] = ConfirmedAs(p, d)
      BY <1>0, <1>1 DEF TypeOK, Confirms
    <2> QED BY <1>0, <1>2, <2>1, Signatures DEF Own, ConfirmedAs
  <1>4. \A i \in Parts : i # p => Mine(p, d)[i] \in {"none", Own(i), filled[i]}
    BY <1>2 DEF DecisionInv, DecisionsGenuine
  <1>5. status'[p] \in {"started", "approved", "rejected", "ignored"}
    BY <1>3, ValueTypes
  <1>6. NotYetSigned'
    BY <1>1, <1>3, <1>5 DEF DecisionInv, NotYetSigned
  <1>7. DecisionsGenuine'
    <2> SUFFICES ASSUME NEW i \in Parts
                 PROVE  /\ \A q \in Parts : decisions'[q][i] \in {"none", Own(i)', filled'[i]}
                        /\ \A c \in Calls : payload'[c][i] \in {"none", Own(i)', filled'[i]}
      BY DEF DecisionsGenuine
    <2>1. Mine(p, d)[i] \in {"none", Own(i)', filled[i]}
      BY <1>2, <1>3, <1>4
    <2>2. /\ \A q \in Parts : decisions[q][i] \in {"none", Own(i), filled[i]}
          /\ \A c \in Calls : payload[c][i] \in {"none", Own(i), filled[i]}
      BY DEF DecisionInv, DecisionsGenuine
    <2>3. Own(i)' = Own(i) \/ Own(i) = "none"
      BY <1>1, <1>3
    <2> QED BY <1>1, <1>3, <2>1, <2>2, <2>3
  <1>8. \A q \in Parts : Own(q) # "none" => Own(q)' = Own(q)
    BY <1>1, <1>3
  <1>9. VerdictSound'
    <2>1. \A q \in Parts : status[q] # "absent" => status'[q] # "absent"
      BY <1>3, <1>5
    <2> QED BY <1>1, <1>8, <2>1, VerdictKept DEF VerdictSound
  <1>10. ASSUME NEW q \in Parts PROVE Justified(q)'
    <2>1. CASE q # p
      BY <1>1, <1>3, <1>8, <2>1, JustifiedKept
    <2>2. CASE q = p /\ starts
      <3>1. ASSUME RequireAgreement, NEW i \in Parts PROVE Backed(p, i)'
        <4>1. Approves(Mine(p, d)[i])
          BY <2>2, <3>1 DEF AllApprove
        <4>2. CASE i = p
          BY <1>0, <1>2, <1>3, <4>1, <4>2, Signatures DEF Backed
        <4>3. CASE i # p
          <5>1. Mine(p, d)[i] \in {Own(i), filled[i]}
            BY <1>0, <1>4, <4>1, <4>3, Signatures
          <5>2. Own(i) = "approve" \/ filled[i] = "unsigned_approve"
            BY <1>0, <4>1, <5>1, Signatures
          <5> QED BY <1>1, <1>3, <4>3, <5>2 DEF Backed
        <4> QED BY <4>2, <4>3
      <3>2. d = "approve"
        BY <1>0, <1>2, <2>2, Signatures DEF AllApprove
      <3> QED BY <1>3, <2>2, <3>1, <3>2 DEF Justified
    <2>3. CASE q = p /\ ~starts
      <3>1. status'[p] = StatusOf(d)
        BY <1>3, <2>3
      <3>2. StatusOf(d) = "rejected" => d = "reject"
        BY DEF StatusOf, Signable
      <3>3. StatusOf(d) \notin {"started", "finished"}
        BY ValueTypes
      <3> QED BY <1>3, <2>3, <3>1, <3>2, <3>3 DEF Justified
    <2> QED BY <2>1, <2>2, <2>3
  <1> QED BY <1>6, <1>7, <1>9, <1>10 DEF DecisionInv

\* The handler of a new task stores what it was sent, where its own decision is
\* not yet signed.
LEMMA DecisionNew ==
    ASSUME DecisionInv, NEW c \in Calls, SyncNew(c)
    PROVE  DecisionInv'
  <1> USE CallShape
  <1> DEFINE q == To(c)
  <1>0. TypeOK /\ TypeOK'
    BY TypeStep DEF DecisionInv, Next, Handler
  <1>1. /\ q \in Parts /\ status[q] = "absent" /\ Own(q) = "none"
        /\ payload[c][0] = "approve"
        /\ status' = [status EXCEPT ![q] = "waiting"]
        /\ decisions' = [decisions EXCEPT ![q] = payload[c]]
        /\ \A x \in Calls : phase'[x] = "decide" => phase[x] = "decide"
        /\ UNCHANGED <<creating, payload, verdict, filled>>
    BY <1>0 DEF SyncNew, DecisionInv, NotYetSigned, TypeOK
  <1>2. q # 0
    BY <1>0, <1>1, Signatures DEF DecisionInv, NotYetSigned, DecisionsGenuine
  <1>3. payload[c][q] \in {"none", filled[q]}
    BY <1>1 DEF DecisionInv, DecisionsGenuine
  <1> HIDE DEF q
  <1>4. /\ \A p \in Parts : p # q => status'[p] = status[p] /\ decisions'[p] = decisions[p]
        /\ status'[q] = "waiting" /\ decisions'[q] = payload[c]
        /\ \A p \in Parts : Own(p)' = Own(p)
    <2>1. /\ \A p \in Parts : p # q => status'[p] = status[p] /\ decisions'[p] = decisions[p]
          /\ status'[q] = "waiting" /\ decisions'[q] = payload[c]
      BY <1>0, <1>1 DEF TypeOK
    <2>2. Own(q)' = "none"
      BY <1>0, <1>1, <1>3, <2>1, Signatures DEF Own
    <2> QED BY <1>1, <2>1, <2>2 DEF Own
  <1>5. NotYetSigned'
    BY <1>1, <1>2, <1>4 DEF DecisionInv, NotYetSigned
  <1>6. DecisionsGenuine'
    BY <1>1, <1>4 DEF DecisionInv, DecisionsGenuine
  <1>7. VerdictSound'
    <2>1. \A p \in Parts : status[p] # "absent" => status'[p] # "absent"
      BY <1>4
    <2> QED BY <1>1, <1>4, <2>1, VerdictKept DEF VerdictSound
  <1>8. ASSUME NEW p \in Parts PROVE Justified(p)'
    BY <1>1, <1>4, JustifiedKept
  <1> QED BY <1>0, <1>5, <1>6, <1>7, <1>8 DEF DecisionInv

\* The calls whose handlers find the task.
LEMMA MergeCalls ==
    ASSUME CallOrder, NEW c \in Calls, phase[c] \in {"sent", "decide"}, status[To(c)] # "absent"
    PROVE  \/ \E p \in Others : c = ConfirmCall(p)
           \/ \E p, j \in Others : c = BcastCall(p, j)
  BY CallCases, CallKinds DEF CallOrder

\* Whatever passes check_decision and settles a task has been signed: a handler
\* that merges decisions counts none of those the create request brought.
LEMMA MergedSigned ==
    ASSUME DecisionInv, ClaimInv, CallOrder, NEW c \in Calls, SyncMerge(c)
    PROVE  /\ \A i \in Parts : Merged(c)[i] \in {"none", Own(i)}
           /\ Resolved => Resolved'
           /\ \A p \in Others : c = ConfirmCall(p) => Resolved'
  <1> USE CallShape
  <1>0. TypeOK /\ UNCHANGED filled
    BY DEF DecisionInv, SyncMerge
  <1>1. /\ phase[c] = "sent" /\ status[To(c)] # "absent"
        /\ \A i \in Parts : i # To(c) => payload[c][i] \notin Unsigned
        /\ \A i \in Parts : payload[c][i] \in {"none", Own(i), filled[i]}
        /\ \A i \in Parts : decisions[To(c)][i] \in {"none", Own(i), filled[i]}
        /\ decisions' = [decisions EXCEPT ![To(c)] = Merged(c)]
    BY DEF SyncMerge, Checked, DecisionInv, DecisionsGenuine
  <1>2. \A i \in Parts : Merged(c)[i] = (IF i # To(c) /\ payload[c][i] # "none"
                                        THEN payload[c][i] ELSE decisions[To(c)][i])
    BY DEF Merged
  <1>3. \A i \in Parts : payload[c][i] \notin Unsigned => payload[c][i] \in {"none", Own(i)}
    BY <1>0, <1>1, Signatures
  <1>4. \A i \in Parts : filled[i] = "none" => Merged(c)[i] \in {"none", Own(i)}
    BY <1>1, <1>2
  <1>5. \A i \in Parts : (To(c) = 0 /\ i # 0 /\ payload[c][i] \in Signable)
                          => Merged(c)[i] = payload[c][i] /\ Merged(c)[i] = Own(i)
    BY <1>0, <1>1, <1>2, Signatures
  <1>6. \A i \in Parts : To(c) = 0 => decisions'[0][i] = Merged(c)[i]
    BY <1>0, <1>1 DEF TypeOK
  <1>7. \A i \in Parts : (To(c) = 0 /\ i # 0 /\ decisions[0][i] \in Signable)
                          => Merged(c)[i] \in Signable /\ Merged(c)[i] = Own(i)
    BY <1>0, <1>1, <1>2, <1>3, Signatures
  <1>8. Resolved => Resolved'
    <2>1. CASE To(c) = 0
      BY <1>0, <1>6, <1>7, <2>1, Signatures DEF Resolved, Plain, NoDecisions, SoleClaim
    <2>2. CASE To(c) # 0
      BY <1>0, <1>1, <2>2 DEF TypeOK, Resolved, Plain, NoDecisions, SoleClaim
    <2> QED BY <2>1, <2>2
  <1>9. ASSUME NEW p \in Others, c = ConfirmCall(p)
        PROVE  Resolved' /\ \A i \in Parts : Merged(c)[i] \in {"none", Own(i)}
    <2>1. /\ To(c) = 0 /\ p # 0 /\ p \in Parts /\ payload[c][p] \in Signable
          /\ \A i \in Others : i # p /\ filled[i] # "none" /\ payload[c][i] \notin Unsigned => Resolved
      BY <1>1, <1>9, CallKinds DEF ClaimInv, ClaimsConfirmed
    <2>2. CASE Resolved
      <3>1. CASE Plain
        BY <1>4, <1>8, <2>2, <3>1 DEF Plain, NoDecisions
      <3>2. CASE \E q \in Others : SoleClaim(q) /\ decisions[0][q] \in Signable
        <4>1. PICK q \in Others : SoleClaim(q) /\ decisions[0][q] \in Signable
          BY <3>2
        <4>2. \A i \in Parts : i # q => filled[i] = "none"
          BY <1>0, <4>1, Signatures DEF SoleClaim
        <4>3. Merged(c)[q] = Own(q)
          BY <1>7, <2>1, <4>1, CallKinds
        <4> QED BY <1>4, <1>8, <2>2, <4>2, <4>3
      <3> QED BY <2>2, <3>1, <3>2 DEF Resolved
    <2>3. CASE ~Resolved
      <3>1. SoleClaim(p)
        BY <1>0, <1>1, <2>1, <2>3, Signatures DEF SoleClaim
      <3>2. \A i \in Parts : i # p => filled[i] = "none"
        BY <1>0, <3>1, Signatures DEF SoleClaim
      <3>3. Merged(c)[p] = payload[c][p] /\ Merged(c)[p] = Own(p)
        BY <1>5, <2>1
      <3>4. SoleClaim(p)' /\ decisions'[0][p] \in Signable
        BY <1>0, <1>6, <2>1, <3>1, <3>3 DEF SoleClaim
      <3> QED BY <1>4, <3>2, <3>3, <3>4 DEF Resolved
    <2> QED BY <2>2, <2>3
  <1>10. ASSUME NEW p \in Others, NEW j \in Others, c = BcastCall(p, j)
         PROVE  \A i \in Parts : Merged(c)[i] \in {"none", Own(i)}
    <2>1. /\ To(c) = j
          /\ \A i \in Others : filled[i] # "none" => payload[c][i] \in Signable
      BY <1>1, <1>10, CallKinds DEF ClaimInv, ClaimsBroadcast
    <2>2. ASSUME NEW i \in Others, filled[i] # "none" PROVE Merged(c)[i] = Own(i)
      <3>1. payload[c][i] \in Signable /\ payload[c][i] # "none" /\ payload[c][i] = Own(i)
        BY <1>0, <1>1, <2>1, <2>2, Signatures
      <3>2. CASE i # j
        BY <1>2, <2>1, <3>1, <3>2
      <3>3. CASE i = j
        BY <1>0, <1>2, <2>1, <3>1, <3>3, Signatures
      <3> QED BY <3>2, <3>3
    <2>3. \A i \in Parts : i \notin Others => filled[i] = "none"
      BY <1>0, Signatures
    <2> QED BY <1>4, <2>2, <2>3
  <1> QED BY <1>1, <1>8, <1>9, <1>10, MergeCalls

\* The first section: the merged decisions are genuine, and so is the verdict.
LEMMA DecisionMerge ==
    ASSUME DecisionInv, ClaimInv, CallOrder, NEW c \in Calls, SyncMerge(c)
    PROVE  DecisionInv'
  <1> USE CallShape
  <1> DEFINE q == To(c)
  <1>0. TypeOK /\ TypeOK'
    BY TypeStep DEF DecisionInv, Next, Handler
  <1>1. /\ q \in Parts /\ status[q] # "absent" /\ RequireAgreement
        /\ decisions' = [decisions EXCEPT ![q] = Merged(c)]
        /\ UNCHANGED <<status, creating, payload, filled>>
    BY DEF SyncMerge
  <1>2. Merged(c)[q] = decisions[q][q]
    BY <1>1 DEF Merged
  <1>3. \A i \in Parts : Merged(c)[i] \in {"none", Own(i)}
    BY MergedSigned
  <1>4. /\ \A p \in Parts : p # q => decisions'[p] = decisions[p]
        /\ decisions'[q] = Merged(c)
        /\ \A p \in Parts : Own(p)' = Own(p)
    BY <1>0, <1>1, <1>2 DEF TypeOK, Own
  <1>5. NotYetSigned'
    BY <1>1, <1>4 DEF DecisionInv, NotYetSigned
  <1>6. DecisionsGenuine'
    BY <1>1, <1>3, <1>4 DEF DecisionInv, DecisionsGenuine
  <1>7. VerdictSound'
    <2> SUFFICES ASSUME NEW x \in Calls, phase'[x] = "decide"
                 PROVE  /\ RequireAgreement
                        /\ status'[To(x)] # "absent"
                        /\ IF verdict'[x] THEN \E p \in Parts : Own(p)' = "reject"
                                          ELSE AllOwnApprove'
      BY DEF VerdictSound
    <2>1. CASE x = c
      <3>1. Settles(c)
        <4> SUFFICES ASSUME ~Settles(c) PROVE FALSE
          OBVIOUS
        <4>1. Reply(c)
          BY DEF SyncMerge
        <4>2. phase'[c] \in {"ok", "failed"}
          BY <1>0, <4>1, ReplyType
        <4> QED BY <2>1, <4>2
      <3>2. verdict'[c] = AnyReject(Merged(c))
        BY <1>0, <3>1 DEF SyncMerge, TypeOK
      <3>3. \A i \in Parts : /\ Rejects(Merged(c)[i]) => Own(i)' = "reject"
                             /\ Approves(Merged(c)[i]) => Own(i)' = "approve"
        BY <1>0, <1>3, <1>4, Signatures
      <3>4. AnyReject(Merged(c)) => \E p \in Parts : Own(p)' = "reject"
        BY <3>3 DEF AnyReject
      <3>5. ~AnyReject(Merged(c)) => AllOwnApprove'
        BY <3>1, <3>3 DEF Settles, AnyReject, AllValid, AllOwnApprove
      <3> QED BY <1>1, <2>1, <3>2, <3>4, <3>5
    <2>2. CASE x # c
      <3>1. phase'[x] = phase[x] /\ verdict'[x] = verdict[x]
        <4>1. CASE Settles(c)
          BY <1>0, <2>2, <4>1 DEF SyncMerge, TypeOK
        <4>2. CASE ~Settles(c)
          BY <1>0, <2>2, <4>2, ReplyType DEF SyncMerge
        <4> QED BY <4>1, <4>2
      <3> QED BY <1>1, <1>4, <3>1, VerdictKept
    <2> QED BY <2>1, <2>2
  <1>8. ASSUME NEW p \in Parts PROVE Justified(p)'
    BY <1>1, <1>4, JustifiedKept
  <1> QED BY <1>0, <1>5, <1>6, <1>7, <1>8 DEF DecisionInv

\* The second section: the verdict justifies the new status.
LEMMA DecisionDecide ==
    ASSUME DecisionInv, TypeOK', NEW c \in Calls, DecidesOn(c)
    PROVE  DecisionInv'
  <1> USE CallShape
  <1> DEFINE q == To(c)
  <1>0. TypeOK
    BY DEF DecisionInv
  <1>1. /\ q \in Parts /\ RequireAgreement /\ status[q] # "absent"
        /\ status' = [status EXCEPT ![q] = SettledAs(c)]
        /\ IF verdict[c] THEN \E p \in Parts : Own(p) = "reject" ELSE AllOwnApprove
        /\ UNCHANGED <<decisions, creating, verdict, filled>>
    BY DEF DecidesOn, DecisionInv, VerdictSound
  <1>2. /\ \A p \in Parts : p # q => status'[p] = status[p]
        /\ status'[q] = SettledAs(c)
        /\ \A p \in Parts : Own(p)' = Own(p)
    BY <1>0, <1>1 DEF TypeOK, Own
  <1>3. /\ \A x \in Calls : payload'[x] \in {payload[x], decisions[0]}
        /\ \A x \in Calls : phase'[x] = "decide" => phase[x] = "decide"
    BY <1>0 DEF DecidesOn, TypeOK
  <1>4. NotYetSigned'
    BY <1>1, <1>2, ValueTypes DEF DecisionInv, NotYetSigned
  <1>5. DecisionsGenuine'
    <2> SUFFICES ASSUME NEW i \in Parts
                 PROVE  /\ \A p \in Parts : decisions'[p][i] \in {"none", Own(i)', filled'[i]}
                        /\ \A x \in Calls : payload'[x][i] \in {"none", Own(i)', filled'[i]}
      BY DEF DecisionsGenuine
    <2>1. /\ \A p \in Parts : decisions[p][i] \in {"none", Own(i), filled[i]}
          /\ \A x \in Calls : payload[x][i] \in {"none", Own(i), filled[i]}
      BY DEF DecisionInv, DecisionsGenuine
    <2> QED BY <1>1, <1>2, <1>3, <2>1
  <1>6. VerdictSound'
    <2>1. \A p \in Parts : status[p] # "absent" => status'[p] # "absent"
      BY <1>2, ValueTypes
    <2> QED BY <1>1, <1>2, <1>3, <2>1, VerdictKept DEF VerdictSound
  <1>7. ASSUME NEW p \in Parts PROVE Justified(p)'
    <2>1. CASE p # q
      BY <1>1, <1>2, <2>1, JustifiedKept
    <2>2. CASE p = q /\ verdict[c]
      BY <1>1, <1>2, <2>2 DEF Justified, SettledAs
    <2>3. CASE p = q /\ ~verdict[c]
      <3>1. \A r \in Parts : Backed(p, r)'
        BY <1>1, <1>2, <2>3 DEF AllOwnApprove, Backed
      <3> QED BY <1>1, <1>2, <2>3, <3>1 DEF Justified, SettledAs
    <2> QED BY <2>1, <2>2, <2>3
  <1> QED BY <1>4, <1>5, <1>6, <1>7 DEF DecisionInv

\* _finish_task moves a started task to finished and signs nothing.
LEMMA DecisionFinish ==
    ASSUME DecisionInv, TypeOK', NEW q \in Parts, Finishes(q)
    PROVE  DecisionInv'
  <1>0. TypeOK
    BY DEF DecisionInv
  <1>1. /\ status[q] = "started"
        /\ status' = [status EXCEPT ![q] = "finished"]
        /\ UNCHANGED <<decisions, creating, phase, payload, verdict, filled>>
    BY DEF Finishes
  <1>2. /\ \A p \in Parts : p # q => status'[p] = status[p]
        /\ status'[q] = "finished"
        /\ \A p \in Parts : Own(p)' = Own(p)
    BY <1>0, <1>1 DEF TypeOK, Own
  <1>3. NotYetSigned' /\ DecisionsGenuine'
    BY <1>1, <1>2, CallShape DEF DecisionInv, NotYetSigned, DecisionsGenuine
  <1>4. VerdictSound'
    <2>1. \A p \in Parts : status[p] # "absent" => status'[p] # "absent"
      BY <1>2
    <2> QED BY <1>1, <1>2, <2>1, VerdictKept DEF VerdictSound
  <1>5. ASSUME NEW p \in Parts PROVE Justified(p)'
    BY <1>1, <1>2, JustifiedKept
  <1> QED BY <1>3, <1>4, <1>5 DEF DecisionInv

\* Every step of a core, a user or the network keeps the decision invariant.
LEMMA DecisionStep ==
    ASSUME DecisionInv, ClaimInv, CallOrder, [Next]_vars
    PROVE  DecisionInv'
  <1>0. TypeOK /\ TypeOK' /\ StepKind
    BY TypeStep, StepKinds DEF DecisionInv
  <1>1. CASE Quiet
    BY <1>0, <1>1, DecisionFrame DEF Quiet
  <1>2. CASE CreateTask
    BY <1>2, DecisionCreate
  <1>3. CASE \E i \in Others : CreateSend(i)
    BY <1>3, DecisionSend
  <1>4. CASE \E c \in Calls : SyncNew(c) \/ SyncMerge(c) \/ DecidesOn(c)
    BY <1>0, <1>4, DecisionNew, DecisionMerge, DecisionDecide
  <1>5. CASE \/ \E p \in Others, d \in Signable : Confirms(p, d)
             \/ \E p \in Parts : Finishes(p)
    BY <1>0, <1>5, DecisionConfirm, DecisionFinish
  <1> QED BY <1>0, <1>1, <1>2, <1>3, <1>4, <1>5 DEF StepKind

\* Before _create_task there is nothing to pass on.
LEMMA ClaimInit == Init => ClaimInv
  BY CallShape, CallKinds
     DEF Init, ClaimInv, ClaimsStored, ClaimsConfirmed, ClaimsSettling, ClaimsBroadcast, ClaimsCreated

\* Steps that leave the initiator's decisions and the messages alone.
LEMMA ClaimFrame ==
    ASSUME ClaimInv, filled' = filled,
           decisions' = decisions, status' = status, payload' = payload,
           \A c \in Calls : phase'[c] \in {"decide", "bcast"} => phase'[c] = phase[c],
           \A c \in Calls : phase'[c] # "none" =>
              phase[c] # "none" \/ \E p, i \in Others : c = BcastCall(p, i) /\ phase[ConfirmCall(p)] = "bcast"
    PROVE  ClaimInv'
  <1> USE CallShape, CallKinds
  <1>1. Resolved <=> Resolved'
    BY DEF Resolved, Plain, NoDecisions, SoleClaim
  <1>2. \A p \in Others : /\ phase'[ConfirmCall(p)] # "none" => phase[ConfirmCall(p)] # "none"
                          /\ phase'[CreateCall(p)] # "none" => phase[CreateCall(p)] # "none"
                          /\ phase'[ConfirmCall(p)] \in {"decide", "bcast"} => phase[ConfirmCall(p)] \in {"decide", "bcast"}
                          /\ phase'[ConfirmCall(p)] = "bcast" => phase[ConfirmCall(p)] = "bcast"
    OBVIOUS
  <1>3. \A p, j \in Others : phase'[BcastCall(p, j)] # "none" =>
            phase[BcastCall(p, j)] # "none" \/ phase[ConfirmCall(p)] = "bcast"
    OBVIOUS
  <1>4. \A p, j \in Others : phase'[ConfirmCall(p)] = "bcast" \/ phase'[BcastCall(p, j)] # "none" =>
            phase[ConfirmCall(p)] = "bcast" \/ phase[BcastCall(p, j)] # "none"
    BY <1>2, <1>3
  <1> QED BY <1>1, <1>2, <1>4
     DEF ClaimInv, ClaimsStored, ClaimsConfirmed, ClaimsSettling, ClaimsBroadcast,
         ClaimsCreated

\* _create_task and its loop: nobody else has the task yet.
LEMMA ClaimCreate ==
    ASSUME DecisionInv, ClaimInv, CallOrder, CreateTask
    PROVE  ClaimInv'
  <1> USE CallShape, CallKinds
  <1>0. TypeOK
    BY DEF DecisionInv
  <1>1. /\ creating = "idle" /\ UNCHANGED <<phase, payload, filled>>
        /\ status' = [status EXCEPT ![0] = FirstStatus]
    BY DEF CreateTask
  <1>2. \A p \in Others : /\ phase[CreateCall(p)] = "none" /\ status[p] = "absent"
                          /\ phase[ConfirmCall(p)] = "none"
    BY <1>1 DEF CallOrder
  <1>3. \A p, i \in Others : phase[BcastCall(p, i)] = "none"
    BY <1>1 DEF CallOrder
  <1>4. \A p \in Others : status'[p] = "absent"
    BY <1>0, <1>1, <1>2 DEF TypeOK
  <1> QED BY <1>1, <1>2, <1>3, <1>4
     DEF ClaimInv, ClaimsStored, ClaimsConfirmed, ClaimsSettling, ClaimsBroadcast,
         ClaimsCreated

LEMMA ClaimSend ==
    ASSUME DecisionInv, ClaimInv, NEW i \in Others, CreateSend(i)
    PROVE  ClaimInv'
  <1> USE CallShape, CallKinds
  <1>0. TypeOK
    BY DEF DecisionInv
  <1>1. /\ \A x \in Calls : x # CreateCall(i) => phase'[x] = phase[x] /\ payload'[x] = payload[x]
        /\ payload'[CreateCall(i)] = FirstDecisions
        /\ UNCHANGED <<status, decisions, filled>>
    BY <1>0 DEF CreateSend, task, TypeOK
  <1>2. \A j \in Others : FirstDecisions[j] = filled[j]
    BY <1>0 DEF FirstDecisions, TypeOK, Requests
  <1>3. Resolved <=> Resolved'
    BY <1>1 DEF Resolved, Plain, NoDecisions, SoleClaim
  <1>4. \A p, j \in Others : phase'[CreateCall(p)] # "none" => payload'[CreateCall(p)][j] = filled[j]
    BY <1>1, <1>2
       DEF ClaimInv, ClaimsStored, ClaimsConfirmed, ClaimsSettling, ClaimsBroadcast,
           ClaimsCreated
  <1>5. \A p, j \in Others : /\ phase'[ConfirmCall(p)] = phase[ConfirmCall(p)]
                             /\ payload'[ConfirmCall(p)] = payload[ConfirmCall(p)]
                             /\ phase'[BcastCall(p, j)] = phase[BcastCall(p, j)]
                             /\ payload'[BcastCall(p, j)] = payload[BcastCall(p, j)]
    BY <1>1
  <1> QED BY <1>1, <1>3, <1>4, <1>5
     DEF ClaimInv, ClaimsStored, ClaimsConfirmed, ClaimsSettling, ClaimsBroadcast,
         ClaimsCreated

\* A participant confirms: it has the decisions that it was sent, and its own.
LEMMA ClaimConfirm ==
    ASSUME DecisionInv, ClaimInv, NEW p \in Others, NEW d \in Signable, Confirms(p, d)
    PROVE  ClaimInv'
  <1> USE CallShape, CallKinds
  <1>0. TypeOK
    BY DEF DecisionInv
  <1>1. /\ status[p] = "waiting" /\ filled' = filled
        /\ \A q \in Parts : q # p => status'[q] = status[q] /\ decisions'[q] = decisions[q]
        /\ decisions'[p] = Mine(p, d)
    BY <1>0 DEF Confirms, TypeOK
  <1>2. /\ Mine(p, d)[p] = d
        /\ \A i \in Parts : i # p => Mine(p, d)[i] = decisions[p][i]
    BY <1>0 DEF TypeOK, Mine
  <1>3. /\ \A x \in Calls : x # ConfirmCall(p) => phase'[x] = phase[x] /\ payload'[x] = payload[x]
        /\ \/ phase'[ConfirmCall(p)] = phase[ConfirmCall(p)] /\ payload'[ConfirmCall(p)] = payload[ConfirmCall(p)]
           \/ phase'[ConfirmCall(p)] = "sent" /\ payload'[ConfirmCall(p)] = Mine(p, d)
    BY <1>0 DEF Confirms, TypeOK
  <1>4. Resolved <=> Resolved'
    BY <1>1 DEF Resolved, Plain, NoDecisions, SoleClaim
  <1>5. \A i \in Others : p # i /\ filled[i] # "none" /\ decisions[p][i] \notin Unsigned => Resolved
    BY <1>1
       DEF ClaimInv, ClaimsStored, ClaimsConfirmed, ClaimsSettling, ClaimsBroadcast,
           ClaimsCreated
  <1>6. ASSUME NEW q \in Others, NEW i \in Others,
               q # i, status'[q] # "absent", filled'[i] # "none", decisions'[q][i] \notin Unsigned
        PROVE  Resolved'
    <2>1. CASE q = p
      BY <1>1, <1>2, <1>4, <1>5, <1>6, <2>1
    <2>2. CASE q # p
      BY <1>1, <1>4, <1>6, <2>2
         DEF ClaimInv, ClaimsStored, ClaimsConfirmed, ClaimsSettling, ClaimsBroadcast,
             ClaimsCreated
    <2> QED BY <2>1, <2>2
  <1>7. ASSUME NEW q \in Others, phase'[ConfirmCall(q)] # "none"
        PROVE  /\ payload'[ConfirmCall(q)][q] \in Signable
               /\ \A i \in Others :
                     i # q /\ filled'[i] # "none" /\ payload'[ConfirmCall(q)][i] \notin Unsigned => Resolved'
    <2>1. CASE phase'[ConfirmCall(q)] = phase[ConfirmCall(q)] /\ payload'[ConfirmCall(q)] = payload[ConfirmCall(q)]
      BY <1>1, <1>4, <1>7, <2>1
         DEF ClaimInv, ClaimsStored, ClaimsConfirmed, ClaimsSettling, ClaimsBroadcast,
             ClaimsCreated
    <2>2. CASE q = p /\ payload'[ConfirmCall(q)] = Mine(p, d)
      BY <1>1, <1>2, <1>4, <1>5, <2>2
    <2> QED BY <1>3, <2>1, <2>2
  <1>8. \A q, j \in Others : /\ phase'[CreateCall(q)] = phase[CreateCall(q)]
                             /\ payload'[CreateCall(q)] = payload[CreateCall(q)]
                             /\ phase'[BcastCall(q, j)] = phase[BcastCall(q, j)]
                             /\ payload'[BcastCall(q, j)] = payload[BcastCall(q, j)]
    BY <1>3
  <1>9. \A q \in Others : /\ phase'[ConfirmCall(q)] = "bcast" => phase[ConfirmCall(q)] = "bcast"
                          /\ phase'[ConfirmCall(q)] = "decide" => phase[ConfirmCall(q)] = "decide"
    BY <1>3
  <1> QED BY <1>1, <1>4, <1>6, <1>7, <1>8, <1>9
     DEF ClaimInv, ClaimsStored, ClaimsConfirmed, ClaimsSettling, ClaimsBroadcast,
         ClaimsCreated

\* A new task is stored as it was sent, by the create loop.
LEMMA ClaimNew ==
    ASSUME DecisionInv, ClaimInv, CallOrder, NEW c \in Calls, SyncNew(c)
    PROVE  ClaimInv'
  <1> USE CallShape, CallKinds
  <1>0. TypeOK /\ TypeOK'
    BY TypeStep DEF DecisionInv, Next, Handler
  <1>1. /\ phase[c] = "sent" /\ status[To(c)] = "absent"
        /\ decisions' = [decisions EXCEPT ![To(c)] = payload[c]]
        /\ status' = [status EXCEPT ![To(c)] = "waiting"]
        /\ phase' = [phase EXCEPT ![c] = "listing"]
        /\ UNCHANGED <<payload, filled, creating>>
    BY DEF SyncNew
  <1>2. PICK p \in Others : c = CreateCall(p)
    <2>1. ASSUME NEW p \in Others, c = ConfirmCall(p) PROVE FALSE
      <3>1. status[p] # "absent" /\ phase[CreateCall(p)] # "none"
        BY <1>1, <2>1 DEF CallOrder
      <3>2. creating # "idle"
        BY <3>1 DEF CallOrder
      <3> QED BY <1>1, <2>1, <3>2 DEF DecisionInv, NotYetSigned
    <2>2. ASSUME NEW p \in Others, NEW i \in Others, c = BcastCall(p, i) PROVE FALSE
      BY <1>1, <2>2 DEF CallOrder
    <2> QED BY <2>1, <2>2, CallCases
  <1>3. /\ decisions'[p] = payload[c] /\ \A i \in Others : payload[c][i] = filled[i]
        /\ \A q \in Parts : q # p => decisions'[q] = decisions[q] /\ status'[q] = status[q]
    <2>1. /\ decisions'[p] = payload[c]
          /\ \A q \in Parts : q # p => decisions'[q] = decisions[q] /\ status'[q] = status[q]
      BY <1>0, <1>1, <1>2 DEF TypeOK
    <2>2. \A i \in Others : payload[CreateCall(p)][i] = filled[i]
      BY <1>1, <1>2
         DEF ClaimInv, ClaimsStored, ClaimsConfirmed, ClaimsSettling, ClaimsBroadcast,
             ClaimsCreated
    <2> QED BY <1>2, <2>1, <2>2
  <1>4. Resolved <=> Resolved'
    BY <1>1, <1>3 DEF Resolved, Plain, NoDecisions, SoleClaim
  <1>5. /\ \A x \in Calls : x # c => phase'[x] = phase[x]
        /\ phase'[c] = "listing"
    BY <1>0, <1>1 DEF TypeOK
  <1>6. ASSUME NEW q \in Others, NEW i \in Others,
               q # i, status'[q] # "absent", filled'[i] # "none", decisions'[q][i] \notin Unsigned
        PROVE  Resolved'
    <2>1. CASE q = p
      <3>1. filled[i] \in Unsigned
        BY <1>0, <1>1, <1>6, Signatures
      <3> QED BY <1>3, <1>6, <2>1, <3>1
    <2>2. CASE q # p
      BY <1>1, <1>3, <1>4, <1>6, <2>2
         DEF ClaimInv, ClaimsStored, ClaimsConfirmed, ClaimsSettling, ClaimsBroadcast,
             ClaimsCreated
    <2> QED BY <2>1, <2>2
  <1>7. \A q, j \in Others : /\ phase'[ConfirmCall(q)] = phase[ConfirmCall(q)]
                             /\ phase'[BcastCall(q, j)] = phase[BcastCall(q, j)]
                             /\ phase'[CreateCall(q)] # "none" => phase[CreateCall(q)] # "none"
    BY <1>1, <1>2, <1>5
  <1> QED BY <1>1, <1>4, <1>6, <1>7
     DEF ClaimInv, ClaimsStored, ClaimsConfirmed, ClaimsSettling, ClaimsBroadcast,
         ClaimsCreated

\* What a handler merges has passed check_decision.
LEMMA ClaimMerge ==
    ASSUME DecisionInv, ClaimInv, CallOrder, NEW c \in Calls, SyncMerge(c)
    PROVE  ClaimInv'
  <1> USE CallShape, CallKinds
  <1>0. TypeOK
    BY DEF DecisionInv
  <1>1. /\ phase[c] = "sent" /\ status[To(c)] # "absent"
        /\ decisions' = [decisions EXCEPT ![To(c)] = Merged(c)]
        /\ UNCHANGED <<status, payload, filled, creating>>
    BY DEF SyncMerge
  <1>2. /\ phase'[c] \in {"decide", "ok", "failed"}
        /\ \A x \in Calls : x # c => phase'[x] = phase[x]
    <2>1. CASE Settles(c)
      BY <1>0, <2>1 DEF SyncMerge, TypeOK
    <2>2. CASE ~Settles(c)
      BY <1>0, <2>2, ReplyType DEF SyncMerge
    <2> QED BY <2>1, <2>2
  <1>3. Resolved => Resolved'
    BY MergedSigned
  <1>4. ASSUME NEW q \in Others, NEW i \in Others,
               q # i, status'[q] # "absent", filled'[i] # "none", decisions'[q][i] \notin Unsigned
        PROVE  Resolved'
    <2>1. CASE To(c) = q
      <3>1. PICK p \in Others, j \in Others : c = BcastCall(p, j)
        BY <1>1, <2>1, MergeCalls
      <3> QED BY <1>1, <1>3, <3>1
         DEF ClaimInv, ClaimsStored, ClaimsConfirmed, ClaimsSettling, ClaimsBroadcast,
             ClaimsCreated
    <2>2. CASE To(c) # q
      <3>1. decisions'[q] = decisions[q]
        BY <1>0, <1>1, <2>2 DEF TypeOK
      <3> QED BY <1>1, <1>3, <1>4, <3>1
         DEF ClaimInv, ClaimsStored, ClaimsConfirmed, ClaimsSettling, ClaimsBroadcast,
             ClaimsCreated
    <2> QED BY <2>1, <2>2
  <1>5. \A x \in Calls : phase'[x] # "none" => phase[x] # "none"
    BY <1>1, <1>2
  <1>6. \A q \in Others : phase'[ConfirmCall(q)] \in {"decide", "bcast"} => Resolved'
    <2>1. ASSUME NEW q \in Others, phase'[ConfirmCall(q)] \in {"decide", "bcast"} PROVE Resolved'
      <3>1. CASE c = ConfirmCall(q)
        BY <3>1, MergedSigned
      <3>2. CASE c # ConfirmCall(q)
        BY <1>2, <1>3, <2>1, <3>2
           DEF ClaimInv, ClaimsStored, ClaimsConfirmed, ClaimsSettling, ClaimsBroadcast,
               ClaimsCreated
      <3> QED BY <3>1, <3>2
    <2> QED BY <2>1
  <1>7. \A q \in Others : phase'[ConfirmCall(q)] = "bcast" => phase[ConfirmCall(q)] = "bcast"
    BY <1>2
  <1> QED BY <1>1, <1>3, <1>4, <1>5, <1>6, <1>7
     DEF ClaimInv, ClaimsStored, ClaimsConfirmed, ClaimsSettling, ClaimsBroadcast,
         ClaimsCreated

\* The initiator broadcasts what it holds when it settles the task.
LEMMA ClaimDecide ==
    ASSUME DecisionInv, ClaimInv, CallOrder, NEW c \in Calls, DecidesOn(c)
    PROVE  ClaimInv'
  <1> USE CallShape, CallKinds
  <1>0. TypeOK
    BY DEF DecisionInv
  <1>1. /\ phase[c] = "decide" /\ status[To(c)] # "absent"
        /\ UNCHANGED <<decisions, filled, creating>>
        /\ \A x \in Calls : x # c => phase'[x] = phase[x]
        /\ phase'[c] \in {"ok", "failed", "bcast"}
        /\ phase'[c] = "bcast" => To(c) = 0
        /\ \A q \in Parts : status'[q] = "absent" <=> status[q] = "absent"
    <2>1. SettledAs(c) # "absent" /\ status[To(c)] # "absent"
      BY ValueTypes DEF DecidesOn, DecisionInv, VerdictSound
    <2>2. \A q \in Parts : status'[q] = "absent" <=> status[q] = "absent"
      BY <1>0, <2>1 DEF DecidesOn, TypeOK
    <2> QED BY <2>1, <2>2 DEF DecidesOn, Broadcasts
  <1>2. Resolved <=> Resolved'
    BY <1>1 DEF Resolved, Plain, NoDecisions, SoleClaim
  <1>3. \A q \in Others : /\ payload'[CreateCall(q)] = payload[CreateCall(q)]
                          /\ payload'[ConfirmCall(q)] = payload[ConfirmCall(q)]
    <2>1. \A q \in Others : CreateCall(q)[1] # "bcast" /\ ConfirmCall(q)[1] # "bcast"
      BY DEF CreateCall, ConfirmCall
    <2> QED BY <2>1 DEF DecidesOn
  <1>4. \A x \in Calls : phase'[x] # "none" => phase[x] # "none"
    BY <1>1
  <1>5. Resolved => \A i \in Others : filled[i] # "none" => decisions[0][i] \in Signable
    BY <1>0 DEF Resolved, SoleClaim, Plain, NoDecisions
  <1>6. ASSUME NEW q \in Others, NEW j \in Others,
               phase'[ConfirmCall(q)] = "bcast" \/ phase'[BcastCall(q, j)] # "none"
        PROVE  Resolved /\ \A i \in Others : filled[i] # "none" => payload'[BcastCall(q, j)][i] \in Signable
    <2>1. payload'[BcastCall(q, j)] \in {payload[BcastCall(q, j)], decisions[0]}
      BY DEF DecidesOn
    <2>2. CASE phase[ConfirmCall(q)] = "bcast" \/ phase[BcastCall(q, j)] # "none"
      BY <1>5, <2>1, <2>2
         DEF ClaimInv, ClaimsStored, ClaimsConfirmed, ClaimsSettling, ClaimsBroadcast,
             ClaimsCreated
    <2>3. CASE phase[ConfirmCall(q)] # "bcast" /\ phase[BcastCall(q, j)] = "none"
      <3>1. phase'[ConfirmCall(q)] = "bcast" /\ c = ConfirmCall(q)
        BY <1>1, <1>4, <1>6, <2>3
      <3>2. Resolved
        BY <1>1, <3>1
           DEF ClaimInv, ClaimsStored, ClaimsConfirmed, ClaimsSettling, ClaimsBroadcast,
               ClaimsCreated
      <3>3. BcastCall(q, j)[1] = "bcast" /\ BcastCall(q, j)[2] = c[2]
        BY <3>1 DEF BcastCall, ConfirmCall
      <3>4. payload'[BcastCall(q, j)] = decisions[0]
        BY <1>1, <3>1, <3>3 DEF DecidesOn
      <3> QED BY <1>5, <3>2, <3>4
    <2> QED BY <2>2, <2>3
  <1>7. \A q \in Others : phase'[ConfirmCall(q)] \in {"decide", "bcast"} => Resolved
    BY <1>1
       DEF ClaimInv, ClaimsStored, ClaimsConfirmed, ClaimsSettling, ClaimsBroadcast,
           ClaimsCreated
  <1>8. ClaimsStored'
    BY <1>1, <1>2 DEF ClaimInv, ClaimsStored
  <1> QED BY <1>1, <1>2, <1>3, <1>4, <1>6, <1>7, <1>8
     DEF ClaimInv, ClaimsStored, ClaimsConfirmed, ClaimsSettling, ClaimsBroadcast,
         ClaimsCreated

\* Every step keeps the claims of the create request where they belong.
LEMMA ClaimStep ==
    ASSUME DecisionInv, ClaimInv, CallOrder, [Next]_vars
    PROVE  ClaimInv'
  <1>0. TypeOK /\ StepKind
    BY StepKinds DEF DecisionInv
  <1>1. CASE Quiet
    BY <1>1, ClaimFrame DEF Quiet
  <1>2. CASE CreateTask
    BY <1>2, ClaimCreate
  <1>3. CASE \E i \in Others : CreateSend(i)
    BY <1>3, ClaimSend
  <1>4. CASE \E c \in Calls : SyncNew(c) \/ SyncMerge(c) \/ DecidesOn(c)
    BY <1>4, ClaimNew, ClaimMerge, ClaimDecide
  <1>5. CASE \E p \in Others, d \in Signable : Confirms(p, d)
    BY <1>5, ClaimConfirm
  <1>6. ASSUME NEW p \in Parts, Finishes(p) PROVE ClaimInv'
    <2>1. /\ UNCHANGED <<decisions, phase, payload, filled>>
          /\ \A q \in Parts : status'[q] = "absent" <=> status[q] = "absent"
      BY <1>0, <1>6 DEF Finishes, TypeOK
    <2>2. Resolved <=> Resolved'
      BY <2>1 DEF Resolved, Plain, NoDecisions, SoleClaim
    <2>3. ClaimsStored'
      BY <2>1, <2>2, CallShape DEF ClaimInv, ClaimsStored
    <2> QED BY <2>1, <2>2, <2>3, CallShape
            DEF ClaimInv, ClaimsConfirmed, ClaimsSettling, ClaimsBroadcast, ClaimsCreated
  <1> QED BY <1>0, <1>1, <1>2, <1>3, <1>4, <1>5, <1>6 DEF StepKind

-------------------------------------------------------------------------------
(* The lists of a core agree with the status of the task.                  *)

\* Whether _create_task, or the handler of the create call, is through with p.
Past(p) ==
    IF p = 0 THEN creating \in {"done", "failed"} ELSE phase[CreateCall(p)] \in {"ok", "failed"}

\* A task that is not listed yet still has the status it will be listed under,
\* and one that a cut section left out of a list was listed before.
ListsOf(p) ==
    /\ ListedRight(p)
    /\ (listed[p] = NoEntries /\ p \notin cut)
          => status[p] \in {"absent", IF p = 0 THEN FirstStatus ELSE "waiting"}
    /\ p \in cut => listed[p] = NoEntries /\ status[p] # "absent" /\ Past(p)

ListInv == CallOrder /\ \A p \in Parts : ListsOf(p)

\* Moving the task from one list to another leaves it in exactly one.
LEMMA ListMoved ==
    ASSUME TypeOK, NEW p \in Parts, ListsOf(p), NEW s \in Statuses, ChangeStatus(p, s)
    PROVE  /\ status[p] \in Statuses /\ listed[p] = Only(status[p]) /\ MayBeListed(p)
           /\ p \notin cut
           /\ status'[p] = s /\ listed'[p] = Only(s)
           /\ \A q \in Parts : q # p => status'[q] = status[q] /\ listed'[q] = listed[q]
  <1>1. status[p] \in Statuses /\ listed[p][status[p]] > 0
    BY DEF ChangeStatus, Removable
  <1>2. /\ status[p] \in Statuses /\ listed[p] = Only(status[p]) /\ MayBeListed(p)
        /\ p \notin cut
    <2>1. CASE listed[p] = NoEntries
      BY <1>1, <2>1 DEF NoEntries
    <2>2. CASE listed[p] # NoEntries
      BY <2>2 DEF ListsOf, ListedRight
    <2> QED BY <2>1, <2>2
  <1>3. listed'[p] = [t \in Statuses |-> (listed[p][t] - (IF t = status[p] THEN 1 ELSE 0))
                                           + (IF t = s THEN 1 ELSE 0)]
    BY DEF ChangeStatus, TypeOK
  <1>4. listed'[p] = Only(s)
    <2>1. \A t \in Statuses : Only(status[p])[t] = (IF t = status[p] THEN 1 ELSE 0)
      BY <1>2 DEF Only, NoEntries
    <2>2. Only(s) = [t \in Statuses |-> IF t = s THEN 1 ELSE 0]
      BY DEF Only, NoEntries
    <2>3. listed'[p] = [t \in Statuses |-> IF t = s THEN 1 ELSE 0]
      <3>1. \A t \in Statuses : (listed[p][t] - (IF t = status[p] THEN 1 ELSE 0))
                                  + (IF t = s THEN 1 ELSE 0) = (IF t = s THEN 1 ELSE 0)
        BY <1>2, <2>1
      <3> QED BY <1>3, <3>1
    <2> QED BY <2>2, <2>3
  <1> QED BY <1>2, <1>4 DEF ChangeStatus, TypeOK

\* Empty lists and one-entry lists differ.
LEMMA OnlyEntries ==
    ASSUME NEW s \in Statuses
    PROVE  /\ Only(s) # NoEntries
           /\ \A t \in Statuses : Only(s) = Only(t) => s = t
  <1>1. Only(s)[s] = 1 /\ NoEntries[s] = 0
    BY DEF Only, NoEntries
  <1>2. \A t \in Statuses : t # s => Only(t)[s] = 0
    BY DEF Only, NoEntries
  <1> QED BY <1>1, <1>2

\* A section that is cut off after the removal leaves the task in no list.
LEMMA ListCut ==
    ASSUME TypeOK, NEW p \in Parts, ListsOf(p), NEW s \in Statuses, NEW d, CutStatus(p, s, d)
    PROVE  /\ status[p] \in Statuses /\ MayBeListed(p) /\ p \notin cut
           /\ status'[p] \in Statuses /\ listed'[p] = NoEntries /\ cut' = cut \cup {p}
           /\ \A q \in Parts : q # p => status'[q] = status[q] /\ listed'[q] = listed[q]
  <1>1. status[p] \in Statuses /\ listed[p][status[p]] > 0
    BY DEF CutStatus, Removable
  <1>2. /\ listed[p] = Only(status[p]) /\ MayBeListed(p) /\ p \notin cut
    <2>1. CASE listed[p] = NoEntries
      BY <1>1, <2>1 DEF NoEntries
    <2>2. CASE listed[p] # NoEntries
      BY <2>2 DEF ListsOf, ListedRight
    <2> QED BY <2>1, <2>2
  <1>3. listed' = [listed EXCEPT ![p][status[p]] = @ - 1]
    BY <1>2 DEF CutStatus
  <1>4. listed'[p] = NoEntries
    <2>1. listed'[p] = [Only(status[p]) EXCEPT ![status[p]] = Only(status[p])[status[p]] - 1]
      BY <1>1, <1>2, <1>3 DEF TypeOK
    <2>2. Only(status[p])[status[p]] - 1 = 0
      BY <1>1 DEF Only, NoEntries
    <2> QED BY <1>1, <2>1, <2>2 DEF Only, NoEntries
  <1> QED BY <1>1, <1>2, <1>3, <1>4 DEF CutStatus, TypeOK

\* A new entry in empty lists is the only one.
LEMMA ListAdded ==
    ASSUME TypeOK, NEW p \in Parts, NEW s \in Statuses, Add(p, s), listed[p] = NoEntries
    PROVE  /\ listed'[p] = Only(s)
           /\ \A q \in Parts : q # p => listed'[q] = listed[q]
  <1>1. listed'[p] = [NoEntries EXCEPT ![s] = NoEntries[s] + 1]
    BY DEF Add, TypeOK
  <1>2. NoEntries[s] + 1 = 1
    BY DEF NoEntries
  <1> QED BY <1>1, <1>2 DEF Add, TypeOK, Only

\* No step breaks the order in which the calls of a task depend on each other.
LEMMA OrderStep ==
    ASSUME DecisionInv, ListInv, [Next]_vars
    PROVE  CallOrder'
  <1> USE CallShape, CallKinds DEF ListInv
  <1>0. TypeOK
    BY DEF DecisionInv
  <1>1. CASE CreateTask
    <2>1. /\ status'[0] # "absent"
          /\ \A p \in Others : status'[p] = status[p]
          /\ creating = "idle" /\ creating' = "sending" /\ phase' = phase
      BY <1>0, <1>1, ValueTypes DEF CreateTask, TypeOK
    <2> QED BY <2>1 DEF CallOrder
  <1>2. ASSUME NEW i \in Others, CreateSend(i) PROVE CallOrder'
    BY <1>0, <1>2 DEF CreateSend, task, TypeOK, CallOrder
  <1>3. CASE CreateFail
    BY <1>3 DEF CreateFail, task, CallOrder
  <1>4. CASE CreateList \/ CreateListCut
    BY <1>4 DEF CreateList, CreateListCut, CallOrder
  <1>5. ASSUME NEW p \in Others, NEW d \in Signable, Confirms(p, d)
        PROVE  CallOrder'
    <2>1. /\ status[p] = "waiting" /\ status'[p] # "absent"
          /\ \A q \in Parts : q # p => status'[q] = status[q]
          /\ creating' = creating
      <3>1. ConfirmedAs(p, d) # "absent"
        BY <1>0, ValueTypes
      <3> QED BY <1>0, <1>5, <3>1 DEF Confirms, TypeOK
    <2>2. \A q \in Others : status'[q] = "absent" <=> status[q] = "absent"
      BY <2>1
    <2>3. /\ \A q \in Others : phase'[CreateCall(q)] = phase[CreateCall(q)]
          /\ \A q \in Others : q # p => phase'[ConfirmCall(q)] = phase[ConfirmCall(q)]
          /\ phase'[ConfirmCall(p)] \in {phase[ConfirmCall(p)], "sent"}
          /\ \A q, i \in Others : phase'[BcastCall(q, i)] = phase[BcastCall(q, i)]
      BY <1>0, <1>5 DEF Confirms, TypeOK
    <2> QED BY <2>1, <2>2, <2>3 DEF CallOrder
  <1>6. ASSUME NEW p \in Parts, Finishes(p) PROVE CallOrder'
    <2>1. \A q \in Parts : status'[q] = "absent" <=> status[q] = "absent"
      BY <1>0, <1>6 DEF Finishes, TypeOK
    <2> QED BY <1>6, <2>1 DEF Finishes, CallOrder
  <1>7. ASSUME NEW c \in Calls, SyncNew(c) PROVE CallOrder'
    <2>1. /\ phase[c] = "sent" /\ status[To(c)] = "absent"
          /\ phase' = [phase EXCEPT ![c] = "listing"]
          /\ status' = [status EXCEPT ![To(c)] = "waiting"]
          /\ creating' = creating
      BY <1>7 DEF SyncNew
    <2>2. PICK i \in Others : c = CreateCall(i)
      <3>1. ASSUME NEW p \in Others, c = ConfirmCall(p) PROVE FALSE
        <4>1. status[p] # "absent" /\ phase[CreateCall(p)] # "none"
          BY <2>1, <3>1 DEF CallOrder
        <4>2. creating # "idle"
          BY <4>1 DEF CallOrder
        <4> QED BY <2>1, <3>1, <4>2 DEF DecisionInv, NotYetSigned
      <3>2. ASSUME NEW p \in Others, NEW i \in Others, c = BcastCall(p, i) PROVE FALSE
        BY <2>1, <3>2 DEF CallOrder
      <3> QED BY <3>1, <3>2, CallCases
    <2> QED BY <1>0, <2>1, <2>2 DEF TypeOK, CallOrder
  <1>8. ASSUME NEW c \in Calls, SyncList(c) \/ SyncListCut(c) PROVE CallOrder'
    <2>1. /\ phase[c] = "listing" /\ status' = status /\ creating' = creating
          /\ phase'[c] \in {"ok", "failed"}
          /\ \A x \in Calls : x # c => phase'[x] = phase[x]
      <3>1. CASE SyncList(c)
        BY <1>0, <3>1, ReplyType DEF SyncList
      <3>2. CASE SyncListCut(c)
        BY <1>0, <3>2 DEF SyncListCut, TypeOK
      <3> QED BY <1>8, <3>1, <3>2
    <2>2. PICK i \in Others : c = CreateCall(i)
      BY <2>1, CallCases DEF CallOrder
    <2> QED BY <2>1, <2>2 DEF CallOrder
  <1>9. ASSUME NEW c \in Calls, SyncMerge(c) PROVE CallOrder'
    <2>1. /\ phase[c] = "sent" /\ status[To(c)] # "absent"
          /\ status' = status /\ creating' = creating
      BY <1>9 DEF SyncMerge
    <2>2. /\ phase'[c] \in {"decide", "ok", "failed"}
          /\ \A x \in Calls : x # c => phase'[x] = phase[x]
      <3>1. CASE Settles(c)
        BY <1>0, <1>9, <3>1 DEF SyncMerge, TypeOK
      <3>2. CASE ~Settles(c)
        BY <1>0, <1>9, <3>2, ReplyType DEF SyncMerge
      <3> QED BY <3>1, <3>2
    <2>3. \A i \in Others : c # CreateCall(i)
      BY <2>1 DEF CallOrder
    <2> QED BY <2>1, <2>2, <2>3 DEF CallOrder
  <1>10. ASSUME NEW c \in Calls, Decide(c) \/ DecideCut(c), DecidesOn(c) PROVE CallOrder'
    <2>1. /\ phase[c] = "decide" /\ creating' = creating
          /\ status[To(c)] # "absent" /\ SettledAs(c) # "absent"
      BY <1>10, ValueTypes DEF DecidesOn, DecisionInv, VerdictSound
    <2>2. \A q \in Parts : status'[q] = "absent" <=> status[q] = "absent"
      BY <1>0, <1>10, <2>1 DEF DecidesOn, TypeOK
    <2>3. /\ phase'[c] \in {"bcast", "ok", "failed"}
          /\ \A x \in Calls : x # c => phase'[x] = phase[x]
          /\ phase'[c] = "bcast" => To(c) = 0
      BY <1>10 DEF DecidesOn, Broadcasts
    <2>4. \A i \in Others : c # CreateCall(i)
      BY <2>1 DEF CallOrder
    <2>5. To(c) = 0 => creating = "done"
      <3>1. \A s \in Statuses : ChangeStatus(To(c), s) => MayBeListed(To(c))
        BY <1>0, ListMoved
      <3>2. \A s \in Statuses : CutStatus(To(c), s, decisions[To(c)]) => MayBeListed(To(c))
        BY <1>0, ListCut
      <3>3. SettledAs(c) \in Statuses
        BY ValueTypes DEF Statuses
      <3>4. ChangeStatus(To(c), SettledAs(c)) \/ CutStatus(To(c), SettledAs(c), decisions[To(c)])
        BY <1>10 DEF Decide, DecideCut
      <3> QED BY <3>1, <3>2, <3>3, <3>4 DEF MayBeListed
    <2> QED BY <2>1, <2>2, <2>3, <2>4, <2>5 DEF CallOrder
  <1>11. ASSUME NEW c \in Calls, SyncRefuse(c) \/ DecideFail(c) \/ Lose(c) PROVE CallOrder'
    <2>1. /\ phase[c] # "none" /\ phase[c] # "ok" /\ status' = status /\ creating' = creating
          /\ phase' = [phase EXCEPT ![c] = "failed"]
      BY <1>11 DEF SyncRefuse, DecideFail, Lose, task
    <2> QED BY <1>0, <2>1 DEF CallOrder, TypeOK
  <1>12. ASSUME NEW p \in Others, Broadcast(p) PROVE CallOrder'
    <2>1. /\ status' = status /\ creating' = creating
          /\ phase[ConfirmCall(p)] = "bcast"
      BY <1>12 DEF Broadcast, BcastDone, BcastFail, BcastSend, task
    <2>2. CASE BcastDone(p) \/ BcastFail(p)
      <3>1. /\ phase'[ConfirmCall(p)] \in {"ok", "failed"}
            /\ \A x \in Calls : x # ConfirmCall(p) => phase'[x] = phase[x]
        BY <1>0, <2>2, ReplyType DEF BcastDone, BcastFail, TypeOK
      <3> QED BY <2>1, <3>1 DEF CallOrder
    <2>3. ASSUME NEW i \in Others, BcastSend(p, i) PROVE CallOrder'
      <3>1. /\ phase'[BcastCall(p, i)] = "sent"
            /\ \A x \in Calls : x # BcastCall(p, i) => phase'[x] = phase[x]
        BY <1>0, <2>3 DEF BcastSend, TypeOK
      <3> QED BY <2>1, <3>1 DEF CallOrder
    <2> QED BY <1>12, <2>2, <2>3 DEF Broadcast
  <1>13. CASE UNCHANGED vars \/ \E p \in Parts : Expire(p)
    BY <1>13 DEF Expire, vars, task, CallOrder
  <1>14. ASSUME UNCHANGED <<status, creating>>,
                \A c \in Calls : \/ phase'[c] = phase[c]
                                 \/ phase'[c] = "failed" /\ phase[c] = "decide"
         PROVE  CallOrder'
    BY <1>14 DEF CallOrder
  <1>15. ASSUME NEW p \in Others, NEW d \in Signable, ConfirmTask(p, d) \/ ConfirmCut(p, d)
         PROVE  CallOrder'
    <2>1. Confirms(p, d) \/ UNCHANGED <<status, creating, phase>>
      BY <1>0, <1>15, CutStored DEF ConfirmTask, ConfirmCut, Confirmable, ChangeStatus, Confirms
    <2> QED BY <1>5, <1>14, <2>1
  <1>16. ASSUME NEW p \in Parts, FinishTask(p) \/ FinishCut(p) PROVE CallOrder'
    <2>1. Finishes(p) \/ UNCHANGED <<status, creating, phase>>
      <3>1. [decisions EXCEPT ![p] = decisions[p]] = decisions
        BY <1>0 DEF TypeOK
      <3> QED BY <1>0, <1>16, <3>1, CutStored DEF FinishTask, FinishCut, ChangeStatus, Finishes
    <2> QED BY <1>6, <1>14, <2>1
  <1>17. ASSUME NEW c \in Calls, Decide(c) \/ DecideCut(c) PROVE CallOrder'
    <2>1. CASE DecidesOn(c)
      BY <1>10, <1>17, <2>1
    <2>2. CASE ~DecidesOn(c)
      <3>1. Quiet /\ DecideCut(c)
        BY <1>0, <1>17, <2>2, DecideKind, DecidedOn
      <3> QED BY <1>0, <1>14, <3>1 DEF Quiet, DecideCut, TypeOK
    <2> QED BY <2>1, <2>2
  <1> QED BY <1>1, <1>2, <1>3, <1>4, <1>7, <1>8, <1>9, <1>11, <1>12, <1>13, <1>15, <1>16, <1>17
          DEF Next, Creation, Handler, User

\* A participant's lists stay right if neither they nor its status change and
\* the call that lists the task neither ends nor is taken back.
LEMMA ListsFrame ==
    ASSUME NEW p \in Parts, ListsOf(p),
           status'[p] = status[p], listed'[p] = listed[p], p \in cut' <=> p \in cut,
           MayBeListed(p) => MayBeListed(p)', MustBeListed(p)' => MustBeListed(p),
           Past(p) => Past(p)'
    PROVE  ListsOf(p)'
  BY DEF ListsOf, ListedRight

\* What the lists of q wait for, in a step that neither begins nor ends it.
SameListing(q) ==
    /\ MayBeListed(q) => MayBeListed(q)'
    /\ MustBeListed(q)' => MustBeListed(q)
    /\ Past(q) => Past(q)'

\* The handlers that move a listed task leave it listed once, or, cut off, in
\* no list: on any of the cores whose lists were right before.
LEMMA ListsChanged ==
    ASSUME TypeOK, NEW S \in SUBSET Parts, \A q \in S : ListsOf(q) /\ SameListing(q),
           NEW p \in Parts, NEW s \in Statuses, NEW d,
           (ChangeStatus(p, s) /\ UNCHANGED cut) \/ CutStatus(p, s, d)
    PROVE  \A q \in S : ListsOf(q)'
  <1> SUFFICES ASSUME NEW q \in S PROVE ListsOf(q)'
    OBVIOUS
  <1>1. CASE q # p
    <2>1. /\ status'[q] = status[q] /\ listed'[q] = listed[q]
          /\ q \in cut' <=> q \in cut
      BY <1>1 DEF ChangeStatus, CutStatus, TypeOK
    <2> QED BY <2>1, ListsFrame DEF SameListing
  <1>2. CASE q = p /\ ChangeStatus(p, s) /\ UNCHANGED cut
    <2>1. MayBeListed(p) /\ p \notin cut /\ status'[p] = s /\ listed'[p] = Only(s)
      BY <1>2, ListMoved
    <2> QED BY <1>2, <2>1, OnlyEntries DEF ListsOf, ListedRight, SameListing
  <1>3. CASE q = p /\ CutStatus(p, s, d)
    <2>1. MayBeListed(p) /\ p \in cut' /\ status'[p] \in Statuses /\ listed'[p] = NoEntries
      BY <1>3, ListCut
    <2>2. Past(p)'
      BY <1>3, <2>1 DEF SameListing, MayBeListed, Past
    <2>3. status'[p] # "absent"
      BY <2>1 DEF Statuses
    <2> QED BY <1>3, <2>1, <2>2, <2>3 DEF ListsOf, ListedRight, MustBeListed
  <1> QED BY <1>1, <1>2, <1>3

\* The first listing, when it is cut off, leaves the task in no list.
LEMMA ListLeft ==
    ASSUME TypeOK, NEW S \in SUBSET Parts, NEW p \in Parts, NEW s \in Statuses,
           CutAdd(p, s), UNCHANGED status,
           p \in S => status[p] # "absent" /\ listed[p] = NoEntries /\ Past(p)',
           \A q \in S : ListsOf(q) /\ (q # p => SameListing(q))
    PROVE  \A q \in S : ListsOf(q)'
  <1>1. /\ p \in S => listed'[p] = NoEntries /\ p \in cut' /\ status'[p] # "absent"
        /\ \A q \in Parts : q # p => (q \in cut' <=> q \in cut)
        /\ UNCHANGED listed
    BY DEF CutAdd
  <1>2. p \in S => ListsOf(p)'
    BY <1>1 DEF ListsOf, ListedRight, MustBeListed
  <1>3. ASSUME NEW q \in S, q # p PROVE ListsOf(q)'
    BY <1>1, <1>3, ListsFrame DEF SameListing
  <1> QED BY <1>2, <1>3

\* No step breaks the lists: _create_task and the handler of a new task list
\* it once, and whatever changes the status afterwards moves it.
LEMMA ListsStep ==
    ASSUME DecisionInv, ListInv, [Next]_vars
    PROVE  \A p \in Parts : ListsOf(p)'
  <1> USE CallShape, CallKinds
  <1> USE DEF SameListing
  <1>0. /\ TypeOK /\ CallOrder /\ CallOrder'
        /\ \A p \in Parts : ListsOf(p)
        /\ \A p \in Parts : p # 0 => p \in Others
    BY OrderStep, Signatures DEF DecisionInv, ListInv
  <1>1. CASE CreateTask
    <2>1. /\ creating = "idle" /\ creating' = "sending"
          /\ status[0] = "absent" /\ status'[0] = FirstStatus
          /\ \A p \in Parts : p # 0 => status'[p] = status[p]
          /\ UNCHANGED <<listed, phase, cut>>
      BY <1>0, <1>1 DEF CreateTask, TypeOK, DecisionInv, NotYetSigned
    <2>2. listed[0] = NoEntries /\ 0 \notin cut
      BY <1>0, <2>1 DEF ListsOf, ListedRight, MayBeListed, Past
    <2>3. ListsOf(0)'
      BY <2>1, <2>2 DEF ListsOf, ListedRight, MayBeListed, MustBeListed, Past
    <2>4. ASSUME NEW p \in Parts, p # 0 PROVE ListsOf(p)'
      BY <1>0, <2>1, <2>4, ListsFrame DEF MayBeListed, MustBeListed, Past
    <2> QED BY <2>3, <2>4
  <1>2. ASSUME NEW i \in Others, CreateSend(i) PROVE \A p \in Parts : ListsOf(p)'
    <2>1. /\ UNCHANGED <<status, listed, creating, cut>>
          /\ phase[CreateCall(i)] = "none"
          /\ phase'[CreateCall(i)] = "sent"
          /\ \A x \in Calls : x # CreateCall(i) => phase'[x] = phase[x]
      BY <1>0, <1>2 DEF CreateSend, task, TypeOK
    <2>2. \A p \in Parts : p # 0 => p \in Others
      BY DEF Parts, Others
    <2> QED BY <1>0, <2>1, <2>2, ListsFrame DEF MayBeListed, MustBeListed, Past
  <1>3. CASE CreateFail
    BY <1>0, <1>3, ListsFrame DEF CreateFail, task, MayBeListed, MustBeListed, Past
  <1>4. CASE CreateList
    <2>1. /\ creating = "sending" /\ creating' = "done" /\ Add(0, FirstStatus)
          /\ UNCHANGED <<status, phase, cut>>
      BY <1>4 DEF CreateList
    <2>2. FirstStatus \in Statuses
      BY ValueTypes DEF Statuses
    <2>3. listed[0] = NoEntries /\ 0 \notin cut
      BY <1>0, <2>1 DEF ListsOf, ListedRight, MayBeListed, Past
    <2>4. status[0] = FirstStatus
      BY <1>0, <2>1, <2>3 DEF ListsOf, ListedRight, DecisionInv, NotYetSigned
    <2>5. /\ listed'[0] = Only(FirstStatus)
          /\ \A q \in Parts : q # 0 => listed'[q] = listed[q]
      BY <1>0, <2>1, <2>2, <2>3, ListAdded
    <2>6. ListsOf(0)'
      <3>1. listed'[0] # NoEntries
        BY <2>2, <2>5, OnlyEntries
      <3> QED BY <2>1, <2>2, <2>3, <2>4, <2>5, <3>1 DEF ListsOf, ListedRight, MayBeListed, Past
    <2>7. ASSUME NEW p \in Parts, p # 0 PROVE ListsOf(p)'
      BY <1>0, <2>1, <2>5, <2>7, ListsFrame DEF MayBeListed, MustBeListed, Past
    <2> QED BY <2>6, <2>7
  <1>5. ASSUME NEW p \in Others, NEW d \in Signable, ConfirmTask(p, d) \/ ConfirmCut(p, d)
        PROVE  \A q \in Parts : ListsOf(q)'
    <2>1. PICK s \in Statuses : \/ ChangeStatus(p, s) /\ UNCHANGED cut
                               \/ CutStatus(p, s, Mine(p, d))
      BY <1>0, <1>5, ValueTypes DEF ConfirmTask, ConfirmCut, Statuses
    <2>2. /\ \A i \in Others : phase'[CreateCall(i)] = phase[CreateCall(i)]
          /\ creating' = creating /\ (UNCHANGED cut \/ cut' = cut \cup {p})
      BY <1>0, <1>5 DEF ConfirmTask, ConfirmCut, CutStatus, TypeOK
    <2>3. \A q \in Parts : SameListing(q)
      BY <1>0, <2>2 DEF MayBeListed, MustBeListed, Past
    <2> QED BY <1>0, <2>1, <2>3, ListsChanged
  <1>6. ASSUME NEW p \in Parts, FinishTask(p) \/ FinishCut(p) PROVE \A q \in Parts : ListsOf(q)'
    <2>1. /\ "finished" \in Statuses /\ UNCHANGED <<creating, phase>>
          /\ \/ ChangeStatus(p, "finished") /\ UNCHANGED cut
             \/ CutStatus(p, "finished", decisions[p]) /\ cut' = cut \cup {p}
      BY <1>6 DEF FinishTask, FinishCut, CutStatus, Statuses
    <2>2. \A q \in Parts : SameListing(q)
      BY <2>1 DEF MayBeListed, MustBeListed, Past
    <2> QED BY <1>0, <2>1, <2>2, ListsChanged
  <1>7. ASSUME NEW c \in Calls, SyncNew(c) PROVE \A p \in Parts : ListsOf(p)'
    <2>1. /\ phase[c] = "sent" /\ status[To(c)] = "absent" /\ phase'[c] = "listing"
          /\ \A x \in Calls : x # c => phase'[x] = phase[x]
          /\ status'[To(c)] = "waiting"
          /\ \A p \in Parts : p # To(c) => status'[p] = status[p]
          /\ UNCHANGED <<creating, listed, cut>>
      BY <1>0, <1>7 DEF SyncNew, TypeOK
    <2>2. PICK i \in Others : c = CreateCall(i)
      <3>1. phase'[c] = "listing" => \E i \in Others : c = CreateCall(i)
        BY <1>0, CallCases DEF CallOrder
      <3> QED BY <2>1, <3>1
    <2>3. listed[i] = NoEntries /\ i \notin cut
      BY <1>0, <2>1, <2>2 DEF ListsOf, ListedRight, MayBeListed, Past
    <2>4. ListsOf(i)'
      BY <2>1, <2>2, <2>3 DEF ListsOf, ListedRight, MustBeListed
    <2>5. ASSUME NEW p \in Parts, p # i PROVE ListsOf(p)'
      <3>1. p # 0 => p \in Others
        BY DEF Parts, Others
      <3> QED BY <1>0, <2>1, <2>2, <2>5, <3>1, ListsFrame DEF MayBeListed, MustBeListed, Past
    <2> QED BY <2>4, <2>5
  <1>8. ASSUME NEW c \in Calls, SyncList(c) PROVE \A p \in Parts : ListsOf(p)'
    <2>1. /\ phase[c] = "listing" /\ UNCHANGED <<status, creating, cut>>
          /\ phase'[c] \in {"ok", "failed"} /\ Add(To(c), "waiting")
          /\ \A x \in Calls : x # c => phase'[x] = phase[x]
      BY <1>0, <1>8, ReplyType DEF SyncList
    <2>2. PICK i \in Others : c = CreateCall(i)
      BY <1>0, <2>1, CallCases DEF CallOrder
    <2>3. /\ listed[i] = NoEntries /\ i \notin cut
          /\ status[i] = "waiting" /\ "waiting" \in Statuses
      BY <1>0, <2>1, <2>2 DEF ListsOf, ListedRight, MayBeListed, Past, CallOrder, Statuses
    <2>4. /\ listed'[i] = Only("waiting")
          /\ \A q \in Parts : q # i => listed'[q] = listed[q]
      BY <1>0, <2>1, <2>2, <2>3, ListAdded
    <2>5. ListsOf(i)'
      BY <2>1, <2>2, <2>3, <2>4, OnlyEntries DEF ListsOf, ListedRight, MayBeListed, Past
    <2>6. ASSUME NEW p \in Parts, p # i PROVE ListsOf(p)'
      <3>1. p # 0 => p \in Others
        BY DEF Parts, Others
      <3> QED BY <1>0, <2>1, <2>2, <2>4, <2>6, <3>1, ListsFrame DEF MayBeListed, MustBeListed, Past
    <2> QED BY <2>5, <2>6
  <1>9. ASSUME NEW c \in Calls, \A i \in Others : c # CreateCall(i),
               UNCHANGED <<status, listed, creating, cut>>,
               \A x \in Calls : x # c => phase'[x] = phase[x]
        PROVE  \A p \in Parts : ListsOf(p)'
    <2>1. \A p \in Parts : p # 0 => p \in Others
      BY DEF Parts, Others
    <2> QED BY <1>0, <1>9, <2>1, ListsFrame DEF MayBeListed, MustBeListed, Past
  <1>10. ASSUME NEW c \in Calls, SyncMerge(c) PROVE \A p \in Parts : ListsOf(p)'
    <2>1. /\ phase[c] = "sent" /\ status[To(c)] # "absent"
          /\ UNCHANGED <<status, listed, creating, cut>>
      BY <1>10 DEF SyncMerge
    <2>2. \A x \in Calls : x # c => phase'[x] = phase[x]
      <3>1. CASE Settles(c)
        BY <1>0, <1>10, <3>1 DEF SyncMerge, TypeOK
      <3>2. CASE ~Settles(c)
        BY <1>0, <1>10, <3>2, ReplyType DEF SyncMerge
      <3> QED BY <3>1, <3>2
    <2>3. \A i \in Others : c # CreateCall(i)
      BY <1>0, <2>1 DEF CallOrder
    <2> QED BY <1>9, <2>1, <2>2, <2>3
  <1>11. ASSUME NEW c \in Calls, Decide(c) \/ DecideCut(c) PROVE \A p \in Parts : ListsOf(p)'
    <2>1. /\ phase[c] = "decide" /\ creating' = creating
          /\ \A x \in Calls : x # c => phase'[x] = phase[x]
      <3>1. CASE Decide(c)
        BY <1>0, <3>1, DecidedOn DEF DecidesOn
      <3>2. CASE DecideCut(c)
        BY <1>0, <3>2 DEF DecideCut, TypeOK
      <3> QED BY <1>11, <3>1, <3>2
    <2>2. \A i \in Others : c # CreateCall(i)
      BY <1>0, <2>1 DEF CallOrder
    <2>3. /\ SettledAs(c) \in Statuses
          /\ \/ ChangeStatus(To(c), SettledAs(c)) /\ UNCHANGED cut
             \/ CutStatus(To(c), SettledAs(c), decisions[To(c)]) /\ cut' = cut \cup {To(c)}
      BY <1>11, ValueTypes DEF Decide, DecideCut, CutStatus, Statuses
    <2>4. \A q \in Parts : SameListing(q)
      BY <1>0, <2>1, <2>2, <2>3 DEF MayBeListed, MustBeListed, Past
    <2> QED BY <1>0, <2>1, <2>3, <2>4, ListsChanged
  <1>12. ASSUME NEW c \in Calls, SyncRefuse(c) \/ DecideFail(c) \/ Lose(c)
         PROVE  \A p \in Parts : ListsOf(p)'
    <2>1. /\ phase[c] # "ok" /\ UNCHANGED <<status, listed, creating, cut>>
          /\ phase'[c] = "failed"
          /\ \A x \in Calls : x # c => phase'[x] = phase[x]
      BY <1>0, <1>12 DEF SyncRefuse, DecideFail, Lose, task, TypeOK
    <2>2. \A p \in Parts : p # 0 => p \in Others
      BY DEF Parts, Others
    <2> QED BY <1>0, <2>1, <2>2, ListsFrame DEF MayBeListed, MustBeListed, Past
  <1>13. ASSUME NEW p \in Others, Broadcast(p) PROVE \A q \in Parts : ListsOf(q)'
    <2>1. UNCHANGED <<status, listed, creating, cut>>
      BY <1>13 DEF Broadcast, BcastDone, BcastFail, BcastSend, task
    <2>2. CASE BcastDone(p) \/ BcastFail(p)
      <3>1. \A x \in Calls : x # ConfirmCall(p) => phase'[x] = phase[x]
        BY <1>0, <2>2, ReplyType DEF BcastDone, BcastFail, TypeOK
      <3> QED BY <1>9, <2>1, <3>1
    <2>3. ASSUME NEW i \in Others, BcastSend(p, i) PROVE \A q \in Parts : ListsOf(q)'
      <3>1. \A x \in Calls : x # BcastCall(p, i) => phase'[x] = phase[x]
        BY <1>0, <2>3 DEF BcastSend, TypeOK
      <3> QED BY <1>9, <2>1, <3>1
    <2> QED BY <1>13, <2>2, <2>3 DEF Broadcast
  <1>14. CASE UNCHANGED vars \/ \E p \in Parts : Expire(p)
    BY <1>0, <1>14, ListsFrame DEF Expire, vars, task, MayBeListed, MustBeListed, Past
  <1>15. CASE CreateListCut
    <2>1. /\ creating = "sending" /\ creating' = "failed" /\ CutAdd(0, FirstStatus)
          /\ UNCHANGED <<status, phase>> /\ FirstStatus \in Statuses
      BY <1>15, ValueTypes DEF CreateListCut, Statuses
    <2>2. listed[0] = NoEntries /\ status[0] # "absent" /\ Past(0)'
      BY <1>0, <2>1 DEF ListsOf, ListedRight, MayBeListed, Past, DecisionInv, NotYetSigned
    <2>3. \A q \in Parts : q # 0 => SameListing(q)
      BY <2>1 DEF MayBeListed, MustBeListed, Past, CutAdd
    <2> QED BY <1>0, <2>1, <2>2, <2>3, ListLeft
  <1>16. ASSUME NEW c \in Calls, SyncListCut(c) PROVE \A p \in Parts : ListsOf(p)'
    <2>1. /\ phase[c] = "listing" /\ UNCHANGED <<status, creating>>
          /\ phase'[c] = "failed" /\ CutAdd(To(c), "waiting") /\ "waiting" \in Statuses
          /\ \A x \in Calls : x # c => phase'[x] = phase[x]
      BY <1>0, <1>16 DEF SyncListCut, TypeOK, Statuses
    <2>2. PICK i \in Others : c = CreateCall(i)
      BY <1>0, <2>1, CallCases DEF CallOrder
    <2>3. listed[i] = NoEntries /\ status[i] # "absent" /\ Past(i)'
      BY <1>0, <2>1, <2>2 DEF ListsOf, ListedRight, MayBeListed, Past, CallOrder
    <2>4. \A q \in Parts : q # i => SameListing(q)
      BY <1>0, <2>1, <2>2 DEF MayBeListed, MustBeListed, Past, CutAdd
    <2> QED BY <1>0, <2>1, <2>2, <2>3, <2>4, ListLeft
  <1> QED BY <1>1, <1>2, <1>3, <1>4, <1>5, <1>6, <1>7, <1>8, <1>10, <1>11, <1>12, <1>13, <1>14,
             <1>15, <1>16
          DEF Next, Creation, Handler, User

\* Before _create_task there is no call and no list entry.
LEMMA ListInit == Init => ListInv
  <1> SUFFICES ASSUME Init PROVE ListInv
    OBVIOUS
  <1>1. CallOrder
    BY CallShape, CallKinds DEF Init, CallOrder
  <1>2. \A p \in Parts : p # 0 => p \in Others
    BY DEF Parts, Others
  <1>3. \A p \in Parts : ~MustBeListed(p)
    BY <1>2, CallShape DEF Init, MustBeListed
  <1>4. \A p \in Parts : ListsOf(p)
    BY <1>3 DEF Init, ListsOf, ListedRight
  <1> QED BY <1>1, <1>4 DEF ListInv

LEMMA ListStep ==
    ASSUME DecisionInv, ListInv, [Next]_vars
    PROVE  ListInv'
  BY OrderStep, ListsStep DEF ListInv

\* What a core stores, has sent or has concluded about a task is what the
\* participants signed, or what the create request brought, at every point
\* where a handler can be interrupted; and the lists follow the status, in step
\* with the call that lists the task first.
THEOREM DecisionInvariant == Spec => [](DecisionInv /\ ClaimInv /\ ListInv)
  <1>1. Init => DecisionInv /\ ClaimInv /\ ListInv
    BY DecisionInit, ClaimInit, ListInit
  <1>2. DecisionInv /\ ClaimInv /\ ListInv /\ [Next]_vars => (DecisionInv /\ ClaimInv /\ ListInv)'
    BY DecisionStep, ClaimStep, ListStep DEF ListInv
  <1> QED BY <1>1, <1>2, PTL DEF Spec

\* No core starts a task that a participant has not approved, unless it is not
\* the initiator's and takes the create request's word for it; and none rejects
\* a task that nobody rejected.
THEOREM AgreementCorrect == Spec => []Agreement
  <1>1. DecisionInv => Agreement
    BY DEF DecisionInv, Justified, Backed, Agreement
  <1> QED BY <1>1, DecisionInvariant, PTL

\* Stores and messages only ever hold decisions their participants signed, and
\* those of the create request.
THEOREM GenuineCorrect == Spec => []DecisionsGenuine
  <1>1. DecisionInv => DecisionsGenuine
    BY DEF DecisionInv
  <1> QED BY <1>1, DecisionInvariant, PTL

\* A core never lists a task under two statuses, or under one it does not
\* have, whatever handlers race for its lists, and wherever they are cut off.
THEOREM ListsCorrect == Spec => []ListsMatchStatus
  <1>1. ListInv => ListsMatchStatus
    BY DEF ListInv, ListsOf, ListsMatchStatus
  <1> QED BY <1>1, DecisionInvariant, PTL

-------------------------------------------------------------------------------
(* The cores implement TaskAgreement.                                      *)

Claimed == {q \in Parts : filled[q] = "unsigned_approve"}
Votes == [p \in Parts |-> Own(p)]
Learnt == [p \in Parts |-> Outcome(status[p])]

\* The outcome a status shows is the one the abstract vote allows.
OutcomesAllowed ==
    \A p \in Parts :
        /\ Learnt[p] = "started" => Abstract!MayStart(Votes, p)
        /\ Learnt[p] = "rejected" => Abstract!MayReject(Votes, p)
        /\ Learnt[p] \in {"open", "started", "rejected"}

LEMMA OutcomeJustified == DecisionInv => OutcomesAllowed
  <1> SUFFICES ASSUME DecisionInv, NEW p \in Parts
               PROVE  /\ Learnt[p] = "started" => Abstract!MayStart(Votes, p)
                      /\ Learnt[p] = "rejected" => Abstract!MayReject(Votes, p)
                      /\ Learnt[p] \in {"open", "started", "rejected"}
    BY DEF OutcomesAllowed
  <1>1. /\ Learnt[p] = "started" <=> status[p] \in {"started", "finished"}
        /\ Learnt[p] = "rejected" <=> status[p] = "rejected"
        /\ Learnt[p] \in {"open", "started", "rejected"}
    BY DEF Learnt, Outcome
  <1>2. Justified(p)
    BY DEF DecisionInv
  <1>3. \A q \in Parts : Votes[q] = Own(q)
    BY DEF Votes
  <1> QED BY <1>1, <1>2, <1>3 DEF Justified, Backed, Abstract!MayStart, Abstract!MayReject

\* What a participant knows does not change, except that it may have to give up
\* a start that not everybody has approved: both verdicts cannot be right.
LEMMA OutcomeKept ==
    ASSUME DecisionInv, [Next]_vars, NEW p \in Parts, Learnt[p] # "open"
    PROVE  \/ Learnt'[p] = Learnt[p]
           \/ /\ Learnt[p] = "started" /\ Learnt'[p] = "rejected"
              /\ RequireAgreement /\ \E q \in Parts : Own(q)' = "reject"
  <1> USE CallShape
  <1> DEFINE kept == \/ Learnt'[p] = Learnt[p]
                     \/ /\ Learnt[p] = "started" /\ Learnt'[p] = "rejected"
                        /\ RequireAgreement /\ \E q \in Parts : Own(q)' = "reject"
  <1>0. TypeOK /\ StepKind /\ status[p] \in {"started", "finished", "rejected"}
    BY StepKinds DEF DecisionInv, Learnt, Outcome
  <1>1. CASE status'[p] = status[p]
    BY <1>1 DEF Learnt
  <1>2. CASE CreateTask
    BY <1>0, <1>1, <1>2 DEF CreateTask, DecisionInv, NotYetSigned, TypeOK
  <1>3. ASSUME NEW q \in Others, NEW d \in Signable, Confirms(q, d)
        PROVE  kept
    BY <1>0, <1>1, <1>3 DEF Confirms, TypeOK
  <1>4. ASSUME NEW q \in Parts, Finishes(q) PROVE kept
    BY <1>0, <1>1, <1>4 DEF Finishes, TypeOK, Learnt, Outcome
  <1>5. ASSUME NEW c \in Calls, SyncNew(c) PROVE kept
    BY <1>0, <1>1, <1>5 DEF SyncNew, TypeOK
  <1>6. CASE Quiet \/ (\E i \in Others : CreateSend(i)) \/ (\E c \in Calls : SyncMerge(c))
    BY <1>1, <1>6 DEF Quiet, CreateSend, SyncMerge, task
  <1>7. ASSUME NEW c \in Calls, DecidesOn(c) PROVE kept
    <2>1. CASE To(c) # p
      BY <1>0, <1>1, <1>7, <2>1 DEF DecidesOn, TypeOK
    <2>2. CASE To(c) = p
      <3>1. /\ RequireAgreement /\ \A q \in Parts : Own(q)' = Own(q)
            /\ status'[p] = SettledAs(c)
            /\ IF verdict[c] THEN \E q \in Parts : Own(q) = "reject" ELSE AllOwnApprove
        BY <1>0, <1>7, <2>2 DEF DecidesOn, TypeOK, DecisionInv, VerdictSound, Own
      <3>2. CASE verdict[c]
        BY <1>0, <3>1, <3>2 DEF SettledAs, Learnt, Outcome
      <3>3. CASE ~verdict[c]
        <4>1. status[p] # "rejected"
          BY <3>1, <3>3 DEF DecisionInv, Justified, AllOwnApprove
        <4> QED BY <1>0, <3>1, <3>3, <4>1 DEF SettledAs, Learnt, Outcome
      <3> QED BY <3>2, <3>3
    <2> QED BY <2>1, <2>2
  <1> QED BY <1>0, <1>2, <1>3, <1>4, <1>5, <1>6, <1>7 DEF StepKind

\* Only _create_task and _confirm_task touch an own decision, and then from
\* "none"; another participant's outcome does not move in the same step.
LEMMA VoteStep ==
    ASSUME DecisionInv, [Next]_vars
    PROVE  \/ Votes' = Votes
           \/ \E p \in Parts : \E d \in {"approve", "reject", "ignore"} :
                /\ Votes[p] = "none"
                /\ Votes' = [Votes EXCEPT ![p] = d]
                /\ \A q \in Parts : q # p => status'[q] = status[q]
  <1> USE CallShape
  <1>0. TypeOK /\ StepKind
    BY StepKinds DEF DecisionInv
  <1>1. CASE CreateTask
    <2>1. /\ Votes[0] = "none"
          /\ Votes' = [Votes EXCEPT ![0] = "approve"]
          /\ \A q \in Parts : q # 0 => status'[q] = status[q]
      <3>1. FirstDecisions[0] = "approve"
        BY <1>0 DEF FirstDecisions, TypeOK, Requests
      <3>2. /\ decisions' = [decisions EXCEPT ![0] = FirstDecisions]
            /\ status[0] = "absent" /\ \A q \in Parts : q # 0 => status'[q] = status[q]
        BY <1>0, <1>1 DEF CreateTask, DecisionInv, NotYetSigned, TypeOK
      <3>3. /\ \A q \in Parts : q # 0 => Own(q)' = Own(q)
            /\ Own(0)' = "approve" /\ Own(0) = "none"
        BY <1>0, <3>1, <3>2 DEF TypeOK, Own, Unsigned, DecisionInv, NotYetSigned
      <3> QED BY <3>2, <3>3 DEF Votes
    <2> QED BY <2>1
  <1>2. ASSUME NEW p \in Others, NEW d \in Signable, Confirms(p, d)
        PROVE  /\ Votes[p] = "none"
               /\ Votes' = [Votes EXCEPT ![p] = d]
               /\ \A q \in Parts : q # p => status'[q] = status[q]
               /\ d \in {"approve", "reject", "ignore"}
    <2>1. /\ status[p] = "waiting"
          /\ decisions' = [decisions EXCEPT ![p] = [decisions[p] EXCEPT ![p] = d]]
          /\ \A q \in Parts : q # p => status'[q] = status[q]
      BY <1>0, <1>2 DEF Confirms, Mine, TypeOK
    <2>2. /\ \A q \in Parts : q # p => Own(q)' = Own(q)
          /\ Own(p)' = d
      BY <1>0, <2>1, Signatures DEF TypeOK, Own
    <2>3. Votes' = [Votes EXCEPT ![p] = d]
      BY <2>2 DEF Votes
    <2> QED BY <2>1, <2>3 DEF DecisionInv, NotYetSigned, Votes, Signable
  <1>3. ASSUME NEW c \in Calls, SyncNew(c) PROVE Votes' = Votes
    <2>1. /\ status[To(c)] = "absent"
          /\ decisions' = [decisions EXCEPT ![To(c)] = payload[c]]
      BY <1>3 DEF SyncNew
    <2>2. Own(To(c)) = "none" /\ payload[c][To(c)] \in {"none", filled[To(c)]}
      BY <2>1 DEF DecisionInv, NotYetSigned, DecisionsGenuine
    <2>3. Own(To(c))' = "none"
      BY <1>0, <2>1, <2>2, Signatures DEF TypeOK, Own
    <2>4. \A q \in Parts : Own(q)' = Own(q)
      BY <1>0, <2>1, <2>2, <2>3 DEF TypeOK, Own
    <2> QED BY <2>4 DEF Votes
  <1>4. ASSUME NEW c \in Calls, SyncMerge(c) PROVE Votes' = Votes
    BY <1>0, <1>4 DEF SyncMerge, Merged, TypeOK, Votes, Own
  <1>5. CASE \/ Quiet
             \/ \E i \in Others : CreateSend(i)
             \/ \E c \in Calls : DecidesOn(c)
             \/ \E p \in Parts : Finishes(p)
    BY <1>5 DEF CreateSend, DecidesOn, Finishes, Quiet, task, Votes, Own
  <1> QED BY <1>0, <1>1, <1>2, <1>3, <1>4, <1>5 DEF StepKind

\* At most one participant's outcome moves in a step.
LEMMA OneMoves ==
    ASSUME DecisionInv, [Next]_vars
    PROVE  \E p \in Parts : \A q \in Parts : q # p => status'[q] = status[q]
  <1> USE CallShape
  <1>0. TypeOK /\ StepKind
    BY StepKinds DEF DecisionInv
  <1>1. CASE CreateTask
    BY <1>0, <1>1 DEF CreateTask, TypeOK
  <1>2. CASE \/ \E p \in Others, d \in Signable : Confirms(p, d)
             \/ \E p \in Parts : Finishes(p)
    <2>1. PICK p \in Parts : \E s : status' = [status EXCEPT ![p] = s]
      BY <1>2 DEF Confirms, Finishes
    <2> QED BY <1>0, <2>1 DEF TypeOK
  <1>3. ASSUME NEW c \in Calls, SyncNew(c) \/ DecidesOn(c)
        PROVE  \A q \in Parts : q # To(c) => status'[q] = status[q]
    BY <1>0, <1>3 DEF SyncNew, DecidesOn, TypeOK
  <1>4. CASE Quiet \/ (\E i \in Others : CreateSend(i)) \/ (\E c \in Calls : SyncMerge(c))
    BY <1>4 DEF Quiet, CreateSend, SyncMerge, task
  <1> QED BY <1>0, <1>1, <1>2, <1>3, <1>4 DEF StepKind

\* Nobody changes what the create request brought.
LEMMA FilledKept == [Next]_vars => filled' = filled
  BY DEF Next, Creation, CreateTask, CreateFail, CreateList, CreateListCut, CreateSend,
         Handler, SyncNew, SyncList, SyncMerge, SyncRefuse, Decide, DecideFail, SyncListCut,
         DecideCut, Lose, Broadcast, BcastDone, BcastFail, BcastSend, User, FinishTask,
         FinishCut, ConfirmTask, ConfirmCut, Expire, vars

\* Each step of the cores is a vote, an outcome learnt, or invisible.
LEMMA RefinementStep ==
    ASSUME DecisionInv, DecisionInv', [Next]_vars
    PROVE  [Abstract!Next]_(Abstract!vars)
  <1>1. \A p \in Parts : Learnt'[p] \in Abstract!Outcomes(Votes', p, Learnt[p])
    <2> SUFFICES ASSUME NEW p \in Parts
                 PROVE  Learnt'[p] \in Abstract!Outcomes(Votes', p, Learnt[p])
      OBVIOUS
    <2>1. Learnt[p] # "open" => \/ Learnt'[p] = Learnt[p]
                                \/ /\ Learnt[p] = "started" /\ Learnt'[p] = "rejected"
                                   /\ Abstract!Revocable(Votes', Learnt[p])
      <3>1. \A q \in Parts : Votes'[q] = Own(q)'
        BY DEF Votes
      <3>2. (\E q \in Parts : Own(q)' = "reject") => ~Abstract!AllApproved(Votes')
        BY <3>1 DEF Abstract!AllApproved
      <3> QED BY <3>2, OutcomeKept DEF Abstract!Revocable
    <2>2. /\ Learnt'[p] = "started" => Abstract!MayStart(Votes, p)'
          /\ Learnt'[p] = "rejected" => Abstract!MayReject(Votes, p)'
          /\ Learnt'[p] \in {"open", "started", "rejected"}
      <3>1. OutcomesAllowed'
        BY OutcomeJustified, PTL
      <3> QED BY <3>1 DEF OutcomesAllowed
    <2>3. /\ Learnt'[p] = "started" => Abstract!MayStart(Votes', p)
          /\ Learnt'[p] = "rejected" => Abstract!MayReject(Votes', p)
      BY <2>2, FilledKept DEF Abstract!MayStart, Abstract!MayReject
    <2> QED BY <2>1, <2>2, <2>3 DEF Abstract!Outcomes
  <1>2. \A p \in Parts : status'[p] = status[p] => Learnt'[p] = Learnt[p]
    BY DEF Learnt
  <1>3. ASSUME NEW p \in Parts, \A q \in Parts : q # p => Learnt'[q] = Learnt[q]
        PROVE  Learnt' = [Learnt EXCEPT ![p] = Learnt'[p]]
    BY <1>3 DEF Learnt
  <1>c. Claimed' = Claimed
    BY FilledKept DEF Claimed
  <1>4. CASE Votes' = Votes
    <2>1. PICK p \in Parts : \A q \in Parts : q # p => status'[q] = status[q]
      BY OneMoves
    <2>2. Learnt' = [Learnt EXCEPT ![p] = Learnt'[p]]
      BY <1>2, <1>3, <2>1
    <2>3. Abstract!Learn(p)
      <3>1. Learnt'[p] \in Abstract!Outcomes(Votes, p, Learnt[p])
        BY <1>1, <1>4
      <3> QED BY <1>4, <1>c, <2>2, <3>1 DEF Abstract!Learn, Votes, Learnt, Claimed
    <2> QED BY <2>3 DEF Abstract!Next
  <1>5. CASE \E p \in Parts : \E d \in {"approve", "reject", "ignore"} :
               /\ Votes[p] = "none"
               /\ Votes' = [Votes EXCEPT ![p] = d]
               /\ \A q \in Parts : q # p => status'[q] = status[q]
    <2>1. PICK p \in Parts, d \in {"approve", "reject", "ignore"} :
               /\ Votes[p] = "none"
               /\ Votes' = [Votes EXCEPT ![p] = d]
               /\ \A q \in Parts : q # p => status'[q] = status[q]
      BY <1>5
    <2>2. Learnt' = [Learnt EXCEPT ![p] = Learnt'[p]]
      BY <1>2, <1>3, <2>1
    <2>3. Abstract!Vote(p, d)
      BY <1>1, <1>c, <2>1, <2>2 DEF Abstract!Vote, Votes, Learnt, Claimed
    <2> QED BY <2>3 DEF Abstract!Next, Abstract!Votes
  <1> QED BY <1>4, <1>5, VoteStep

\* Whatever the cores and the network do, the participants see a vote: one
\* decision each, and an outcome that the decisions justify, which is final if
\* nobody's approval was claimed for him.
THEOREM AgreementImplemented == Spec => ImplementsAgreement
  <1>1. Init => Abstract!Init
    BY DEF Init, Abstract!Init, Own, Outcome, NoDecisions, Unsigned
  <1>2. DecisionInv /\ DecisionInv' /\ [Next]_vars => [Abstract!Next]_(Abstract!vars)
    BY RefinementStep
  <1> QED BY <1>1, <1>2, DecisionInvariant, PTL DEF Spec, ImplementsAgreement, Abstract!Spec
-------------------------------------------------------------------------------
(***************************************************************************)
(* Several calls at once: which of the handlers that merge decisions on    *)
(* the initiator's core may start the task, and why no other does it       *)
(* again, there or anywhere else.                                          *)
(***************************************************************************)

Rejected == \E q \in Parts : Own(q) = "reject"

\* The initiator's core holds the approvals of all.
Full == \A i \in Parts : decisions[0][i] = "approve"

\* The handler of q's confirm call settles, or has settled, the task.
Winner(q) ==
    \/ phase[ConfirmCall(q)] \in {"decide", "bcast"}
    \/ \E i \in Others : phase[BcastCall(q, i)] # "none"

\* Nobody has announced the start of a task before it can be started.
Untouched ==
    /\ \A p \in Parts : status[p] \in {"absent", "waiting"} => announced[p]["started"] = 0
    /\ creating \in {"idle", "sending"} => announced[0]["started"] = 0

(***************************************************************************)
(* As long as nobody rejects, decisions travel only from their owners to   *)
(* the initiator, one in each confirm call, until the last has arrived; so *)
(* that the handler of one call sees them all.  What the create request    *)
(* brought stays beside them, and lets the call of one participant through *)
(* at most.                                                                *)
(***************************************************************************)
OwnStored ==
    \A q, r \in Others :
        q # r /\ Own(q) = "none" /\ status[q] # "absent" => decisions[q][r] = filled[r]

OwnSent ==
    \A q, r \in Others :
        q # r /\ phase[ConfirmCall(q)] # "none" => payload[ConfirmCall(q)][r] = filled[r]

SentIsNew ==
    \A r \in Others : phase[ConfirmCall(r)] = "sent" => decisions[0][r] \notin Signable

FirstSigned ==
    ~Plain => \A j \in Others : decisions[0][j] \in Signable => SoleClaim(j)

OneWinner ==
    \A q \in Others : Winner(q) => Full /\ \A r \in Others : Winner(r) => q = r

Unrejected == OwnStored /\ OwnSent /\ SentIsNew /\ FirstSigned /\ OneWinner

\* The initiator's core announces the start after the last approval, and after
\* no winner is left to do so.
OnceAtInitiator ==
    /\ announced[0]["started"] <= 1
    /\ (RequireAgreement /\ N > 1 /\ announced[0]["started"] > 0) => Full
    /\ \A q \in Others : (phase[ConfirmCall(q)] = "decide" /\ ~Rejected)
                            => announced[0]["started"] = 0

\* The other cores hear of it in the broadcast of the winner, or, of two
\* participants or on the create request's word, start the task when they
\* confirm it.
OnceAtOthers ==
    \A p \in Others :
        /\ announced[p]["started"] <= 1
        /\ (RequireAgreement /\ N > 2 /\ Plain /\ announced[p]["started"] > 0)
              => \E q \in Others : phase[BcastCall(q, p)] \in {"ok", "failed"}

NoBroadcast ==
    N = 2 => \A q, i \in Others : /\ phase[BcastCall(q, i)] = "none"
                                  /\ phase[ConfirmCall(q)] # "bcast"

\* With the agreement of several, a task that has started was announced, unless
\* the section that started it was cut off.
StartAnnounced ==
    RequireAgreement /\ N > 1 =>
        \A p \in Parts \ cut : status[p] \in {"started", "finished"} => announced[p]["started"] > 0

OnceInv == /\ Untouched /\ (~Rejected => Unrejected)
           /\ OnceAtInitiator /\ OnceAtOthers /\ NoBroadcast /\ StartAnnounced
-------------------------------------------------------------------------------
(* The steps of StepKind again, with what they announce.                   *)

\* What a section that stores the status s on p's core announces of the start:
\* nothing if it is another status, and perhaps nothing if it is cut off.
Announces(p, s) ==
    /\ cut \subseteq cut'
    /\ \A q \in Parts : q # p => announced'[q]["started"] = announced[q]["started"]
    /\ announced'[p]["started"] \in {announced[p]["started"], announced[p]["started"] + 1}
    /\ s # "started" => announced'[p]["started"] = announced[p]["started"]
    /\ s = "started" /\ p \notin cut' => announced'[p]["started"] = announced[p]["started"] + 1

\* Nothing is settled and nothing announced: a call moves forward at most.
Held ==
    /\ UNCHANGED <<status, decisions, filled>>
    /\ cut \subseteq cut'
    /\ \A p \in Parts : announced'[p]["started"] = announced[p]["started"]
    /\ creating' \in {"idle", "sending"} => creating \in {"idle", "sending"}
    /\ \A q \in Others : payload'[ConfirmCall(q)] = payload[ConfirmCall(q)]
    /\ \A q \in Others :
          \/ phase'[ConfirmCall(q)] = phase[ConfirmCall(q)]
          \/ phase[ConfirmCall(q)] # "none" /\ phase'[ConfirmCall(q)] \in {"ok", "failed"}
    /\ \A q, i \in Others :
          \/ phase'[BcastCall(q, i)] = phase[BcastCall(q, i)]
          \/ phase[BcastCall(q, i)] # "none" /\ phase'[BcastCall(q, i)] \in {"ok", "failed"}
          \/ phase[BcastCall(q, i)] = "none" /\ phase[ConfirmCall(q)] = "bcast"

AnnounceKind ==
    \/ CreateTask \/ CreateList \/ CreateListCut
    \/ \E p \in Others, d \in Signable : Confirms(p, d) /\ Announces(p, ConfirmedAs(p, d))
    \/ \E p \in Parts : Finishes(p) /\ Announces(p, "finished")
    \/ \E c \in Calls :
          \/ SyncNew(c) \/ SyncMerge(c)
          \/ DecidesOn(c) /\ Removable(To(c)) /\ Announces(To(c), SettledAs(c))
    \/ Held

\* What one more update of a list's ":latest" key means for the start.
LEMMA Updated ==
    ASSUME TypeOK, NEW p \in Parts, NEW s \in Statuses,
           announced' = [announced EXCEPT ![p][s] = @ + 1]
    PROVE  /\ announced'[p]["started"]
                = (IF s = "started" THEN announced[p]["started"] + 1 ELSE announced[p]["started"])
           /\ \A q \in Parts : q # p => announced'[q]["started"] = announced[q]["started"]
  BY DEF TypeOK, Statuses

LEMMA StatusMoved ==
    ASSUME TypeOK, NEW p \in Parts, NEW s \in Statuses, ChangeStatus(p, s), UNCHANGED cut
    PROVE  Announces(p, s)
  <1>1. announced' = [announced EXCEPT ![p][s] = @ + 1]
    BY DEF ChangeStatus
  <1>2. /\ announced'[p]["started"]
              = (IF s = "started" THEN announced[p]["started"] + 1 ELSE announced[p]["started"])
        /\ \A q \in Parts : q # p => announced'[q]["started"] = announced[q]["started"]
    BY <1>1, Updated
  <1> QED BY <1>2 DEF ChangeStatus, Announces

\* A section that is cut off has not stored the status, or may have announced it.
LEMMA CutMoved ==
    ASSUME TypeOK, NEW p \in Parts, NEW s \in Statuses, NEW d, CutStatus(p, s, d)
    PROVE  /\ cut \subseteq cut' /\ Removable(p)
           /\ \/ /\ UNCHANGED <<status, decisions>>
                 /\ \A q \in Parts : announced'[q]["started"] = announced[q]["started"]
              \/ /\ status' = [status EXCEPT ![p] = s]
                 /\ decisions' = [decisions EXCEPT ![p] = d]
                 /\ Announces(p, s)
  <1>1. cut' = cut \cup {p} /\ Removable(p)
    BY DEF CutStatus
  <1>2. CASE UNCHANGED <<status, decisions, announced>>
    BY <1>1, <1>2
  <1>3. CASE /\ status' = [status EXCEPT ![p] = s]
             /\ decisions' = [decisions EXCEPT ![p] = d]
             /\ \/ UNCHANGED announced
                \/ announced' = [announced EXCEPT ![p][s] = @ + 1]
    <2>1. Announces(p, s)
      <3>1. CASE UNCHANGED announced
        BY <1>1, <3>1 DEF Announces
      <3>2. CASE announced' = [announced EXCEPT ![p][s] = @ + 1]
        BY <1>1, <3>2, Updated DEF Announces
      <3> QED BY <1>3, <3>1, <3>2
    <2> QED BY <1>1, <1>3, <2>1
  <1> QED BY <1>2, <1>3, CutStored

\* Some steps of the network and of handlers announce no start.
LEMMA HeldSteps ==
    ASSUME TypeOK,
           \/ CreateFail
           \/ \E i \in Others : CreateSend(i)
           \/ \E c \in Calls : \/ SyncList(c) \/ SyncRefuse(c) \/ DecideFail(c) \/ Lose(c)
                               \/ SyncListCut(c)
           \/ \E p \in Others : Broadcast(p)
           \/ \E p \in Parts : Expire(p)
           \/ UNCHANGED vars
    PROVE  Held
  <1> USE CallShape, CallKinds
  <1>1. CASE CreateFail \/ (\E p \in Parts : Expire(p)) \/ UNCHANGED vars
    BY <1>1 DEF CreateFail, Expire, vars, task, Held
  <1>2. ASSUME NEW i \in Others, CreateSend(i) PROVE Held
    <2>1. /\ \A x \in Calls : x # CreateCall(i) => phase'[x] = phase[x] /\ payload'[x] = payload[x]
          /\ UNCHANGED <<status, decisions, announced, creating, filled, cut>>
      BY <1>2 DEF CreateSend, task, TypeOK
    <2> QED BY <2>1 DEF Held
  <1>3. ASSUME NEW c \in Calls,
               SyncList(c) \/ SyncRefuse(c) \/ DecideFail(c) \/ Lose(c) \/ SyncListCut(c)
        PROVE  Held
    <2>1. /\ phase[c] # "none" /\ phase'[c] \in {"ok", "failed"}
          /\ \A x \in Calls : x # c => phase'[x] = phase[x]
      <3>1. CASE SyncList(c)
        BY <3>1, ReplyType DEF SyncList
      <3>2. CASE SyncRefuse(c) \/ DecideFail(c) \/ Lose(c) \/ SyncListCut(c)
        BY <3>2 DEF SyncRefuse, DecideFail, Lose, SyncListCut, TypeOK
      <3> QED BY <1>3, <3>1, <3>2
    <2>2. UNCHANGED <<status, decisions, payload, creating, filled>> /\ cut \subseteq cut'
      BY <1>3 DEF SyncList, SyncRefuse, DecideFail, Lose, SyncListCut, CutAdd, task
    <2>3. \A p \in Parts : announced'[p]["started"] = announced[p]["started"]
      <3>1. CASE SyncList(c) \/ SyncListCut(c)
        <4>1. announced' = [announced EXCEPT ![To(c)]["waiting"] = @ + 1]
          BY <3>1 DEF SyncList, SyncListCut, CutAdd, Add
        <4> QED BY <4>1 DEF TypeOK
      <3>2. CASE SyncRefuse(c) \/ DecideFail(c) \/ Lose(c)
        BY <3>2 DEF SyncRefuse, DecideFail, Lose, task
      <3> QED BY <1>3, <3>1, <3>2
    <2>4. \A q \in Others :
             \/ phase'[ConfirmCall(q)] = phase[ConfirmCall(q)]
             \/ phase[ConfirmCall(q)] # "none" /\ phase'[ConfirmCall(q)] \in {"ok", "failed"}
      BY <2>1
    <2>5. \A q, i \in Others :
             \/ phase'[BcastCall(q, i)] = phase[BcastCall(q, i)]
             \/ phase[BcastCall(q, i)] # "none" /\ phase'[BcastCall(q, i)] \in {"ok", "failed"}
      BY <2>1
    <2> QED BY <2>2, <2>3, <2>4, <2>5 DEF Held
  <1>4. ASSUME NEW p \in Others, Broadcast(p) PROVE Held
    <2>1. /\ UNCHANGED <<status, decisions, announced, payload, creating, filled, cut>>
          /\ phase[ConfirmCall(p)] = "bcast"
      BY <1>4 DEF Broadcast, BcastDone, BcastFail, BcastSend, task
    <2>2. CASE BcastDone(p) \/ BcastFail(p)
      <3>1. /\ phase'[ConfirmCall(p)] \in {"ok", "failed"}
            /\ \A x \in Calls : x # ConfirmCall(p) => phase'[x] = phase[x]
        BY <2>2, ReplyType DEF BcastDone, BcastFail, TypeOK
      <3> QED BY <2>1, <3>1 DEF Held
    <2>3. ASSUME NEW i \in Others, BcastSend(p, i) PROVE Held
      <3>1. /\ phase[BcastCall(p, i)] = "none"
            /\ \A x \in Calls : x # BcastCall(p, i) => phase'[x] = phase[x]
        BY <2>3 DEF BcastSend, TypeOK
      <3>2. \A q, j \in Others : \/ phase'[BcastCall(q, j)] = phase[BcastCall(q, j)]
                                 \/ q = p /\ phase[BcastCall(q, j)] = "none"
        BY <3>1
      <3> QED BY <2>1, <3>1, <3>2 DEF Held
    <2> QED BY <1>4, <2>2, <2>3 DEF Broadcast
  <1> QED BY <1>1, <1>2, <1>3, <1>4

\* The steps that settle the task on one core announce that, or are cut off.
LEMMA SettlingSteps ==
    ASSUME TypeOK, NEW p \in Parts
    PROVE  /\ \A d \in Signable : p \in Others /\ (ConfirmTask(p, d) \/ ConfirmCut(p, d))
                => Held \/ (Confirms(p, d) /\ Announces(p, ConfirmedAs(p, d)))
           /\ FinishTask(p) \/ FinishCut(p)
                => Held \/ (Finishes(p) /\ Announces(p, "finished"))
           /\ \A c \in Calls : Decide(c) \/ DecideCut(c)
                => Held \/ (DecidesOn(c) /\ Removable(To(c)) /\ Announces(To(c), SettledAs(c)))
  <1> USE CallShape, CallKinds
  <1>a. "finished" \in Statuses /\ \A c \in Calls : SettledAs(c) \in Statuses
    BY ValueTypes DEF Statuses
  <1>1. ASSUME NEW d \in Signable, p \in Others, ConfirmTask(p, d) \/ ConfirmCut(p, d)
        PROVE  Held \/ (Confirms(p, d) /\ Announces(p, ConfirmedAs(p, d)))
    <2>1. ConfirmedAs(p, d) \in Statuses
      BY <1>1, ValueTypes DEF Statuses
    <2>2. CASE ConfirmTask(p, d)
      <3>1. ChangeStatus(p, ConfirmedAs(p, d)) /\ UNCHANGED cut
        BY <2>2 DEF ConfirmTask
      <3>2. Confirms(p, d)
        BY <2>2 DEF ConfirmTask, Confirmable, ChangeStatus, Confirms
      <3> QED BY <2>1, <3>1, <3>2, StatusMoved
    <2>3. CASE ConfirmCut(p, d)
      <3>1. /\ CutStatus(p, ConfirmedAs(p, d), Mine(p, d)) /\ status[p] = "waiting"
            /\ UNCHANGED <<creating, phase, payload, verdict, filled>>
        BY <2>3 DEF ConfirmCut, Confirmable
      <3> QED BY <2>1, <3>1, CutMoved DEF Confirms, Held
    <2> QED BY <1>1, <2>2, <2>3
  <1>2. ASSUME FinishTask(p) \/ FinishCut(p)
        PROVE  Held \/ (Finishes(p) /\ Announces(p, "finished"))
    <2>1. CASE FinishTask(p)
      <3>1. ChangeStatus(p, "finished") /\ UNCHANGED cut
        BY <2>1 DEF FinishTask
      <3>2. Finishes(p)
        BY <2>1 DEF FinishTask, ChangeStatus, Finishes
      <3> QED BY <1>a, <3>1, <3>2, StatusMoved
    <2>2. CASE FinishCut(p)
      <3>1. /\ CutStatus(p, "finished", decisions[p]) /\ status[p] = "started"
            /\ UNCHANGED <<creating, phase, payload, verdict, filled>>
        BY <2>2 DEF FinishCut
      <3>2. [decisions EXCEPT ![p] = decisions[p]] = decisions
        BY DEF TypeOK
      <3> QED BY <1>a, <3>1, <3>2, CutMoved DEF Finishes, Held
    <2> QED BY <1>2, <2>1, <2>2
  <1>3. ASSUME NEW c \in Calls, Decide(c) \/ DecideCut(c)
        PROVE  Held \/ (DecidesOn(c) /\ Removable(To(c)) /\ Announces(To(c), SettledAs(c)))
    <2>1. CASE Decide(c)
      <3>1. ChangeStatus(To(c), SettledAs(c)) /\ UNCHANGED cut /\ DecidesOn(c)
        BY <2>1, DecidedOn DEF Decide
      <3>2. Removable(To(c))
        BY <3>1 DEF ChangeStatus
      <3> QED BY <1>a, <3>1, <3>2, StatusMoved
    <2>2. CASE DecideCut(c)
      <3>1. /\ CutStatus(To(c), SettledAs(c), decisions[To(c)])
            /\ phase[c] = "decide" /\ phase'[c] = "failed"
            /\ \A x \in Calls : x # c => phase'[x] = phase[x]
            /\ UNCHANGED <<creating, payload, verdict, filled>>
        BY <2>2 DEF DecideCut, TypeOK
      <3>2. [decisions EXCEPT ![To(c)] = decisions[To(c)]] = decisions
        BY DEF TypeOK
      <3>3. Removable(To(c)) /\ status[To(c)] \in Statuses /\ cut \subseteq cut'
        BY <3>1 DEF CutStatus, Removable
      <3>4. CASE /\ UNCHANGED <<status, decisions>>
                 /\ \A q \in Parts : announced'[q]["started"] = announced[q]["started"]
        <4>1. \A q \in Others :
                 \/ phase'[ConfirmCall(q)] = phase[ConfirmCall(q)]
                 \/ phase[ConfirmCall(q)] # "none" /\ phase'[ConfirmCall(q)] \in {"ok", "failed"}
          BY <3>1
        <4>2. \A q, i \in Others :
                 \/ phase'[BcastCall(q, i)] = phase[BcastCall(q, i)]
                 \/ phase[BcastCall(q, i)] # "none" /\ phase'[BcastCall(q, i)] \in {"ok", "failed"}
          BY <3>1
        <4> QED BY <3>1, <3>3, <3>4, <4>1, <4>2 DEF Held
      <3>5. CASE /\ status' = [status EXCEPT ![To(c)] = SettledAs(c)]
                 /\ decisions' = [decisions EXCEPT ![To(c)] = decisions[To(c)]]
                 /\ Announces(To(c), SettledAs(c))
        BY <3>1, <3>2, <3>3, <3>5 DEF DecidesOn
      <3> QED BY <1>a, <3>1, <3>4, <3>5, CutMoved
    <2> QED BY <1>3, <2>1, <2>2
  <1> QED BY <1>1, <1>2, <1>3

LEMMA AnnounceKinds ==
    ASSUME TypeOK, [Next]_vars
    PROVE  AnnounceKind
  <1> USE CallShape DEF AnnounceKind
  <1>1. CASE \/ CreateFail
             \/ \E i \in Others : CreateSend(i)
             \/ \E c \in Calls : \/ SyncList(c) \/ SyncRefuse(c) \/ DecideFail(c) \/ Lose(c)
                                 \/ SyncListCut(c)
             \/ \E p \in Others : Broadcast(p)
             \/ \E p \in Parts : Expire(p)
             \/ UNCHANGED vars
    BY <1>1, HeldSteps
  <1>2. CASE \E p \in Parts : User(p)
    BY <1>2, SettlingSteps DEF User
  <1>3. CASE \E c \in Calls : Decide(c) \/ DecideCut(c)
    BY <1>3, SettlingSteps
  <1>4. CASE CreateTask \/ CreateList \/ CreateListCut \/ \E c \in Calls : SyncNew(c) \/ SyncMerge(c)
    BY <1>4
  <1> QED BY <1>1, <1>2, <1>3, <1>4 DEF Next, Creation, Handler

-------------------------------------------------------------------------------
\* Approvals of all on the initiator's core are the approvals of all.
LEMMA FullApproved ==
    ASSUME DecisionInv
    PROVE  /\ Full => AllOwnApprove
           /\ AllOwnApprove => ~Rejected
  <1>1. Full => AllOwnApprove
    <2>1. TypeOK /\ \A i \in Parts : decisions[0][i] \in {"none", Own(i), filled[i]}
      BY CallShape DEF DecisionInv, DecisionsGenuine
    <2> QED BY <2>1, Signatures DEF Full, AllOwnApprove, Signable, Unsigned
  <1> QED BY <1>1 DEF AllOwnApprove, Rejected

\* A task is listed as long as an entry of it can be removed.
LEMMA RemovableListed ==
    ASSUME TypeOK, NEW p \in Parts, ListsOf(p), Removable(p)
    PROVE  p \notin cut /\ MayBeListed(p)
  <1>1. status[p] \in Statuses /\ listed[p][status[p]] > 0
    BY DEF Removable
  <1>2. listed[p] # NoEntries
    BY <1>1 DEF NoEntries
  <1> QED BY <1>2 DEF ListsOf, ListedRight

\* Steps that settle and announce nothing keep the invariant.
LEMMA OnceFrame ==
    ASSUME OnceInv, Held
    PROVE  OnceInv'
  <1> USE CallShape
  <1>0. /\ UNCHANGED <<status, decisions, filled>>
        /\ cut \subseteq cut'
        /\ \A p \in Parts : announced'[p]["started"] = announced[p]["started"]
        /\ creating' \in {"idle", "sending"} => creating \in {"idle", "sending"}
    BY DEF Held
  <1>1. \A q \in Others : Winner(q)' => Winner(q)
    BY DEF Winner, Held
  <1>2. Untouched'
    BY <1>0 DEF OnceInv, Untouched
  <1>3. Rejected' = Rejected /\ Full' = Full
    BY <1>0 DEF Rejected, Full, Own
  <1>4. ASSUME ~Rejected PROVE Unrejected'
    <2>1. Unrejected
      BY <1>4 DEF OnceInv
    <2>2. OwnStored'
      BY <1>0, <2>1 DEF Unrejected, OwnStored, Own
    <2>3. OwnSent'
      BY <1>0, <2>1 DEF Unrejected, OwnSent, Held
    <2>4. SentIsNew' /\ FirstSigned'
      BY <1>0, <2>1 DEF Unrejected, SentIsNew, FirstSigned, Plain, NoDecisions, SoleClaim, Held
    <2>5. OneWinner'
      BY <2>1, <1>1, <1>3 DEF Unrejected, OneWinner
    <2> QED BY <2>2, <2>3, <2>4, <2>5 DEF Unrejected
  <1>5. OnceAtInitiator'
    BY <1>0, <1>3 DEF OnceInv, OnceAtInitiator, Held
  <1>6. OnceAtOthers'
    BY <1>0 DEF OnceInv, OnceAtOthers, Plain, NoDecisions, Held
  <1>7. NoBroadcast'
    BY DEF OnceInv, NoBroadcast, Held
  <1>8. StartAnnounced'
    BY <1>0 DEF OnceInv, StartAnnounced
  <1> QED BY <1>2, <1>3, <1>4, <1>5, <1>6, <1>7, <1>8 DEF OnceInv

\* Before _create_task, nothing is announced and no call is under way.
LEMMA OnceInit == Init => OnceInv
  <1> SUFFICES ASSUME Init PROVE OnceInv
    OBVIOUS
  <1>1. Untouched /\ StartAnnounced
    BY CallShape DEF Init, Untouched, StartAnnounced, NoEntries, Statuses
  <1>2. OwnStored /\ OwnSent /\ SentIsNew /\ OneWinner
    BY CallShape, CallKinds DEF Init, OwnStored, OwnSent, SentIsNew, OneWinner, Winner
  <1>3. FirstSigned
    <2>1. \A i \in Parts : decisions[0][i] = "none"
      BY CallShape DEF Init, NoDecisions
    <2> QED BY <2>1, CallShape DEF FirstSigned, Signable
  <1>4. OnceAtInitiator /\ OnceAtOthers /\ NoBroadcast
    BY CallShape DEF Init, OnceAtInitiator, OnceAtOthers, NoBroadcast, NoEntries, Statuses
  <1> QED BY <1>1, <1>2, <1>3, <1>4 DEF OnceInv, Unrejected

\* _create_task: nothing has been sent yet.
LEMMA OnceCreate ==
    ASSUME DecisionInv, CallOrder, OnceInv, CreateTask
    PROVE  OnceInv'
  <1> USE CallShape, CallKinds, ValueTypes
  <1>0. TypeOK
    BY DEF DecisionInv
  <1>1. /\ creating = "idle" /\ status[0] = "absent" /\ Own(0) = "none"
        /\ \A q \in Others : phase[ConfirmCall(q)] = "none" /\ status[q] = "absent"
        /\ \A q, i \in Others : phase[BcastCall(q, i)] = "none"
    BY DEF CreateTask, DecisionInv, NotYetSigned, CallOrder
  <1>2. /\ status'[0] = FirstStatus /\ creating' = "sending"
        /\ \A p \in Parts : p # 0 => status'[p] = status[p] /\ decisions'[p] = decisions[p]
        /\ UNCHANGED <<announced, phase, payload, filled, cut>>
        /\ \A i \in Parts : decisions'[0][i] = (IF i = 0 THEN "approve" ELSE filled[i])
    BY <1>0 DEF CreateTask, TypeOK, FirstDecisions, Requests
  <1>3. Own(0)' = "approve" /\ \A p \in Parts : p # 0 => Own(p)' = Own(p)
    BY <1>2 DEF Own, Unsigned
  <1>3a. Rejected => Rejected'
    BY <1>1, <1>3 DEF Rejected
  <1>4. announced[0]["started"] = 0
    BY <1>1 DEF OnceInv, Untouched
  <1>5. Untouched'
    BY <1>2, <1>4 DEF OnceInv, Untouched
  <1>6. ASSUME ~Rejected' PROVE Unrejected'
    <2>1. Unrejected
      BY <1>3a, <1>6 DEF OnceInv
    <2>2. OwnStored'
      <3>1. \A q \in Others : status'[q] = "absent"
        BY <1>1, <1>2
      <3> QED BY <3>1 DEF OwnStored
    <2>3. OwnSent' /\ SentIsNew' /\ OneWinner'
      BY <1>1, <1>2 DEF OwnSent, SentIsNew, OneWinner, Winner
    <2>4. FirstSigned'
      <3>1. \A j \in Others : decisions'[0][j] = filled[j] /\ filled[j] \notin Signable
        BY <1>0, <1>2, Signatures DEF Signable, Unsigned
      <3> QED BY <3>1 DEF FirstSigned
    <2> QED BY <2>2, <2>3, <2>4 DEF Unrejected
  <1>7. OnceAtInitiator'
    BY <1>1, <1>2, <1>4 DEF OnceAtInitiator
  <1>8. OnceAtOthers' /\ NoBroadcast'
    BY <1>2 DEF OnceInv, OnceAtOthers, NoBroadcast, Plain, NoDecisions
  <1>9. StartAnnounced'
    BY <1>2 DEF OnceInv, StartAnnounced, FirstStatus
  <1> QED BY <1>5, <1>6, <1>7, <1>8, <1>9 DEF OnceInv

\* _create_task, when it lists the task: this announces the start of a task
\* that needs no agreement, and of no other.
LEMMA OnceList ==
    ASSUME DecisionInv, OnceInv, CreateList \/ CreateListCut
    PROVE  OnceInv'
  <1> USE CallShape, CallKinds, ValueTypes
  <1>0. TypeOK
    BY DEF DecisionInv
  <1>1. /\ UNCHANGED <<status, decisions, phase, payload, filled>>
        /\ cut \subseteq cut'
        /\ creating = "sending" /\ creating' \in {"done", "failed"}
        /\ announced' = [announced EXCEPT ![0][FirstStatus] = @ + 1]
    BY DEF CreateList, CreateListCut, Add, CutAdd
  <1>2. CASE RequireAgreement /\ N > 1
    <2>1. FirstStatus = "approved"
      BY <1>2 DEF FirstStatus
    <2>2. \A p \in Parts : announced'[p]["started"] = announced[p]["started"]
      BY <1>0, <1>1, <2>1 DEF TypeOK
    <2> QED BY <1>1, <2>2, OnceFrame DEF Held
  <1>3. CASE ~(RequireAgreement /\ N > 1)
    <2>1. announced[0]["started"] = 0 /\ status[0] \notin {"absent", "waiting"}
      BY <1>1 DEF OnceInv, Untouched, DecisionInv, NotYetSigned
    <2>2. /\ announced'[0]["started"] \in {0, 1}
          /\ \A p \in Parts : p # 0 => announced'[p] = announced[p]
      BY <1>0, <1>1, <2>1 DEF TypeOK, Statuses
    <2>3. Untouched'
      BY <1>1, <2>1, <2>2 DEF OnceInv, Untouched
    <2>4. Rejected' = Rejected /\ (Unrejected => Unrejected')
      <3>1. Rejected' = Rejected /\ Full' = Full /\ Plain' = Plain
        BY <1>1 DEF Rejected, Own, Full, Plain, NoDecisions
      <3>2. /\ OwnStored => OwnStored'
            /\ OwnSent => OwnSent'
            /\ SentIsNew => SentIsNew'
        BY <1>1 DEF OwnStored, OwnSent, SentIsNew, Own
      <3>3. (FirstSigned => FirstSigned') /\ (OneWinner => OneWinner')
        BY <1>1, <3>1 DEF FirstSigned, SoleClaim, OneWinner, Winner
      <3> QED BY <3>1, <3>2, <3>3 DEF Unrejected
    <2>5. \A q \in Others : phase[ConfirmCall(q)] # "decide"
      <3>1. \A c \in Calls : phase[c] = "decide" => RequireAgreement
        BY DEF DecisionInv, VerdictSound
      <3>2. N > 1 \/ Others = {}
        BY NAssumption DEF Others
      <3> QED BY <1>3, <3>1, <3>2
    <2>6. OnceAtInitiator'
      BY <1>1, <1>3, <2>2, <2>5 DEF OnceAtInitiator
    <2>7. NoBroadcast' /\ StartAnnounced'
      BY <1>1, <1>3 DEF OnceInv, NoBroadcast, StartAnnounced
    <2>8. OnceAtOthers'
      <3>1. N > 2 => N > 1
        BY NAssumption
      <3> QED BY <1>1, <1>3, <2>2, <3>1 DEF OnceInv, OnceAtOthers
    <2> QED BY <2>3, <2>4, <2>6, <2>7, <2>8 DEF OnceInv
  <1> QED BY <1>2, <1>3

\* _finish_task starts nothing.
LEMMA OnceFinish ==
    ASSUME DecisionInv, OnceInv, NEW p \in Parts, Finishes(p), Announces(p, "finished")
    PROVE  OnceInv'
  <1> USE CallShape, CallKinds
  <1>0. TypeOK
    BY DEF DecisionInv
  <1>1. /\ status[p] = "started" /\ status' = [status EXCEPT ![p] = "finished"]
        /\ UNCHANGED <<decisions, creating, phase, payload, filled>>
        /\ cut \subseteq cut'
    BY DEF Finishes, Announces
  <1>2. /\ status'[p] = "finished"
        /\ \A q \in Parts : q # p => status'[q] = status[q]
        /\ \A q \in Parts : status'[q] = "absent" <=> status[q] = "absent"
        /\ \A q \in Parts : announced'[q]["started"] = announced[q]["started"]
    BY <1>0, <1>1 DEF TypeOK, Announces
  <1>3. Untouched' /\ StartAnnounced'
    BY <1>1, <1>2 DEF OnceInv, Untouched, StartAnnounced
  <1>4. Rejected' = Rejected /\ (Unrejected => Unrejected')
    <2>1. Rejected' = Rejected /\ Full' = Full /\ Plain' = Plain
      BY <1>1 DEF Rejected, Own, Full, Plain, NoDecisions
    <2>2. (OwnStored => OwnStored') /\ (OwnSent => OwnSent') /\ (SentIsNew => SentIsNew')
      BY <1>1, <1>2 DEF OwnStored, OwnSent, SentIsNew, Own
    <2>3. (FirstSigned => FirstSigned') /\ (OneWinner => OneWinner')
      BY <1>1, <2>1 DEF FirstSigned, SoleClaim, OneWinner, Winner
    <2> QED BY <2>1, <2>2, <2>3 DEF Unrejected
  <1>5. OnceAtInitiator' /\ OnceAtOthers' /\ NoBroadcast'
    BY <1>1, <1>2, <1>4 DEF OnceInv, OnceAtInitiator, Full, OnceAtOthers, NoBroadcast, Plain, NoDecisions
  <1> QED BY <1>3, <1>4, <1>5 DEF OnceInv

\* _confirm_task sends a first decision that no core has seen.  Of more than two
\* participants it starts none that needs the agreement, unless the create
\* request says so.
LEMMA OnceConfirm ==
    ASSUME DecisionInv, OnceInv, NEW p \in Others, NEW d \in Signable,
           Confirms(p, d), Announces(p, ConfirmedAs(p, d))
    PROVE  OnceInv'
  <1> USE CallShape, CallKinds
  <1> DEFINE mine == Mine(p, d)
             s == ConfirmedAs(p, d)
  <1>0. TypeOK /\ p \in Parts /\ p # 0 /\ d # "none"
    BY Signatures DEF DecisionInv
  <1>1. /\ status[p] = "waiting" /\ Own(p) = "none" /\ announced[p]["started"] = 0
        /\ s \in {"started", "approved", "rejected", "ignored"}
        /\ decisions' = [decisions EXCEPT ![p] = mine]
        /\ creating' = creating /\ filled' = filled /\ cut \subseteq cut'
    BY <1>0, ValueTypes DEF Confirms, Announces, DecisionInv, NotYetSigned, OnceInv, Untouched
  <1>2. /\ mine[p] = d
        /\ \A i \in Parts : i # p => mine[i] = decisions[p][i]
    BY <1>0 DEF TypeOK, Mine
  <1>3. /\ status'[p] = s /\ announced'[p]["started"] \in {0, 1}
        /\ s # "started" => announced'[p]["started"] = 0
        /\ s = "started" /\ p \notin cut' => announced'[p]["started"] = 1
        /\ \A q \in Parts : q # p => /\ status'[q] = status[q]
                                    /\ announced'[q]["started"] = announced[q]["started"]
    BY <1>0, <1>1 DEF Confirms, Announces, TypeOK
  <1>4. s = "started" /\ RequireAgreement => AllApprove(mine)
    BY DEF ConfirmedAs, StatusOf, Signable
  <1>5. /\ \/ UNCHANGED <<phase, payload>>
           \/ /\ phase' = [phase EXCEPT ![ConfirmCall(p)] = "sent"]
              /\ payload' = [payload EXCEPT ![ConfirmCall(p)] = mine]
    BY DEF Confirms
  <1> HIDE DEF s, mine
  <1>6. /\ \A q \in Parts : q # p => decisions'[q] = decisions[q] /\ Own(q)' = Own(q)
        /\ decisions'[p] = mine /\ Own(p)' = d
    BY <1>0, <1>1, <1>2, Signatures DEF TypeOK, Own
  <1>7. /\ \A q \in Others : q # p => /\ phase'[ConfirmCall(q)] = phase[ConfirmCall(q)]
                                      /\ payload'[ConfirmCall(q)] = payload[ConfirmCall(q)]
        /\ \A q, i \in Others : phase'[BcastCall(q, i)] = phase[BcastCall(q, i)]
        /\ \/ /\ phase'[ConfirmCall(p)] = phase[ConfirmCall(p)]
              /\ payload'[ConfirmCall(p)] = payload[ConfirmCall(p)]
           \/ phase'[ConfirmCall(p)] = "sent" /\ payload'[ConfirmCall(p)] = mine
    BY <1>0, <1>5 DEF TypeOK
  <1>8. Rejected => Rejected'
    BY <1>1, <1>6 DEF Rejected
  <1>9. \A q \in Others : Winner(q)' => Winner(q)
    BY <1>7 DEF Winner
  <1>10. Full' = Full /\ decisions'[0] = decisions[0] /\ Plain' = Plain
    BY <1>0, <1>1, <1>6 DEF Full, Plain, NoDecisions
  <1>11. Untouched'
    BY <1>0, <1>1, <1>3 DEF OnceInv, Untouched
  <1>12. ASSUME ~Rejected' PROVE Unrejected'
    <2>1. Unrejected
      BY <1>8, <1>12 DEF OnceInv
    <2>2. OwnStored'
      <3> SUFFICES ASSUME NEW q \in Others, NEW r \in Others, q # r, Own(q)' = "none",
                          status'[q] # "absent"
                   PROVE  decisions'[q][r] = filled'[r]
        BY DEF OwnStored
      <3>1. q # p
        BY <1>0, <1>6
      <3> QED BY <1>1, <1>3, <1>6, <2>1, <3>1 DEF Unrejected, OwnStored
    <2>3. OwnSent'
      <3>1. \A r \in Others : r # p => mine[r] = filled[r]
        BY <1>1, <1>2, <2>1 DEF Unrejected, OwnStored
      <3> QED BY <1>1, <1>7, <2>1, <3>1 DEF Unrejected, OwnSent
    <2>4. SentIsNew'
      <3>1. decisions[0][p] \notin Signable
        BY <1>0, <1>1, Signatures DEF DecisionInv, DecisionsGenuine
      <3> QED BY <1>7, <1>10, <2>1, <3>1 DEF Unrejected, SentIsNew
    <2>5. FirstSigned'
      BY <1>1, <1>10, <2>1 DEF Unrejected, FirstSigned, SoleClaim
    <2>6. OneWinner'
      BY <1>9, <1>10, <2>1 DEF Unrejected, OneWinner
    <2> QED BY <2>2, <2>3, <2>4, <2>5, <2>6 DEF Unrejected
  <1>13. OnceAtInitiator'
    <2>1. announced'[0]["started"] = announced[0]["started"]
      BY <1>0, <1>3
    <2>2. \A q \in Others : phase'[ConfirmCall(q)] = "decide" => phase[ConfirmCall(q)] = "decide"
      BY <1>7
    <2> QED BY <1>8, <1>10, <2>1, <2>2 DEF OnceInv, OnceAtInitiator
  <1>14. OnceAtOthers'
    <2>1. s = "started" /\ RequireAgreement => ~(N > 2 /\ Plain)
      <3> SUFFICES ASSUME s = "started", RequireAgreement, N > 2, Plain PROVE FALSE
        OBVIOUS
      <3>1. \A i \in Parts : Approves(mine[i]) /\ filled[i] = "none"
        BY <1>4 DEF AllApprove, Plain, NoDecisions
      <3>2. \A i \in Parts : i # p => Own(i) = "approve"
        <4>1. \A i \in Parts : decisions[p][i] \in {"none", Own(i), filled[i]}
          BY <1>0 DEF DecisionInv, DecisionsGenuine
        <4> QED BY <1>0, <1>2, <3>1, <4>1, Signatures
      <3>3. Unrejected
        BY <1>1, <3>2 DEF OnceInv, Rejected
      <3>4. PICK r \in Others : r # p
        <4>1. 1 \in Others /\ 2 \in Others
          BY NAssumption DEF Others
        <4> QED BY <4>1
      <3>5. decisions[p][r] = "none"
        BY <1>1, <3>1, <3>3, <3>4 DEF Unrejected, OwnStored
      <3> QED BY <1>2, <3>1, <3>4, <3>5 DEF Approves
    <2> QED BY <1>0, <1>3, <1>7, <1>10, <2>1 DEF OnceInv, OnceAtOthers
  <1>15. NoBroadcast'
    BY <1>7 DEF OnceInv, NoBroadcast
  <1>16. StartAnnounced'
    BY <1>1, <1>3 DEF OnceInv, StartAnnounced
  <1> QED BY <1>11, <1>12, <1>13, <1>14, <1>15, <1>16 DEF OnceInv

\* The handler of a create call stores what nobody but the initiator has signed.
LEMMA OnceNew ==
    ASSUME DecisionInv, ClaimInv, CallOrder, OnceInv, NEW c \in Calls, SyncNew(c)
    PROVE  OnceInv'
  <1> USE CallShape, CallKinds
  <1>0. TypeOK
    BY DEF DecisionInv
  <1>1. /\ phase[c] = "sent" /\ status[To(c)] = "absent"
        /\ phase' = [phase EXCEPT ![c] = "listing"]
        /\ status' = [status EXCEPT ![To(c)] = "waiting"]
        /\ decisions' = [decisions EXCEPT ![To(c)] = payload[c]]
        /\ UNCHANGED <<announced, creating, payload, filled, cut>>
    BY DEF SyncNew
  <1>2. PICK p \in Others : c = CreateCall(p)
    <2>1. ASSUME NEW p \in Others, c = ConfirmCall(p) PROVE FALSE
      <3>1. status[p] # "absent" /\ phase[CreateCall(p)] # "none"
        BY <1>1, <2>1 DEF CallOrder
      <3>2. creating # "idle"
        BY <3>1 DEF CallOrder
      <3> QED BY <1>1, <2>1, <3>2 DEF DecisionInv, NotYetSigned
    <2>2. ASSUME NEW p \in Others, NEW i \in Others, c = BcastCall(p, i) PROVE FALSE
      <3>1. creating = "done"
        BY <1>1, <2>2 DEF CallOrder
      <3>2. status[i] # "absent"
        BY <3>1 DEF CallOrder
      <3> QED BY <1>1, <2>2, <3>2
    <2> QED BY <2>1, <2>2, CallCases
  <1>3. To(c) = p /\ p \in Parts /\ p # 0
    BY <1>2
  <1>4. /\ \A q \in Others : phase'[ConfirmCall(q)] = phase[ConfirmCall(q)]
        /\ \A q, i \in Others : phase'[BcastCall(q, i)] = phase[BcastCall(q, i)]
    BY <1>0, <1>1, <1>2 DEF TypeOK
  <1>5. /\ \A q \in Parts : q # p => status'[q] = status[q] /\ decisions'[q] = decisions[q]
        /\ status'[p] = "waiting" /\ decisions'[p] = payload[c]
    BY <1>0, <1>1, <1>3 DEF TypeOK
  <1>6. Own(p) = "none" /\ payload[c][p] \in {"none", filled[p]}
    BY <1>1, <1>3 DEF DecisionInv, NotYetSigned, DecisionsGenuine
  <1>7. \A q \in Parts : Own(q)' = Own(q)
    BY <1>0, <1>3, <1>5, <1>6, Signatures DEF Own
  <1>8. Rejected' = Rejected /\ Full' = Full /\ \A q \in Others : Winner(q)' = Winner(q)
    BY <1>3, <1>4, <1>5, <1>7 DEF Rejected, Full, Winner
  <1>9. Untouched'
    BY <1>1, <1>3, <1>5 DEF OnceInv, Untouched
  <1>10. ASSUME ~Rejected PROVE Unrejected'
    <2>1. Unrejected
      BY <1>10 DEF OnceInv
    <2>2. OwnStored'
      <3>1. \A r \in Others : payload[c][r] = filled[r]
        BY <1>1, <1>2 DEF ClaimInv, ClaimsCreated
      <3> QED BY <1>1, <1>5, <1>7, <2>1, <3>1 DEF Unrejected, OwnStored
    <2>3. OwnSent'
      BY <1>1, <1>4, <2>1 DEF Unrejected, OwnSent
    <2>4. SentIsNew' /\ FirstSigned' /\ OneWinner'
      BY <1>1, <1>3, <1>4, <1>5, <1>8, <2>1
         DEF Unrejected, SentIsNew, FirstSigned, SoleClaim, Plain, NoDecisions, OneWinner
    <2> QED BY <2>2, <2>3, <2>4 DEF Unrejected
  <1>11. OnceAtInitiator' /\ OnceAtOthers' /\ NoBroadcast'
    BY <1>1, <1>4, <1>8 DEF OnceInv, OnceAtInitiator, OnceAtOthers, NoBroadcast, Plain, NoDecisions
  <1>12. StartAnnounced'
    BY <1>1, <1>5 DEF OnceInv, StartAnnounced
  <1> QED BY <1>8, <1>9, <1>10, <1>11, <1>12 DEF OnceInv

\* The first section of a handler: without a rejection it goes on to a second one
\* only for the decision that was missing last.
LEMMA OnceMerge ==
    ASSUME DecisionInv, ClaimInv, CallOrder, OnceInv, NEW c \in Calls, SyncMerge(c)
    PROVE  OnceInv'
  <1> USE CallShape, CallKinds
  <1>0. TypeOK
    BY DEF DecisionInv
  <1>1. /\ phase[c] = "sent" /\ status[To(c)] # "absent" /\ RequireAgreement
        /\ decisions' = [decisions EXCEPT ![To(c)] = Merged(c)]
        /\ \A i \in Parts : i # To(c) => payload[c][i] \notin Unsigned
        /\ UNCHANGED <<status, announced, creating, payload, filled, cut>>
    BY DEF SyncMerge, Checked
  <1>2. /\ phase'[c] \in {"decide", "ok", "failed"}
        /\ phase'[c] = "decide" => Settles(c)
        /\ \A x \in Calls : x # c => phase'[x] = phase[x]
    <2>1. CASE Settles(c)
      BY <1>0, <2>1 DEF SyncMerge, TypeOK
    <2>2. CASE ~Settles(c)
      BY <1>0, <2>2, ReplyType DEF SyncMerge
    <2> QED BY <2>1, <2>2
  <1>3. /\ \A i \in Parts : Merged(c)[i] \in {"none", Own(i)}
        /\ \A i \in Parts : \/ Merged(c)[i] = decisions[To(c)][i]
                            \/ i # To(c) /\ payload[c][i] # "none" /\ Merged(c)[i] = payload[c][i]
        /\ Merged(c)[To(c)] = decisions[To(c)][To(c)]
    BY MergedSigned DEF Merged
  <1>4. /\ decisions'[To(c)] = Merged(c)
        /\ \A q \in Parts : q # To(c) => decisions'[q] = decisions[q]
        /\ \A q \in Parts : Own(q)' = Own(q)
    BY <1>0, <1>1, <1>3 DEF TypeOK, Own
  <1>5. Rejected' = Rejected
    BY <1>4 DEF Rejected
  <1>6. Untouched' /\ StartAnnounced'
    BY <1>1 DEF OnceInv, Untouched, StartAnnounced
  <1>7. Full => Full'
    <2> SUFFICES ASSUME Full, NEW i \in Parts PROVE decisions'[0][i] = "approve"
      BY DEF Full
    <2>1. decisions[0][i] = "approve" /\ Own(i) = "approve"
      BY FullApproved DEF Full, AllOwnApprove
    <2>2. Merged(c)[i] = "approve" \/ To(c) # 0
      BY <1>3, <2>1
    <2> QED BY <1>4, <2>1, <2>2
  <1>8. CASE \E q \in Others : c = ConfirmCall(q)
    <2>1. PICK q \in Others : c = ConfirmCall(q)
      BY <1>8
    <2>2. /\ To(c) = 0
          /\ \A r \in Others : r # q => phase'[ConfirmCall(r)] = phase[ConfirmCall(r)]
          /\ \A r, i \in Others : phase'[BcastCall(r, i)] = phase[BcastCall(r, i)]
      BY <1>2, <2>1
    <2>3. ~Rejected => Unrejected /\ decisions[0][q] \notin Signable /\ ~Full
      BY <1>1, <2>1 DEF OnceInv, Unrejected, SentIsNew, Full, Signable
    <2>4. ~Rejected => \A r \in Others : ~Winner(r)
      BY <2>3 DEF Unrejected, OneWinner
    <2>5. ~Rejected /\ phase'[c] = "decide" => Full'
      <3> SUFFICES ASSUME ~Rejected, phase'[c] = "decide" PROVE Full'
        OBVIOUS
      <3>1. \A i \in Parts : ~Rejects(Merged(c)[i])
        BY <1>0, <1>3, Signatures DEF Rejected
      <3>2. \A i \in Parts : Approves(Merged(c)[i])
        BY <1>2, <3>1 DEF Settles, AllValid, AnyReject
      <3>3. \A i \in Parts : Merged(c)[i] = "approve"
        BY <1>0, <1>3, <3>2, Signatures
      <3> QED BY <1>4, <2>2, <3>3 DEF Full
    <2>6. ASSUME ~Rejected PROVE Unrejected'
      <3>0. \A r \in Others : r # q => /\ payload[c][r] = filled[r] /\ filled[r] = "none"
                                       /\ Merged(c)[r] = decisions[0][r]
        <4> SUFFICES ASSUME NEW r \in Others, r # q
                     PROVE  /\ payload[c][r] = filled[r] /\ filled[r] = "none"
                            /\ Merged(c)[r] = decisions[0][r]
          OBVIOUS
        <4>1. payload[c][r] = filled[r] /\ filled[r] \notin Unsigned
          BY <1>1, <2>1, <2>2, <2>3, <2>6 DEF Unrejected, OwnSent
        <4> QED BY <1>0, <1>3, <2>2, <4>1, Signatures
      <3>1. OwnStored'
        BY <1>1, <1>4, <2>2, <2>3, <2>6 DEF Unrejected, OwnStored
      <3>2. OwnSent'
        BY <1>1, <1>2, <2>1, <2>2, <2>3, <2>6 DEF Unrejected, OwnSent
      <3>3. SentIsNew'
        <4> SUFFICES ASSUME NEW r \in Others, phase'[ConfirmCall(r)] = "sent"
                     PROVE  decisions'[0][r] \notin Signable
          BY DEF SentIsNew
        <4>1. r # q /\ phase[ConfirmCall(r)] = "sent"
          BY <1>2, <2>1, <2>2
        <4> QED BY <1>4, <2>2, <2>3, <2>6, <3>0, <4>1 DEF Unrejected, SentIsNew
      <3>4. FirstSigned'
        <4> SUFFICES ASSUME ~Plain, NEW j \in Others, decisions'[0][j] \in Signable
                     PROVE  SoleClaim(j)
          BY <1>1 DEF FirstSigned, Plain, NoDecisions, SoleClaim
        <4>1. CASE j = q
          BY <3>0, <4>1 DEF SoleClaim
        <4>2. CASE j # q
          <5>1. decisions[0][j] \in Signable
            BY <1>4, <2>2, <3>0, <4>2
          <5> QED BY <2>3, <2>6, <5>1 DEF Unrejected, FirstSigned
        <4> QED BY <4>1, <4>2
      <3>5. \A r \in Others : Winner(r)' => r = q /\ phase'[c] = "decide"
        <4> SUFFICES ASSUME NEW r \in Others, Winner(r)' PROVE r = q /\ phase'[c] = "decide"
          OBVIOUS
        <4>1. /\ phase[ConfirmCall(r)] \notin {"decide", "bcast"}
              /\ \A i \in Others : phase[BcastCall(r, i)] = "none"
          BY <2>4, <2>6 DEF Winner
        <4>2. phase'[ConfirmCall(r)] \in {"decide", "bcast"}
          BY <2>2, <4>1 DEF Winner
        <4> QED BY <1>2, <2>1, <2>2, <4>1, <4>2
      <3>6. OneWinner'
        BY <2>5, <2>6, <3>5 DEF OneWinner
      <3> QED BY <3>1, <3>2, <3>3, <3>4, <3>6 DEF Unrejected
    <2>7. OnceAtInitiator'
      <3>1. announced[0]["started"] > 0 => Rejected \/ ~(RequireAgreement /\ N > 1)
        BY <2>3 DEF OnceInv, OnceAtInitiator
      <3>2. N > 1
        BY NAssumption DEF Others
      <3>3. announced[0]["started"] \in Nat
        BY <1>0 DEF TypeOK, Statuses
      <3>4. ~Rejected => announced[0]["started"] = 0
        BY <1>1, <3>1, <3>2, <3>3
      <3> QED BY <1>1, <1>5, <1>7, <3>4 DEF OnceInv, OnceAtInitiator
    <2>8. OnceAtOthers' /\ NoBroadcast'
      BY <1>1, <1>2, <2>1, <2>2 DEF OnceInv, OnceAtOthers, NoBroadcast, Plain, NoDecisions
    <2> QED BY <1>5, <1>6, <2>6, <2>7, <2>8 DEF OnceInv
  <1>9. CASE \E q, p \in Others : c = BcastCall(q, p)
    <2>1. PICK q \in Others, p \in Others : c = BcastCall(q, p)
      BY <1>9
    <2>2. /\ To(c) = p /\ p \in Parts /\ p # 0
          /\ \A r \in Others : phase'[ConfirmCall(r)] = phase[ConfirmCall(r)]
          /\ \A r, i \in Others : \/ phase'[BcastCall(r, i)] = phase[BcastCall(r, i)]
                                  \/ /\ r = q /\ i = p /\ phase[BcastCall(r, i)] = "sent"
                                     /\ phase'[BcastCall(r, i)] # "none"
      BY <1>1, <1>2, <2>1
    <2>3. Winner(q) /\ \A r \in Others : Winner(r)' => Winner(r)
      BY <1>1, <2>1, <2>2 DEF Winner
    <2>4. Full' = Full /\ decisions'[0] = decisions[0]
      BY <1>4, <2>2 DEF Full
    <2>5. ASSUME ~Rejected PROVE Unrejected'
      <3>1. Unrejected
        BY <2>5 DEF OnceInv
      <3>2. \A r \in Parts : Own(r) = "approve"
        BY <2>3, <3>1, FullApproved DEF Unrejected, OneWinner, AllOwnApprove
      <3>3. OwnStored'
        BY <1>4, <3>2 DEF OwnStored
      <3>4. OwnSent' /\ SentIsNew' /\ FirstSigned'
        BY <1>1, <2>2, <2>4, <3>1
           DEF Unrejected, OwnSent, SentIsNew, FirstSigned, Plain, NoDecisions, SoleClaim
      <3>5. OneWinner'
        BY <2>3, <2>4, <3>1 DEF Unrejected, OneWinner
      <3> QED BY <3>3, <3>4, <3>5 DEF Unrejected
    <2>6. OnceAtInitiator'
      BY <1>1, <1>5, <2>2, <2>4 DEF OnceInv, OnceAtInitiator
    <2>7. OnceAtOthers'
      <3>1. \A r, i \in Others : phase[BcastCall(r, i)] \in {"ok", "failed"}
                                 => phase'[BcastCall(r, i)] \in {"ok", "failed"}
        BY <2>2
      <3> QED BY <1>1, <3>1 DEF OnceInv, OnceAtOthers, Plain, NoDecisions
    <2>8. NoBroadcast'
      BY <2>2 DEF OnceInv, NoBroadcast
    <2> QED BY <1>5, <1>6, <2>5, <2>6, <2>7, <2>8 DEF OnceInv
  <1> QED BY <1>1, <1>8, <1>9, MergeCalls

\* What the handler of a broadcast call finds, when it starts the task: no other
\* broadcast has announced the start to that core.
LEMMA StartedByBroadcast ==
    ASSUME DecisionInv, OnceInv, NEW q \in Others, NEW i \in Others,
           phase[BcastCall(q, i)] = "decide", RequireAgreement, ~Rejected
    PROVE  /\ N > 2 /\ Plain
           /\ announced[i]["started"] = 0
  <1> USE CallShape, CallKinds
  <1>0. TypeOK /\ Unrejected /\ Winner(q)
    BY DEF DecisionInv, OnceInv, Winner
  <1>1. N > 2
    <2>1. N # 2
      BY DEF OnceInv, NoBroadcast
    <2>2. N > 1 /\ N \in Nat
      BY NAssumption DEF Others
    <2> QED BY <2>1, <2>2
  <1>2. Plain
    <2> SUFFICES ASSUME ~Plain PROVE FALSE
      OBVIOUS
    <2>1. 1 \in Others /\ 2 \in Others
      BY <1>1, NAssumption DEF Others
    <2>2. \A j \in Others : decisions[0][j] \in Signable
      BY <1>0 DEF Unrejected, OneWinner, Full, Signable
    <2>3. SoleClaim(1) /\ SoleClaim(2)
      BY <1>0, <2>1, <2>2 DEF Unrejected, FirstSigned
    <2>4. \A j \in Others : filled[j] = "none"
      BY <2>3 DEF SoleClaim
    <2>5. \A j \in Parts : filled[j] = "none"
      BY <1>0, <2>4, Signatures
    <2> QED BY <1>0, <2>5 DEF TypeOK, Requests, Plain, NoDecisions
  <1>3. ASSUME NEW r \in Others, phase[BcastCall(r, i)] \in {"ok", "failed"} PROVE FALSE
    <2>1. Winner(r)
      BY <1>3 DEF Winner
    <2>2. q = r
      BY <1>0, <2>1 DEF Unrejected, OneWinner
    <2> QED BY <1>3, <2>2
  <1>4. ~(announced[i]["started"] > 0)
    BY <1>1, <1>2, <1>3 DEF OnceInv, OnceAtOthers
  <1>5. announced[i]["started"] \in Nat
    BY <1>0 DEF TypeOK, Statuses
  <1> QED BY <1>1, <1>2, <1>4, <1>5

\* The second section announces the start only as the handler of the winner's
\* confirm call, or of a broadcast of the winner.
LEMMA OnceDecide ==
    ASSUME DecisionInv, ListInv, OnceInv, NEW c \in Calls, DecidesOn(c), Removable(To(c)),
           Announces(To(c), SettledAs(c))
    PROVE  OnceInv'
  <1> USE CallShape, CallKinds
  <1> DEFINE p == To(c)
             s == SettledAs(c)
  <1>0. TypeOK /\ CallOrder
    BY DEF DecisionInv, ListInv
  <1>1. /\ phase[c] = "decide" /\ p \in Parts /\ status[p] \in Statuses
        /\ UNCHANGED <<decisions, creating, filled>> /\ cut \subseteq cut'
    BY DEF DecidesOn, Announces
  <1>2. /\ phase'[c] \in {"bcast", "ok", "failed"}
        /\ phase'[c] = "bcast" => Broadcasts(c)
        /\ \A x \in Calls : x # c => phase'[x] = phase[x]
    BY DEF DecidesOn
  <1>3. \A q \in Others : payload'[ConfirmCall(q)] = payload[ConfirmCall(q)]
    <2>1. \A x \in Calls : x[1] # "bcast" => payload'[x] = payload[x]
      BY DEF DecidesOn
    <2> QED BY <2>1 DEF ConfirmCall
  <1>4. /\ status'[p] = s
        /\ \A q \in Parts : q # p => /\ status'[q] = status[q]
                                    /\ announced'[q]["started"] = announced[q]["started"]
        /\ announced'[p]["started"] \in {announced[p]["started"], announced[p]["started"] + 1}
        /\ s # "started" => announced'[p]["started"] = announced[p]["started"]
        /\ s = "started" /\ p \notin cut' => announced'[p]["started"] = announced[p]["started"] + 1
    BY <1>0, <1>1 DEF DecidesOn, Announces, TypeOK
  <1>5. Rejected' = Rejected /\ Full' = Full /\ Plain' = Plain
    BY <1>1 DEF Rejected, Own, Full, Plain, NoDecisions
  <1>6. /\ RequireAgreement
        /\ s = "started" => ~Rejected
        /\ s \in {"rejected", "started"}
    BY <1>1, FullApproved DEF SettledAs, DecisionInv, VerdictSound
  <1> HIDE DEF s
  <1>7. p = 0 => creating = "done"
    <2>1. MayBeListed(p)
      BY <1>0, RemovableListed DEF ListInv
    <2> QED BY <2>1 DEF MayBeListed
  <1>8. \A q \in Others : Winner(q)' => Winner(q)
    <2>1. ASSUME NEW q \in Others, phase'[ConfirmCall(q)] \in {"decide", "bcast"} PROVE Winner(q)
      BY <1>1, <1>2, <2>1 DEF Winner
    <2>2. ASSUME NEW q \in Others, NEW i \in Others, phase'[BcastCall(q, i)] # "none" PROVE Winner(q)
      BY <1>1, <1>2, <2>2 DEF Winner
    <2> QED BY <2>1, <2>2 DEF Winner
  <1>9. Untouched'
    BY <1>1, <1>4, <1>6, <1>7 DEF OnceInv, Untouched
  <1>10. ASSUME ~Rejected PROVE Unrejected'
    <2>1. Unrejected
      BY <1>10 DEF OnceInv
    <2>2. OwnStored'
      <3>1. \A q \in Parts : status'[q] # "absent" => status[q] # "absent"
        BY <1>1, <1>4 DEF Statuses
      <3> QED BY <1>1, <2>1, <3>1 DEF Unrejected, OwnStored, Own
    <2>3. OwnSent'
      <3>1. \A q \in Others : phase'[ConfirmCall(q)] # "none" => phase[ConfirmCall(q)] # "none"
        BY <1>1, <1>2
      <3> QED BY <1>1, <1>3, <2>1, <3>1 DEF Unrejected, OwnSent
    <2>4. SentIsNew'
      <3>1. \A r \in Others : phase'[ConfirmCall(r)] = "sent" => phase[ConfirmCall(r)] = "sent"
        BY <1>2
      <3> QED BY <1>1, <2>1, <3>1 DEF Unrejected, SentIsNew
    <2>5. FirstSigned' /\ OneWinner'
      BY <1>1, <1>5, <1>8, <2>1 DEF Unrejected, FirstSigned, SoleClaim, OneWinner
    <2> QED BY <2>2, <2>3, <2>4, <2>5 DEF Unrejected
  <1>11. announced[p]["started"] \in Nat
    BY <1>0, <1>1 DEF TypeOK, Statuses
  <1>12. StartAnnounced'
    <2>1. p \notin cut' /\ status'[p] \in {"started", "finished"} => announced'[p]["started"] > 0
      BY <1>4, <1>6, <1>11
    <2> QED BY <1>1, <1>4, <2>1 DEF OnceInv, StartAnnounced
  <1>13. CASE \E q \in Others : c = ConfirmCall(q)
    <2>1. PICK q \in Others : c = ConfirmCall(q)
      BY <1>13
    <2>2. /\ p = 0 /\ Winner(q)
          /\ \A r, i \in Others : phase'[BcastCall(r, i)] = phase[BcastCall(r, i)]
      BY <1>1, <1>2, <2>1 DEF Winner
    <2>3. s = "started" => announced[0]["started"] = 0 /\ Full
      BY <1>1, <1>6, <2>1, <2>2 DEF OnceInv, OnceAtInitiator, Unrejected, OneWinner
    <2>4. OnceAtInitiator'
      <3>1. ASSUME NEW r \in Others, phase'[ConfirmCall(r)] = "decide", ~Rejected
            PROVE  announced'[0]["started"] = 0
        <4>1. r # q /\ phase[ConfirmCall(r)] = "decide"
          BY <1>2, <2>1, <3>1
        <4>2. Winner(r)
          BY <4>1 DEF Winner
        <4> QED BY <2>2, <3>1, <4>1, <4>2 DEF OnceInv, Unrejected, OneWinner
      <3> QED BY <1>4, <1>5, <2>2, <2>3, <3>1 DEF OnceInv, OnceAtInitiator
    <2>5. OnceAtOthers'
      BY <1>4, <1>5, <2>2 DEF OnceInv, OnceAtOthers
    <2>6. NoBroadcast'
      <3>1. phase'[c] = "bcast" => N > 2
        BY <1>2 DEF Broadcasts
      <3> QED BY <1>2, <2>1, <2>2, <3>1 DEF OnceInv, NoBroadcast
    <2> QED BY <1>5, <1>9, <1>10, <1>12, <2>4, <2>5, <2>6 DEF OnceInv
  <1>14. CASE \E q, i \in Others : c = BcastCall(q, i)
    <2>1. PICK q \in Others : c = BcastCall(q, p) /\ p \in Others
      BY <1>14
    <2>2. /\ p # 0 /\ Winner(q) /\ phase'[c] \in {"ok", "failed"}
          /\ \A r \in Others : phase'[ConfirmCall(r)] = phase[ConfirmCall(r)]
      BY <1>1, <1>2, <2>1 DEF Winner, Broadcasts
    <2>3. N # 2
      BY <1>1, <2>1 DEF OnceInv, NoBroadcast
    <2>4. s = "started" => announced[p]["started"] = 0
      BY <1>1, <1>6, <2>1, StartedByBroadcast
    <2>5. OnceAtInitiator'
      BY <1>4, <1>5, <2>2 DEF OnceInv, OnceAtInitiator
    <2>6. OnceAtOthers'
      <3>1. \A r, i \in Others : phase[BcastCall(r, i)] \in {"ok", "failed"}
                                 => phase'[BcastCall(r, i)] \in {"ok", "failed"}
        BY <1>2, <2>2
      <3>2. announced'[p]["started"] <= 1 /\ phase'[BcastCall(q, p)] \in {"ok", "failed"}
        BY <1>4, <2>1, <2>2, <2>4 DEF OnceInv, OnceAtOthers
      <3>3. ASSUME NEW r \in Others, r # p
            PROVE  /\ announced'[r]["started"] <= 1
                   /\ (RequireAgreement /\ N > 2 /\ Plain' /\ announced'[r]["started"] > 0)
                        => \E i \in Others : phase'[BcastCall(i, r)] \in {"ok", "failed"}
        BY <1>4, <1>5, <3>1, <3>3 DEF OnceInv, OnceAtOthers
      <3> QED BY <2>1, <3>2, <3>3 DEF OnceAtOthers
    <2>7. NoBroadcast'
      BY <2>3 DEF NoBroadcast
    <2> QED BY <1>5, <1>9, <1>10, <1>12, <2>5, <2>6, <2>7 DEF OnceInv
  <1> QED BY <1>0, <1>1, <1>13, <1>14, MergeCalls DEF Statuses

\* Every step of a core keeps the invariant.
LEMMA OnceStep == DecisionInv /\ ClaimInv /\ ListInv /\ OnceInv /\ [Next]_vars => OnceInv'
  <1> SUFFICES ASSUME DecisionInv, ClaimInv, ListInv, OnceInv, [Next]_vars PROVE OnceInv'
    OBVIOUS
  <1>1. AnnounceKind /\ CallOrder
    BY AnnounceKinds DEF DecisionInv, ListInv
  <1>2. CASE CreateTask \/ CreateList \/ CreateListCut \/ Held
    BY <1>1, <1>2, OnceCreate, OnceList, OnceFrame
  <1>3. CASE \E p \in Parts : Finishes(p) /\ Announces(p, "finished")
    BY <1>3, OnceFinish
  <1>4. CASE \E p \in Others, d \in Signable : Confirms(p, d) /\ Announces(p, ConfirmedAs(p, d))
    BY <1>4, OnceConfirm
  <1>5. CASE \E c \in Calls :
                \/ SyncNew(c) \/ SyncMerge(c)
                \/ DecidesOn(c) /\ Removable(To(c)) /\ Announces(To(c), SettledAs(c))
    BY <1>1, <1>5, OnceNew, OnceMerge, OnceDecide
  <1> QED BY <1>1, <1>2, <1>3, <1>4, <1>5 DEF AnnounceKind

\* At most one handler settles a task with an approval, and each core is told once.
THEOREM OnceInvariant == Spec => [](DecisionInv /\ ClaimInv /\ ListInv /\ OnceInv)
  <1> QED BY OnceInit, OnceStep, DecisionInvariant, PTL DEF Spec

\* No core announces the start of the task twice to the operators that wait for
\* started tasks, whichever handlers race to settle it.
THEOREM StartedOnceCorrect == Spec => []StartedOnce
  <1>1. OnceInv => StartedOnce
    <2> SUFFICES ASSUME OnceInv, NEW p \in Parts PROVE announced[p]["started"] <= 1
      BY DEF StartedOnce
    <2>1. p = 0 \/ p \in Others
      BY NAssumption DEF Parts, Others
    <2> QED BY <2>1 DEF OnceInv, OnceAtInitiator, OnceAtOthers
  <1> QED BY <1>1, OnceInvariant, PTL

\* A second section that comes late finds the task as its verdict says, or open,
\* or started on the create request's word.
LEMMA DecideSettled ==
    ASSUME DecisionInv, ListInv, OnceInv, NEW c \in Calls, DecidesOn(c), Removable(To(c))
    PROVE  Settled(To(c))
  <1> USE CallShape, CallKinds
  <1> DEFINE p == To(c)
  <1>0. TypeOK /\ CallOrder
    BY DEF DecisionInv, ListInv
  <1>1. phase[c] = "decide" /\ p \in Parts /\ status'[p] = SettledAs(c) /\ status[p] # "absent"
    BY <1>0 DEF DecidesOn, Statuses, TypeOK
  <1>2. /\ RequireAgreement
        /\ IF verdict[c] THEN Rejected ELSE AllOwnApprove
    BY <1>1 DEF DecisionInv, VerdictSound, Rejected
  <1>3. CASE verdict[c]
    <2>1. Withdrawn = {"rejected"}
      BY <1>2, <1>3, FullApproved DEF Withdrawn
    <2> QED BY <1>1, <1>3, <2>1 DEF SettledAs, Settled
  <1>4. CASE ~verdict[c]
    <2>0. ~Rejected
      BY <1>2, <1>4, FullApproved
    <2>1. status[p] # "rejected"
      BY <1>1, <1>2, <2>0 DEF DecisionInv, Justified, Rejected
    <2>2. N > 1
      <3>1. Others # {}
        BY CallCases
      <3> QED BY <3>1, NAssumption DEF Others
    <2>3. announced[p]["started"] = 0
      <3>1. ASSUME NEW q \in Others, c = ConfirmCall(q) PROVE announced[p]["started"] = 0
        BY <1>1, <2>0, <3>1 DEF OnceInv, OnceAtInitiator
      <3>2. ASSUME NEW q \in Others, NEW i \in Others, c = BcastCall(q, i)
            PROVE  announced[p]["started"] = 0
        BY <1>1, <1>2, <2>0, <3>2, StartedByBroadcast
      <3> QED BY <1>0, <1>1, <3>1, <3>2, MergeCalls
    <2>4. status[p] \notin {"started", "finished"}
      BY <1>0, <1>1, <1>2, <2>2, <2>3, RemovableListed DEF ListInv, OnceInv, StartAnnounced
    <2> QED BY <2>1, <2>4 DEF Settled
  <1> QED BY <1>3, <1>4

\* A task that has been rejected or finished stays so, and one that has been
\* started can only be finished, whatever handlers and broadcasts are late, and
\* wherever they are cut off; except where a core started it on an approval that
\* its participant never signed.
THEOREM FinalityCorrect == Spec => Finality
  <1>1. ASSUME DecisionInv, ListInv, OnceInv, Next, NEW p \in Parts PROVE Settled(p)
    <2> USE CallShape, CallKinds
    <2>0. TypeOK /\ AnnounceKind
      BY <1>1, AnnounceKinds DEF DecisionInv
    <2>1. ASSUME status'[p] = status[p] \/ status[p] \in {"absent", "waiting"} PROVE Settled(p)
      BY <2>1 DEF Settled
    <2>2. CASE CreateTask
      <3>1. status' = [status EXCEPT ![0] = FirstStatus] /\ status[0] = "absent"
        BY <1>1, <2>2 DEF CreateTask, DecisionInv, NotYetSigned
      <3> QED BY <2>0, <2>1, <3>1 DEF TypeOK
    <2>3. CASE CreateList \/ CreateListCut \/ Held \/ \E c \in Calls : SyncMerge(c)
      BY <2>1, <2>3 DEF CreateList, CreateListCut, Held, SyncMerge
    <2>4. ASSUME NEW q \in Others, NEW d \in Signable, Confirms(q, d) PROVE Settled(p)
      BY <2>0, <2>1, <2>4 DEF Confirms, TypeOK
    <2>5. ASSUME NEW q \in Parts, Finishes(q) PROVE Settled(p)
      <3>1. status[q] = "started" /\ status' = [status EXCEPT ![q] = "finished"]
        BY <2>5 DEF Finishes
      <3> QED BY <2>0, <2>1, <3>1 DEF TypeOK, Settled
    <2>6. ASSUME NEW c \in Calls, SyncNew(c) PROVE Settled(p)
      BY <2>0, <2>1, <2>6 DEF SyncNew, TypeOK
    <2>7. ASSUME NEW c \in Calls, DecidesOn(c), Removable(To(c)) PROVE Settled(p)
      <3>1. CASE p = To(c)
        BY <1>1, <2>7, <3>1, DecideSettled
      <3>2. CASE p # To(c)
        BY <2>0, <2>1, <2>7, <3>2 DEF DecidesOn, TypeOK
      <3> QED BY <3>1, <3>2
    <2> QED BY <2>0, <2>2, <2>3, <2>4, <2>5, <2>6, <2>7 DEF AnnounceKind
  <1>2. DecisionInv /\ ListInv /\ OnceInv /\ [Next]_vars => [\A p \in Parts : Settled(p)]_vars
    BY <1>1
  <1> QED BY <1>2, OnceInvariant, PTL DEF Spec, Finality

-------------------------------------------------------------------------------
(***************************************************************************)
(* TaskRestart: what the cores hold and have sent was signed by its owner, *)
(* although the owner's core may have forgotten it, or came with the       *)
(* create request.                                                         *)
(***************************************************************************)

AllSigned(sg) == \A q \in Parts : "approve" \in sg[q] \/ filled[q] = "unsigned_approve"
SomeRefused(sg) == \E q \in Parts : "reject" \in sg[q] \/ filled[q] = "unsigned_reject"

SignedOK ==
    /\ signed \in [Parts -> SUBSET Signable]
    /\ signed[0] \subseteq {"approve"}
    /\ creating # "idle" => signed[0] = {"approve"}
    /\ absent \subseteq Calls

\* What a core stores, or has sent, about i was signed at some time, although
\* the core of i may have forgotten it, unless the create request brought it.
Witnessed(i) == {"none", filled[i]} \cup signed[i]

SignedOnly ==
    \A i \in Parts :
        /\ \A p \in Parts : decisions[p][i] \in Witnessed(i)
        /\ \A c \in Calls : payload[c][i] \in Witnessed(i)

\* A pending verdict is justified by that.
VerdictSigned ==
    RequireAgreement =>
        \A c \in Calls : phase[c] = "decide" =>
            IF verdict[c] THEN SomeRefused(signed) ELSE AllSigned(signed)

RestartInv == TypeOK /\ SignedOK /\ SignedOnly /\ VerdictSigned /\ ApprovedByAll

\* What a handler counts about i, i signed or the create request brought.
LEMMA Counted ==
    ASSUME TypeOK, NEW i \in Parts, NEW sg \in SUBSET Signable,
           NEW v \in {"none", filled[i]} \cup sg
    PROVE  /\ Approves(v) => "approve" \in sg \/ filled[i] = "unsigned_approve"
           /\ Rejects(v) => "reject" \in sg \/ filled[i] = "unsigned_reject"
  <1>1. filled[i] \in {"none"} \cup Unsigned
    BY DEF TypeOK, Requests
  <1> QED BY <1>1 DEF Approves, Rejects, Signable, Unsigned

\* Decisions are only ever added to what was signed, so that what they justify
\* stays justified.
LEMMA SignedKept ==
    ASSUME RestartInv, TypeOK', SignedOK', SignedOnly', UNCHANGED filled,
           \A i \in Parts : signed[i] \subseteq signed'[i],
           RequireAgreement => \A c \in Calls : phase'[c] = "decide" =>
               \/ phase[c] = "decide" /\ verdict'[c] = verdict[c]
               \/ IF verdict'[c] THEN SomeRefused(signed') ELSE AllSigned(signed'),
           RequireAgreement => \A p \in Parts :
               \/ status'[p] = status[p]
               \/ status'[p] \in {"absent", "waiting", "approved", "ignored"}
               \/ status'[p] \in {"started", "finished"} /\ AllSigned(signed')
               \/ status'[p] = "rejected" /\ SomeRefused(signed')
    PROVE  RestartInv'
  <1>1. AllSigned(signed) => AllSigned(signed')
    BY DEF AllSigned
  <1>2. SomeRefused(signed) => SomeRefused(signed')
    BY DEF SomeRefused
  <1>3. VerdictSigned'
    <2>1. ASSUME RequireAgreement, NEW c \in Calls, phase'[c] = "decide"
          PROVE  IF verdict'[c] THEN SomeRefused(signed') ELSE AllSigned(signed')
      BY <1>1, <1>2, <2>1 DEF RestartInv, VerdictSigned
    <2>2. /\ SomeRefused(signed)' <=> SomeRefused(signed')
          /\ AllSigned(signed)' <=> AllSigned(signed')
      BY DEF AllSigned, SomeRefused
    <2> QED BY <2>1, <2>2 DEF VerdictSigned
  <1>4. ApprovedByAll'
    <2> SUFFICES ASSUME RequireAgreement, NEW p \in Parts
                 PROVE  /\ status'[p] \in {"started", "finished"} => AllSigned(signed')
                        /\ status'[p] = "rejected" => SomeRefused(signed')
      BY DEF ApprovedByAll, AllSigned, SomeRefused
    <2>1. /\ status[p] \in {"started", "finished"} => AllSigned(signed)
          /\ status[p] = "rejected" => SomeRefused(signed)
      BY DEF RestartInv, ApprovedByAll, AllSigned, SomeRefused
    <2> QED BY <1>1, <1>2, <2>1
  <1> QED BY <1>3, <1>4 DEF RestartInv

\* Steps that leave the decisions alone and settle nothing.
LEMMA SignedFrame ==
    ASSUME RestartInv, TypeOK', absent' \subseteq Calls,
           creating' = "idle" \/ creating # "idle",
           UNCHANGED <<decisions, payload, verdict, signed, filled>>,
           \A c \in Calls : phase'[c] = "decide" => phase[c] = "decide",
           \A p \in Parts : \/ status'[p] = status[p]
                            \/ status[p] = "started" /\ status'[p] = "finished"
    PROVE  RestartInv'
  <1>1. SignedOK' /\ SignedOnly'
    BY DEF RestartInv, SignedOK, SignedOnly, Witnessed
  <1>2. ASSUME RequireAgreement, NEW p \in Parts, status[p] = "started"
        PROVE  AllSigned(signed')
    BY <1>2 DEF RestartInv, ApprovedByAll, AllSigned
  <1> QED BY <1>1, <1>2, SignedKept

\* Those among them that are steps of TaskSync.
LEMMA QuietSigned ==
    ASSUME RestartInv, TypeOK', Quiet, UNCHANGED signed, absent' \subseteq Calls
    PROVE  RestartInv'
  BY SignedFrame DEF Quiet

LEMMA RestartInitial == RestartInit => RestartInv
  <1> SUFFICES ASSUME RestartInit PROVE RestartInv
    OBVIOUS
  <1>1. TypeOK
    BY ValueTypes DEF RestartInit, Init, TypeOK, NoEntries, Phases
  <1>2. SignedOK
    BY CallShape DEF RestartInit, Init, SignedOK
  <1>3. SignedOnly /\ VerdictSigned /\ ApprovedByAll
    BY CallShape DEF RestartInit, Init, SignedOnly, Witnessed, VerdictSigned, ApprovedByAll, NoDecisions
  <1> QED BY <1>1, <1>2, <1>3 DEF RestartInv

\* What the initiator stores and sends first is its approval, and what the
\* create request brought.
LEMMA FirstOnes ==
    ASSUME TypeOK, NEW i \in Parts
    PROVE  FirstDecisions[i] = IF i = 0 THEN "approve" ELSE filled[i]
  BY CallShape DEF TypeOK, Requests, FirstDecisions

\* The initiator signs its approval.
LEMMA CreatedStep == ASSUME RestartInv, Created PROVE RestartInv'
  <1>0. TypeOK /\ SignedOK /\ SignedOnly
    BY DEF RestartInv
  <1>1. TypeOK'
    BY <1>0, TypeStep DEF Created, Next, Creation
  <1>2. /\ status' = [status EXCEPT ![0] = FirstStatus]
        /\ decisions' = [decisions EXCEPT ![0] = FirstDecisions]
        /\ signed' = [signed EXCEPT ![0] = {"approve"}]
        /\ UNCHANGED <<phase, payload, verdict, absent, filled>>
    BY DEF Created, CreateTask
  <1>3. /\ signed'[0] = {"approve"} /\ \A q \in Parts : q # 0 => signed'[q] = signed[q]
        /\ \A q \in Parts : signed[q] \subseteq signed'[q]
    BY <1>0, <1>2, CallShape DEF SignedOK
  <1>4. SignedOK'
    BY <1>0, <1>2, <1>3 DEF SignedOK, Signable
  <1>5. SignedOnly'
    <2>1. \A i \in Parts : decisions'[0][i] = IF i = 0 THEN "approve" ELSE filled[i]
      BY <1>0, <1>2, CallShape, FirstOnes DEF TypeOK
    <2>2. \A p \in Parts : p # 0 => decisions'[p] = decisions[p]
      BY <1>0, <1>2 DEF TypeOK
    <2> QED BY <1>0, <1>2, <1>3, <2>1, <2>2 DEF SignedOnly, Witnessed
  <1>6. RequireAgreement /\ FirstStatus = "started" => AllSigned(signed')
    <2>1. RequireAgreement /\ FirstStatus = "started" => Parts = {0}
      BY NAssumption DEF FirstStatus, Parts
    <2> QED BY <1>3, <2>1 DEF AllSigned
  <1>7. \A p \in Parts : status'[p] = status[p] \/ status'[p] \in {"approved"}
                           \/ (status'[p] = "started" /\ FirstStatus = "started")
    BY <1>0, <1>2, ValueTypes, CallShape DEF TypeOK
  <1> QED BY <1>1, <1>2, <1>3, <1>4, <1>5, <1>6, <1>7, SignedKept

\* A participant signs.
LEMMA SignsStep ==
    ASSUME RestartInv, TypeOK', NEW p \in Others, NEW d \in Signable, Confirms(p, d),
           signed' = [signed EXCEPT ![p] = @ \cup {d}], absent' = absent
    PROVE  RestartInv'
  <1>0. TypeOK /\ SignedOK /\ SignedOnly
    BY DEF RestartInv
  <1>2. p \in Parts /\ p # 0 /\ ConfirmCall(p) \in Calls
    BY CallShape DEF Others
  <1>3. /\ decisions' = [decisions EXCEPT ![p] = Mine(p, d)]
        /\ \/ /\ phase' = [phase EXCEPT ![ConfirmCall(p)] = "sent"]
              /\ payload' = [payload EXCEPT ![ConfirmCall(p)] = Mine(p, d)]
           \/ UNCHANGED <<phase, payload>>
        /\ UNCHANGED <<creating, verdict, filled>>
        /\ status' = [status EXCEPT ![p] = ConfirmedAs(p, d)]
    BY DEF Confirms
  <1>4. /\ signed'[p] = signed[p] \cup {d} /\ \A q \in Parts : q # p => signed'[q] = signed[q]
        /\ \A q \in Parts : signed[q] \subseteq signed'[q]
        /\ \A q \in Parts : signed'[q] \in SUBSET Signable
    BY <1>0, <1>2 DEF SignedOK
  <1>5. SignedOK'
    BY <1>0, <1>2, <1>3, <1>4, CallShape DEF SignedOK
  <1>6. \A i \in Parts : Mine(p, d)[i] \in {"none", filled[i]} \cup signed'[i]
    BY <1>0, <1>2, <1>4 DEF TypeOK, SignedOnly, Witnessed, Mine
  <1>7. SignedOnly'
    <2>1. \A q, i \in Parts : decisions'[q][i] \in {"none", filled[i]} \cup signed'[i]
      BY <1>0, <1>2, <1>3, <1>4, <1>6 DEF TypeOK, SignedOnly, Witnessed
    <2>2. \A c \in Calls, i \in Parts : payload'[c][i] \in {"none", filled[i]} \cup signed'[i]
      BY <1>0, <1>2, <1>3, <1>4, <1>6 DEF TypeOK, SignedOnly, Witnessed
    <2> QED BY <1>3, <2>1, <2>2 DEF SignedOnly, Witnessed
  <1>8. \A c \in Calls : phase'[c] = "decide" => phase[c] = "decide"
    BY <1>0, <1>2, <1>3 DEF TypeOK
  <1>9. AllApprove(Mine(p, d)) => AllSigned(signed')
    BY <1>0, <1>4, <1>6, Counted DEF AllApprove, AllSigned
  <1>10. d = "reject" => SomeRefused(signed')
    BY <1>2, <1>4 DEF SomeRefused
  <1>11. StatusOf(d) \in {"approved", "ignored"} \/ (StatusOf(d) = "rejected" /\ d = "reject")
    BY DEF StatusOf, Signable
  <1>12. \A q \in Parts : q # p => status'[q] = status[q]
    BY <1>0, <1>3 DEF TypeOK
  <1>13. RequireAgreement =>
           \/ status'[p] \in {"approved", "ignored"}
           \/ status'[p] = "started" /\ AllSigned(signed')
           \/ status'[p] = "rejected" /\ SomeRefused(signed')
    BY <1>0, <1>2, <1>3, <1>9, <1>10, <1>11 DEF TypeOK, ConfirmedAs
  <1> QED BY <1>3, <1>4, <1>5, <1>7, <1>8, <1>12, <1>13, SignedKept

\* It does so by confirming, to the end or to a cut that comes after the store.
LEMMA DecidedStep ==
    ASSUME RestartInv, NEW p \in Others, NEW d \in Signable, Decided(p, d) \/ DecidedCut(p, d)
    PROVE  RestartInv'
  <1>0. TypeOK /\ SignedOK /\ SignedOnly
    BY DEF RestartInv
  <1>1. TypeOK'
    BY <1>0, TypeStep, CallShape DEF Decided, DecidedCut, Next, User
  <1>2. CASE Decided(p, d)
    BY <1>1, <1>2, SignsStep
    DEF Decided, ConfirmTask, Confirmable, ChangeStatus, Confirms
  <1>3. CASE DecidedCut(p, d)
    <2>1. /\ Confirmable(p) /\ CutStatus(p, ConfirmedAs(p, d), Mine(p, d))
          /\ UNCHANGED <<creating, phase, payload, verdict, filled, absent>>
          /\ signed' = IF decisions' = decisions THEN signed
                       ELSE [signed EXCEPT ![p] = @ \cup {d}]
      BY <1>3 DEF DecidedCut, ConfirmCut
    <2>2. CASE UNCHANGED <<status, decisions, announced>>
      BY <1>0, <1>1, <2>1, <2>2, SignedFrame DEF SignedOK
    <2>3. CASE /\ status' = [status EXCEPT ![p] = ConfirmedAs(p, d)]
               /\ decisions' = [decisions EXCEPT ![p] = Mine(p, d)]
      <3>1. Confirms(p, d)
        BY <2>1, <2>3 DEF Confirmable, Confirms
      <3>2. signed' = [signed EXCEPT ![p] = @ \cup {d}]
        <4>1. CASE decisions' # decisions
          BY <2>1, <4>1
        <4>2. CASE decisions' = decisions
          <5>1. decisions[p][p] = d /\ p \in Parts
            BY <1>0, <2>3, <4>2, CallShape DEF TypeOK, Mine
          <5>2. d \in signed[p]
            BY <1>0, <5>1, Signatures DEF SignedOnly, Witnessed
          <5>3. signed[p] \cup {d} = signed[p]
            BY <5>2
          <5> QED BY <1>0, <2>1, <4>2, <5>1, <5>3 DEF SignedOK
        <4> QED BY <4>1, <4>2
      <3> QED BY <1>1, <2>1, <3>1, <3>2, SignsStep
    <2> QED BY <1>0, <2>1, <2>2, <2>3, CutStored, CallShape
  <1> QED BY <1>2, <1>3

\* A task is stored as it came, in the place of whatever was there.
LEMMA StoredStep == ASSUME RestartInv, NEW c \in Calls, StoreNew(c) PROVE RestartInv'
  <1>0. TypeOK /\ SignedOK /\ SignedOnly
    BY DEF RestartInv
  <1>1. To(c) \in Parts
    BY CallShape
  <1>2. /\ absent' = absent \ {c}
        /\ phase' = [phase EXCEPT ![c] = "listing"]
        /\ status' = [status EXCEPT ![To(c)] = "waiting"]
        /\ decisions' = [decisions EXCEPT ![To(c)] = payload[c]]
        /\ UNCHANGED <<listed, announced, creating, payload, verdict, expired, filled, cut, signed>>
    BY DEF StoreNew
  <1>3. TypeOK'
    BY <1>0, <1>1, <1>2 DEF TypeOK, Phases, Statuses
  <1>4. SignedOK'
    BY <1>0, <1>2 DEF SignedOK
  <1>5. SignedOnly'
    BY <1>0, <1>1, <1>2 DEF TypeOK, SignedOnly, Witnessed
  <1>6. /\ \A x \in Calls : phase'[x] = "decide" => phase[x] = "decide"
        /\ \A p \in Parts : status'[p] = status[p] \/ status'[p] = "waiting"
    BY <1>0, <1>1, <1>2 DEF TypeOK
  <1> QED BY <1>2, <1>3, <1>4, <1>5, <1>6, SignedKept

\* The first section merges what is known, and draws a verdict from it.
LEMMA MergedStep ==
    ASSUME RestartInv, NEW c \in Calls, SyncMerge(c), SameRestarts
    PROVE  RestartInv'
  <1>0. TypeOK /\ SignedOK /\ SignedOnly
    BY DEF RestartInv
  <1>1. TypeOK'
    BY <1>0, TypeStep DEF Next, Handler
  <1>2. To(c) \in Parts
    BY CallShape
  <1>3. /\ decisions' = [decisions EXCEPT ![To(c)] = Merged(c)]
        /\ UNCHANGED <<status, creating, payload, signed, absent, filled>>
    BY DEF SyncMerge, SameRestarts
  <1>4. \A i \in Parts : /\ Merged(c)[i] \in {"none", filled[i]} \cup signed[i]
                         /\ signed[i] \in SUBSET Signable
    BY <1>0, <1>2 DEF SignedOnly, Witnessed, Merged, SignedOK
  <1>5. SignedOK'
    BY <1>0, <1>3 DEF SignedOK
  <1>6. SignedOnly'
    BY <1>0, <1>2, <1>3, <1>4 DEF TypeOK, SignedOnly, Witnessed
  <1>7. ASSUME NEW x \in Calls, phase'[x] = "decide"
        PROVE  \/ phase[x] = "decide" /\ verdict'[x] = verdict[x]
               \/ IF verdict'[x] THEN SomeRefused(signed') ELSE AllSigned(signed')
    <2>1. CASE Settles(c)
      <3>1. /\ phase' = [phase EXCEPT ![c] = "decide"]
            /\ verdict' = [verdict EXCEPT ![c] = AnyReject(Merged(c))]
            /\ AllValid(Merged(c)) \/ AnyReject(Merged(c))
        BY <2>1 DEF SyncMerge, Settles
      <3>2. CASE x # c
        BY <1>0, <1>7, <3>1, <3>2 DEF TypeOK
      <3>3. CASE x = c
        <4>1. verdict'[c] <=> AnyReject(Merged(c))
          BY <1>0, <3>1, Zenon DEF TypeOK
        <4>2. AnyReject(Merged(c)) => SomeRefused(signed')
          BY <1>0, <1>3, <1>4, Counted DEF AnyReject, SomeRefused
        <4>3. ~AnyReject(Merged(c)) => AllSigned(signed')
          BY <1>0, <1>3, <1>4, <3>1, Counted DEF AllValid, AnyReject, AllSigned
        <4> QED BY <3>3, <4>1, <4>2, <4>3
      <3> QED BY <3>2, <3>3
    <2>2. CASE ~Settles(c)
      <3>1. Reply(c) /\ verdict' = verdict
        BY <2>2 DEF SyncMerge
      <3> QED BY <1>0, <1>7, <3>1, ReplyType
    <2> QED BY <2>1, <2>2
  <1> QED BY <1>1, <1>3, <1>5, <1>6, <1>7, SignedKept

\* The second section settles the task on the verdict of the first, unless it
\* is cut off before it stores the task.
LEMMA SettledStep ==
    ASSUME RestartInv, NEW c \in Calls, Decide(c) \/ DecideCut(c), SameRestarts
    PROVE  RestartInv'
  <1>0. TypeOK /\ SignedOK /\ SignedOnly /\ VerdictSigned
    BY DEF RestartInv
  <1>1. TypeOK'
    BY <1>0, TypeStep DEF Next, Handler
  <1>2. To(c) \in Parts /\ 0 \in Parts /\ signed' = signed /\ absent' = absent
    BY CallShape DEF SameRestarts
  <1>3. CASE Quiet
    BY <1>0, <1>1, <1>2, <1>3, QuietSigned DEF SignedOK
  <1>4. CASE DecidesOn(c)
    <2>1. /\ phase[c] = "decide"
          /\ status' = [status EXCEPT ![To(c)] = SettledAs(c)]
          /\ UNCHANGED <<decisions, creating, verdict, filled>>
      BY <1>4 DEF DecidesOn
    <2>2. SignedOK'
      BY <1>0, <1>2, <2>1 DEF SignedOK
    <2>3. /\ \A x \in Calls : phase'[x] = "decide" => phase[x] = "decide"
          /\ \A x \in Calls : payload'[x] = payload[x] \/ payload'[x] = decisions[0]
      BY <1>4 DEF DecidesOn
    <2>4. SignedOnly'
      BY <1>0, <1>2, <2>1, <2>3 DEF SignedOnly, Witnessed
    <2>5. RequireAgreement => IF verdict[c] THEN SomeRefused(signed') ELSE AllSigned(signed')
      BY <1>0, <1>2, <2>1 DEF VerdictSigned
    <2>6. RequireAgreement => \A p \in Parts :
            \/ status'[p] = status[p]
            \/ status'[p] \in {"started", "finished"} /\ AllSigned(signed')
            \/ status'[p] = "rejected" /\ SomeRefused(signed')
      BY <1>0, <1>2, <2>1, <2>5 DEF TypeOK, SettledAs
    <2> QED BY <1>1, <1>2, <2>1, <2>2, <2>3, <2>4, <2>6, SignedKept
  <1> QED BY <1>0, <1>3, <1>4, DecideKind

\* The initiator sends what it stored when it created the task.
LEMMA SentStep ==
    ASSUME RestartInv, NEW i \in Others, CreateSend(i), SameRestarts
    PROVE  RestartInv'
  <1>0. TypeOK /\ SignedOK /\ SignedOnly
    BY DEF RestartInv
  <1>1. TypeOK'
    BY <1>0, TypeStep DEF Next, Creation
  <1>2. CreateCall(i) \in Calls
    BY CallShape
  <1>3. /\ payload' = [payload EXCEPT ![CreateCall(i)] = FirstDecisions]
        /\ phase' = [phase EXCEPT ![CreateCall(i)] = "sent"]
        /\ creating = "sending"
        /\ UNCHANGED <<status, decisions, creating, verdict, signed, absent, filled>>
    BY DEF CreateSend, SameRestarts, task
  <1>4. signed[0] = {"approve"} /\ SignedOK'
    BY <1>0, <1>3 DEF SignedOK
  <1>5. \A j \in Parts : FirstDecisions[j] = IF j = 0 THEN "approve" ELSE filled[j]
    BY <1>0, FirstOnes
  <1>6. SignedOnly'
    BY <1>0, <1>2, <1>3, <1>4, <1>5 DEF TypeOK, SignedOnly, Witnessed
  <1>7. \A x \in Calls : phase'[x] = "decide" => phase[x] = "decide"
    BY <1>0, <1>2, <1>3 DEF TypeOK
  <1> QED BY <1>1, <1>3, <1>4, <1>6, <1>7, SignedKept

\* The other steps of the handlers and of the send loops settle nothing.
LEMMA QuietSync ==
    ASSUME RestartInv, SameRestarts,
           \/ CreateFail \/ CreateList \/ CreateListCut
           \/ \E p \in Others : Broadcast(p)
           \/ \E c \in Calls : SyncList(c) \/ SyncRefuse(c) \/ DecideFail(c) \/ SyncListCut(c)
           \/ \E p \in Parts : FinishTask(p) \/ FinishCut(p) \/ Expire(p)
    PROVE  RestartInv'
  <1>0. TypeOK /\ SignedOK
    BY DEF RestartInv
  <1>1. TypeOK'
    BY <1>0, TypeStep DEF Next, Creation, Handler, User
  <1>2. absent' \subseteq Calls /\ signed' = signed
    BY <1>0 DEF SameRestarts, SignedOK
  <1>3. CASE Quiet
    BY <1>1, <1>2, <1>3, QuietSigned
  <1>4. ASSUME NEW p \in Parts, Finishes(p) PROVE RestartInv'
    <2>1. /\ UNCHANGED <<decisions, creating, payload, verdict, phase, filled>>
          /\ \A q \in Parts : \/ status'[q] = status[q]
                              \/ status[q] = "started" /\ status'[q] = "finished"
      BY <1>0, <1>4 DEF Finishes, TypeOK
    <2> QED BY <1>1, <1>2, <2>1, SignedFrame
  <1>5. CASE \E p \in Parts : FinishTask(p) \/ FinishCut(p)
    BY <1>0, <1>3, <1>4, <1>5, FinishKind
  <1>6. CASE \/ CreateFail \/ CreateList \/ CreateListCut
             \/ \E p \in Others : Broadcast(p)
             \/ \E c \in Calls : SyncList(c) \/ SyncRefuse(c) \/ DecideFail(c) \/ SyncListCut(c)
             \/ \E p \in Parts : Expire(p)
    BY <1>0, <1>3, <1>6, QuietSteps
  <1> QED BY <1>5, <1>6

\* Nor do calls that get lost or find no task, nor the reuse of ended ones.
LEMMA QuietCalls ==
    ASSUME RestartInv,
           \/ \E c \in Calls : Lost(c) \/ Nameless(c) \/ FindAbsent(c)
           \/ \E p \in Others : Reuse(p)
           \/ UNCHANGED allVars
    PROVE  RestartInv'
  <1>0. TypeOK /\ SignedOK
    BY DEF RestartInv
  <1>1. CASE \E c \in Calls : Lost(c) \/ Nameless(c)
    <2>1. PICK c \in Calls : Lost(c) \/ Nameless(c)
      BY <1>1
    <2>2. /\ UNCHANGED <<status, decisions, listed, announced, creating, payload, verdict, expired,
                         filled, cut, signed>>
          /\ phase' = [phase EXCEPT ![c] = "failed"]
          /\ absent' \subseteq absent
      BY <2>1 DEF Lost, Lose, Nameless, SameRestarts, task
    <2>3. TypeOK' /\ \A x \in Calls : phase'[x] = "decide" => phase[x] = "decide"
      BY <1>0, <2>2 DEF TypeOK, Phases
    <2> QED BY <1>0, <2>2, <2>3, SignedFrame DEF SignedOK
  <1>2. CASE \E c \in Calls : FindAbsent(c)
    <2>1. PICK c \in Calls : UNCHANGED vars /\ absent' = absent \cup {c} /\ signed' = signed
      BY <1>2 DEF FindAbsent
    <2>2. TypeOK' /\ absent' \subseteq Calls
      BY <1>0, <2>1 DEF TypeOK, SignedOK, vars
    <2> QED BY <2>1, <2>2, SignedFrame DEF vars
  <1>3. CASE \E p \in Others : Reuse(p)
    <2>1. PICK p \in Others : Reuse(p)
      BY <1>3
    <2>2. /\ UNCHANGED <<status, decisions, listed, announced, creating, payload, verdict, expired,
                         filled, cut, signed, absent>>
          /\ phase' = [c \in Calls |-> IF c \in Confirmations(p) THEN "none" ELSE phase[c]]
      BY <2>1 DEF Reuse, SameRestarts, task
    <2>3. TypeOK' /\ \A x \in Calls : phase'[x] = "decide" => phase[x] = "decide"
      BY <1>0, <2>2 DEF TypeOK, Phases
    <2> QED BY <1>0, <2>2, <2>3, SignedFrame DEF SignedOK
  <1>4. CASE UNCHANGED allVars
    <2>1. TypeOK'
      BY <1>0, <1>4 DEF TypeOK, allVars, vars
    <2> QED BY <1>0, <1>4, <2>1, SignedFrame DEF SignedOK, allVars, vars
  <1> QED BY <1>1, <1>2, <1>3, <1>4

\* A core that restarts forgets what others justified, not what was signed.
LEMMA ForgottenStep == ASSUME RestartInv, NEW p \in Parts, Restart(p) PROVE RestartInv'
  <1>0. TypeOK /\ SignedOK /\ SignedOnly
    BY DEF RestartInv
  <1>1. /\ status' = [status EXCEPT ![p] = "absent"]
        /\ decisions' = [decisions EXCEPT ![p] = NoDecisions]
        /\ listed' = [listed EXCEPT ![p] = NoEntries]
        /\ announced' = [announced EXCEPT ![p] = NoEntries]
        /\ creating' = IF p = 0 /\ creating = "sending" THEN "failed" ELSE creating
        /\ phase' = [c \in Calls |-> IF c \in Forgotten(p) THEN "failed" ELSE phase[c]]
        /\ absent' \subseteq absent
        /\ cut' \subseteq cut
        /\ UNCHANGED <<payload, verdict, expired, filled, signed>>
    BY DEF Restart
  <1>2. TypeOK'
    <2>1. NoEntries \in [Statuses -> Nat] /\ NoDecisions \in [Parts -> Decisions]
      BY ValueTypes DEF NoEntries
    <2> QED BY <1>0, <1>1, <2>1 DEF TypeOK, Phases
  <1>3. SignedOK'
    BY <1>0, <1>1 DEF SignedOK
  <1>4. SignedOnly'
    <2>1. \A i \in Parts : NoDecisions[i] = "none"
      BY DEF NoDecisions
    <2>2. \A q, i \in Parts : decisions'[q][i] \in {decisions[q][i], "none"}
      BY <1>0, <1>1, <2>1 DEF TypeOK
    <2> QED BY <1>0, <1>1, <2>2 DEF SignedOnly, Witnessed
  <1>5. /\ \A x \in Calls : phase'[x] = "decide" => phase[x] = "decide"
        /\ \A q \in Parts : status'[q] = status[q] \/ status'[q] = "absent"
    BY <1>0, <1>1 DEF TypeOK
  <1> QED BY <1>1, <1>2, <1>3, <1>4, <1>5, SignedKept

LEMMA RestartStep == RestartInv /\ [RestartNext]_allVars => RestartInv'
  <1> SUFFICES ASSUME RestartInv, [RestartNext]_allVars PROVE RestartInv'
    OBVIOUS
  <1>1. CASE Created
    BY <1>1, CreatedStep
  <1>2. CASE SameRestarts /\ (CreateFail \/ CreateList \/ CreateListCut \/ \E i \in Others : CreateSend(i))
    BY <1>2, SentStep, QuietSync
  <1>3. ASSUME NEW c \in Calls,
               \/ Nameless(c) \/ FindAbsent(c) \/ StoreNew(c) \/ Lost(c)
               \/ c \notin absent /\ SameRestarts /\ Known(c)
        PROVE  RestartInv'
    <2>1. CASE Nameless(c) \/ FindAbsent(c) \/ Lost(c)
      BY <2>1, QuietCalls
    <2>2. CASE StoreNew(c)
      BY <2>2, StoredStep
    <2>3. CASE SameRestarts /\ Known(c)
      BY <2>3, MergedStep, SettledStep, QuietSync DEF Known
    <2> QED BY <1>3, <2>1, <2>2, <2>3
  <1>4. ASSUME NEW p \in Others,
               \/ SameRestarts /\ Broadcast(p)
               \/ Reuse(p)
               \/ \E d \in Signable : Decided(p, d) \/ DecidedCut(p, d)
        PROVE  RestartInv'
    BY <1>4, DecidedStep, QuietSync, QuietCalls
  <1>5. ASSUME NEW p \in Parts,
               \/ SameRestarts /\ (FinishTask(p) \/ FinishCut(p) \/ Expire(p))
               \/ Restart(p)
        PROVE  RestartInv'
    BY <1>5, ForgottenStep, QuietSync
  <1>6. CASE UNCHANGED allVars
    BY <1>6, QuietCalls
  <1> QED BY <1>1, <1>2, <1>3, <1>4, <1>5, <1>6 DEF RestartNext

\* What the cores store and have sent was signed at some time, or came with the
\* create request, and a pending verdict was drawn from it, whatever restarts,
\* gets lost, is cut off or expires.
THEOREM RestartInvariant == RestartSpec => []RestartInv
  <1> QED BY RestartInitial, RestartStep, PTL DEF RestartSpec

\* No core starts a task that somebody never approved, nor rejects one that
\* nobody rejected, even when cores forget the task and learn it anew; the
\* create request may have approved or rejected in the place of somebody.
THEOREM ApprovedCorrect == RestartSpec => []ApprovedByAll
  <1>1. RestartInv => ApprovedByAll
    BY DEF RestartInv
  <1> QED BY <1>1, RestartInvariant, PTL

-------------------------------------------------------------------------------
(***************************************************************************)
(* The cores that have not restarted.  What restarts elsewhere cannot take *)
(* back: the initiator broadcasts only what it settled, it settles only    *)
(* what it has listed, and it lists only when every create call was        *)
(* answered.  So a broadcast that reaches an intact core finds a task.     *)
(***************************************************************************)

Intact == Parts \ restarted

\* The initiator's core never gets the task back.
InitiatorOrder ==
    /\ creating = "idle" => status[0] = "absent"
    /\ 0 \in restarted => status[0] = "absent" /\ creating \in {"done", "failed"}
    /\ creating # "idle" /\ 0 \in Intact => status[0] # "absent"

\* A handler that has found no task serves a create call, or a broadcast to a
\* core that has restarted.
AbsentOrder ==
    \A c \in absent :
        /\ phase[c] = "sent"
        /\ \E i \in Others : \/ c = CreateCall(i)
                             \/ i \in restarted /\ \E q \in Others : c = BcastCall(q, i)

RestartOrder ==
    /\ InitiatorOrder
    /\ AbsentOrder
    /\ \A c \in Calls : phase[c] = "decide" => RequireAgreement
    /\ \A p \in Others :
          /\ creating = "idle" => phase[CreateCall(p)] = "none"
          /\ creating = "done" => phase[CreateCall(p)] = "ok"
          /\ phase[ConfirmCall(p)] # "listing"
          /\ phase[ConfirmCall(p)] = "bcast" => creating = "done"
          /\ \A i \in Others :
                /\ phase[BcastCall(p, i)] # "none" => creating = "done"
                /\ i \in Intact => phase[BcastCall(p, i)] # "listing"
          /\ p \in Intact =>
                /\ phase[CreateCall(p)] \in {"none", "sent", "listing", "ok", "failed"}
                /\ phase[CreateCall(p)] \in {"none", "sent"} => status[p] = "absent"
                /\ phase[CreateCall(p)] = "listing" => status[p] # "absent"

IntactInv == RestartOrder /\ \A p \in Intact : ListsOf(p)

\* A call of the task moves on: its message is handled, gets lost, or is
\* answered.  No core gets a task by that, and none loses one.
LEMMA OrderMoves ==
    ASSUME RestartOrder, NEW c \in Calls,
           phase[c] \notin {"none", "ok"}, phase'[c] \notin {"none", "sent", "listing"},
           \A x \in Calls : x # c => phase'[x] = phase[x],
           phase'[c] = "decide" => RequireAgreement,
           phase'[c] = "bcast" => creating = "done",
           \A i \in Others : c = CreateCall(i) /\ i \in Intact => phase'[c] \in {"ok", "failed"},
           \A p \in Parts : status'[p] = "absent" <=> status[p] = "absent",
           absent' \subseteq absent \ {c}, absent \subseteq Calls,
           UNCHANGED <<creating, restarted>>
    PROVE  RestartOrder'
  <1> USE CallShape, CallKinds
  <1>1. InitiatorOrder'
    BY DEF RestartOrder, InitiatorOrder, Intact
  <1>2. AbsentOrder'
    BY DEF RestartOrder, AbsentOrder
  <1>3. \A x \in Calls : phase'[x] = "decide" => RequireAgreement
    BY DEF RestartOrder
  <1>4. ASSUME NEW p \in Others
        PROVE  /\ creating' = "idle" => phase'[CreateCall(p)] = "none"
               /\ creating' = "done" => phase'[CreateCall(p)] = "ok"
               /\ phase'[ConfirmCall(p)] # "listing"
               /\ phase'[ConfirmCall(p)] = "bcast" => creating' = "done"
               /\ \A i \in Others :
                     /\ phase'[BcastCall(p, i)] # "none" => creating' = "done"
                     /\ i \in Intact => phase'[BcastCall(p, i)] # "listing"
    BY DEF RestartOrder
  <1>5. ASSUME NEW p \in Others, p \in Intact
        PROVE  /\ phase'[CreateCall(p)] \in {"none", "sent", "listing", "ok", "failed"}
               /\ phase'[CreateCall(p)] \in {"none", "sent"} => status'[p] = "absent"
               /\ phase'[CreateCall(p)] = "listing" => status'[p] # "absent"
    BY <1>5 DEF RestartOrder, Intact
  <1> QED BY <1>1, <1>2, <1>3, <1>4, <1>5 DEF RestartOrder, Intact

\* A core's task moves from one status to another, without a call.
LEMMA OrderStays ==
    ASSUME RestartOrder,
           \A p \in Parts : status'[p] = "absent" <=> status[p] = "absent",
           UNCHANGED <<phase, creating, restarted, absent>>
    PROVE  RestartOrder'
  <1>1. InitiatorOrder' /\ AbsentOrder'
    BY CallShape DEF RestartOrder, InitiatorOrder, AbsentOrder, Intact
  <1> QED BY <1>1, CallShape DEF RestartOrder, Intact

\* Only a core that has listed the task gives it another status.
LEMMA MovesListed ==
    ASSUME RestartInv, IntactInv, NEW p \in Parts, NEW s \in Statuses, NEW d,
           ChangeStatus(p, s) \/ CutStatus(p, s, d)
    PROVE  /\ \A q \in Parts : status'[q] = "absent" <=> status[q] = "absent"
           /\ p = 0 => creating = "done"
  <1>1. TypeOK /\ InitiatorOrder
    BY DEF RestartInv, IntactInv, RestartOrder
  <1>2. /\ Removable(p) /\ status[p] \in Statuses
        /\ status' \in {status, [status EXCEPT ![p] = s]}
    BY DEF ChangeStatus, CutStatus, Removable
  <1>3. "absent" \notin Statuses
    BY DEF Statuses
  <1>4. p = 0 => creating = "done"
    <2> SUFFICES ASSUME p = 0 PROVE creating = "done"
      OBVIOUS
    <2>1. 0 \in Intact
      BY <1>1, <1>2, <1>3 DEF InitiatorOrder, Intact
    <2>2. MayBeListed(p)
      BY <1>1, <1>2, <2>1, RemovableListed DEF IntactInv
    <2> QED BY <2>2 DEF MayBeListed
  <1> QED BY <1>1, <1>2, <1>3, <1>4 DEF TypeOK

\* The creation of the task, and the call that reports a decision.
LEMMA OrderOpens ==
    ASSUME RestartInv, IntactInv,
           \/ Created
           \/ SameRestarts /\ (CreateFail \/ CreateList \/ CreateListCut)
           \/ SameRestarts /\ \E i \in Others : CreateSend(i)
           \/ \E p \in Others, d \in Signable : Decided(p, d) \/ DecidedCut(p, d)
    PROVE  RestartOrder'
  <1> USE CallShape, CallKinds
  <1>0. /\ TypeOK /\ RestartOrder /\ InitiatorOrder /\ AbsentOrder
        /\ absent \subseteq Calls
    BY DEF RestartInv, SignedOK, IntactInv, RestartOrder
  <1>1. CASE Created
    <2>1. /\ creating = "idle" /\ creating' = "sending"
          /\ status'[0] # "absent" /\ \A p \in Parts : p # 0 => status'[p] = status[p]
          /\ UNCHANGED <<phase, restarted, absent>>
      BY <1>0, <1>1, ValueTypes DEF Created, CreateTask, TypeOK
    <2>2. 0 \in Intact
      BY <1>0, <2>1 DEF InitiatorOrder, Intact
    <2>3. InitiatorOrder' /\ AbsentOrder'
      BY <1>0, <2>1, <2>2 DEF InitiatorOrder, AbsentOrder, Intact
    <2> QED BY <1>0, <2>1, <2>3 DEF RestartOrder, Intact
  <1>2. CASE SameRestarts /\ (CreateFail \/ CreateList \/ CreateListCut)
    <2>1. /\ creating = "sending" /\ creating' \in {"failed", "done"}
          /\ creating' = "done" => \A i \in Others : phase[CreateCall(i)] = "ok"
          /\ UNCHANGED <<status, phase, restarted, absent>>
      BY <1>2 DEF CreateFail, CreateList, CreateListCut, SameRestarts, task
    <2>2. InitiatorOrder' /\ AbsentOrder'
      BY <1>0, <2>1 DEF InitiatorOrder, AbsentOrder, Intact
    <2>3. \A p \in Others :
            /\ phase[ConfirmCall(p)] # "bcast"
            /\ \A i \in Others : phase[BcastCall(p, i)] = "none"
      BY <1>0, <2>1 DEF RestartOrder
    <2> QED BY <1>0, <2>1, <2>2, <2>3 DEF RestartOrder, Intact
  <1>3. ASSUME NEW i \in Others, CreateSend(i), SameRestarts PROVE RestartOrder'
    <2>1. /\ creating = "sending" /\ phase[CreateCall(i)] = "none"
          /\ phase'[CreateCall(i)] = "sent"
          /\ \A x \in Calls : x # CreateCall(i) => phase'[x] = phase[x]
          /\ UNCHANGED <<status, creating, restarted, absent>>
      BY <1>0, <1>3 DEF CreateSend, SameRestarts, task, TypeOK
    <2>2. InitiatorOrder' /\ AbsentOrder'
      BY <1>0, <2>1 DEF InitiatorOrder, AbsentOrder, Intact
    <2> QED BY <1>0, <2>1, <2>2 DEF RestartOrder, Intact
  <1>4. ASSUME NEW p \in Others, NEW d \in Signable, Decided(p, d) \/ DecidedCut(p, d)
        PROVE  RestartOrder'
    <2>1. PICK s \in Statuses : ChangeStatus(p, s) \/ CutStatus(p, s, Mine(p, d))
      BY <1>0, <1>4, ValueTypes DEF Decided, ConfirmTask, DecidedCut, ConfirmCut, Statuses
    <2>2. \A q \in Parts : status'[q] = "absent" <=> status[q] = "absent"
      BY <2>1, MovesListed
    <2>3. /\ phase[ConfirmCall(p)] = "none"
          /\ phase' \in {phase, [phase EXCEPT ![ConfirmCall(p)] = "sent"]}
          /\ UNCHANGED <<creating, restarted, absent>>
      BY <1>4 DEF Decided, ConfirmTask, DecidedCut, ConfirmCut
    <2>4. /\ phase'[ConfirmCall(p)] \in {"none", "sent"}
          /\ \A x \in Calls : x # ConfirmCall(p) => phase'[x] = phase[x]
      BY <1>0, <2>3 DEF TypeOK
    <2>5. InitiatorOrder' /\ AbsentOrder'
      BY <1>0, <2>2, <2>3, <2>4 DEF InitiatorOrder, AbsentOrder, Intact
    <2>6. \A x \in Calls : phase'[x] = "decide" => RequireAgreement
      BY <1>0, <2>4 DEF RestartOrder
    <2> QED BY <1>0, <2>2, <2>3, <2>4, <2>5, <2>6 DEF RestartOrder, Intact
  <1> QED BY <1>1, <1>2, <1>3, <1>4

\* The handlers that know the task, and the calls that are lost or refused.
LEMMA OrderHandled ==
    ASSUME RestartInv, IntactInv, NEW c \in Calls,
           Nameless(c) \/ Lost(c) \/ (c \notin absent /\ SameRestarts /\ Known(c))
    PROVE  RestartOrder'
  <1> USE CallShape, CallKinds
  <1>0. /\ TypeOK /\ RestartOrder /\ AbsentOrder
        /\ absent \subseteq Calls
    BY DEF RestartInv, SignedOK, IntactInv, RestartOrder
  <1>1. CASE Nameless(c) \/ Lost(c)
    <2>1. /\ phase[c] \notin {"none", "ok"} /\ phase' = [phase EXCEPT ![c] = "failed"]
          /\ UNCHANGED <<status, creating, restarted>>
      BY <1>1 DEF Nameless, Lost, Lose, SameRestarts, task
    <2>2. absent' \subseteq absent \ {c}
      <3>1. CASE Lost(c)
        BY <3>1 DEF Lost
      <3>2. CASE Nameless(c)
        <4>1. absent' = absent /\ c[1] = "confirm"
          BY <3>2 DEF Nameless, SameRestarts
        <4>2. c \notin absent
          BY <1>0, <4>1 DEF AbsentOrder, CreateCall, BcastCall
        <4> QED BY <4>1, <4>2
      <3> QED BY <1>1, <3>1, <3>2
    <2>3. phase'[c] = "failed" /\ \A x \in Calls : x # c => phase'[x] = phase[x]
      BY <1>0, <2>1 DEF TypeOK
    <2> QED BY <1>0, <2>1, <2>2, <2>3, OrderMoves
  <1>2. CASE c \notin absent /\ SameRestarts /\ Known(c)
    <2>0. absent' \subseteq absent \ {c} /\ restarted' = restarted
      BY <1>2 DEF SameRestarts
    <2>1. CASE SyncList(c) \/ SyncListCut(c)
      <3>1. /\ phase[c] = "listing" /\ phase'[c] \in {"ok", "failed"}
            /\ \A x \in Calls : x # c => phase'[x] = phase[x]
            /\ UNCHANGED <<status, creating>>
        BY <1>0, <2>1, ReplyType DEF SyncList, SyncListCut, TypeOK
      <3> QED BY <1>0, <2>0, <3>1, OrderMoves
    <2>2. CASE SyncMerge(c)
      <3>1. /\ phase[c] = "sent" /\ status[To(c)] # "absent" /\ RequireAgreement
            /\ UNCHANGED <<status, creating>>
        BY <2>2 DEF SyncMerge
      <3>2. /\ phase'[c] \in {"decide", "ok", "failed"}
            /\ \A x \in Calls : x # c => phase'[x] = phase[x]
        <4>1. CASE Settles(c)
          BY <1>0, <2>2, <4>1 DEF SyncMerge, TypeOK
        <4>2. CASE ~Settles(c)
          BY <1>0, <2>2, <4>2, ReplyType DEF SyncMerge
        <4> QED BY <4>1, <4>2
      <3>3. ASSUME NEW i \in Others, c = CreateCall(i), i \in Intact PROVE FALSE
        BY <1>0, <3>1, <3>3 DEF RestartOrder
      <3> QED BY <1>0, <2>0, <3>1, <3>2, <3>3, OrderMoves
    <2>3. CASE SyncRefuse(c) \/ DecideFail(c)
      <3>1. /\ phase[c] \in {"sent", "decide"} /\ phase' = [phase EXCEPT ![c] = "failed"]
            /\ UNCHANGED <<status, creating>>
        BY <2>3 DEF SyncRefuse, DecideFail, task
      <3>2. phase'[c] = "failed" /\ \A x \in Calls : x # c => phase'[x] = phase[x]
        BY <1>0, <3>1 DEF TypeOK
      <3> QED BY <1>0, <2>0, <3>1, <3>2, OrderMoves
    <2>4. CASE Decide(c) \/ DecideCut(c)
      <3>1. /\ phase[c] = "decide" /\ creating' = creating /\ SettledAs(c) \in Statuses
            /\ \/ ChangeStatus(To(c), SettledAs(c))
               \/ CutStatus(To(c), SettledAs(c), decisions[To(c)])
        BY <2>4, ValueTypes DEF Decide, DecideCut, Statuses
      <3>2. /\ \A q \in Parts : status'[q] = "absent" <=> status[q] = "absent"
            /\ To(c) = 0 => creating = "done"
        BY <3>1, MovesListed
      <3>3. /\ phase'[c] \in {"bcast", "ok", "failed"}
            /\ \A x \in Calls : x # c => phase'[x] = phase[x]
            /\ phase'[c] = "bcast" => To(c) = 0
        <4>1. CASE Decide(c)
          BY <1>0, <4>1, DecidedOn DEF DecidesOn, Broadcasts
        <4>2. CASE DecideCut(c)
          BY <1>0, <4>2 DEF DecideCut, TypeOK
        <4> QED BY <2>4, <4>1, <4>2
      <3>4. ASSUME NEW i \in Others, c = CreateCall(i) PROVE phase'[c] # "bcast"
        BY <3>3, <3>4
      <3> QED BY <1>0, <2>0, <3>1, <3>2, <3>3, <3>4, OrderMoves
    <2> QED BY <1>2, <2>1, <2>2, <2>3, <2>4 DEF Known
  <1> QED BY <1>1, <1>2

\* The send loops, and users and clocks.
LEMMA OrderSent ==
    ASSUME RestartInv, IntactInv,
           \/ SameRestarts /\ \E p \in Others : Broadcast(p)
           \/ SameRestarts /\ \E p \in Parts : FinishTask(p) \/ FinishCut(p) \/ Expire(p)
           \/ UNCHANGED allVars
    PROVE  RestartOrder'
  <1> USE CallShape, CallKinds
  <1>0. /\ TypeOK /\ RestartOrder /\ InitiatorOrder /\ AbsentOrder
        /\ absent \subseteq Calls
    BY DEF RestartInv, SignedOK, IntactInv, RestartOrder
  <1>1. ASSUME NEW p \in Others, Broadcast(p), SameRestarts PROVE RestartOrder'
    <2>1. /\ UNCHANGED <<status, creating, restarted, absent>>
          /\ phase[ConfirmCall(p)] = "bcast"
      BY <1>1 DEF Broadcast, BcastDone, BcastFail, BcastSend, task, SameRestarts
    <2>2. CASE BcastDone(p) \/ BcastFail(p)
      <3>1. /\ phase'[ConfirmCall(p)] \in {"ok", "failed"}
            /\ \A x \in Calls : x # ConfirmCall(p) => phase'[x] = phase[x]
        BY <1>0, <2>2, ReplyType DEF BcastDone, BcastFail, TypeOK
      <3>2. ConfirmCall(p) \notin absent
        BY <1>0, <2>1 DEF AbsentOrder
      <3> QED BY <1>0, <2>1, <3>1, <3>2, OrderMoves
    <2>3. ASSUME NEW i \in Others, BcastSend(p, i) PROVE RestartOrder'
      <3>1. /\ phase'[BcastCall(p, i)] = "sent"
            /\ \A x \in Calls : x # BcastCall(p, i) => phase'[x] = phase[x]
        BY <1>0, <2>3 DEF BcastSend, TypeOK
      <3>2. creating = "done"
        BY <1>0, <2>1 DEF RestartOrder
      <3>3. InitiatorOrder' /\ AbsentOrder'
        BY <1>0, <2>1, <3>1 DEF InitiatorOrder, AbsentOrder, Intact
      <3>4. \A x \in Calls : phase'[x] = "decide" => RequireAgreement
        BY <1>0, <3>1 DEF RestartOrder
      <3> QED BY <1>0, <2>1, <3>1, <3>2, <3>3, <3>4 DEF RestartOrder, Intact
    <2> QED BY <1>1, <2>2, <2>3 DEF Broadcast
  <1>2. ASSUME NEW p \in Parts, FinishTask(p) \/ FinishCut(p), SameRestarts PROVE RestartOrder'
    <2>1. /\ "finished" \in Statuses
          /\ ChangeStatus(p, "finished") \/ CutStatus(p, "finished", decisions[p])
          /\ UNCHANGED <<phase, creating, restarted, absent>>
      BY <1>2 DEF FinishTask, FinishCut, SameRestarts, Statuses
    <2> QED BY <1>0, <2>1, MovesListed, OrderStays
  <1>3. CASE (SameRestarts /\ \E p \in Parts : Expire(p)) \/ UNCHANGED allVars
    <2>1. UNCHANGED <<status, phase, creating, restarted, absent>>
      BY <1>3 DEF Expire, SameRestarts, allVars, vars, task
    <2> QED BY <1>0, <2>1, OrderStays
  <1> QED BY <1>1, <1>2, <1>3

\* A broadcast finds the task on an intact core.
LEMMA AbsentOnIntact ==
    ASSUME RestartInv, IntactInv, NEW p \in Others, NEW q \in Others, p \in Intact,
           phase[BcastCall(q, p)] # "none"
    PROVE  status[p] # "absent"
  <1>1. phase[CreateCall(p)] = "ok"
    BY DEF IntactInv, RestartOrder
  <1>2. ListsOf(p) /\ (MustBeListed(p) \/ p \in cut)
    BY <1>1, CallKinds DEF IntactInv, MustBeListed
  <1> QED BY <1>2 DEF ListsOf, ListedRight, Statuses

\* A call that finds no task, and what it then stores.
LEMMA OrderStored ==
    ASSUME RestartInv, IntactInv, NEW c \in Calls, FindAbsent(c) \/ StoreNew(c)
    PROVE  RestartOrder'
  <1> USE CallShape, CallKinds
  <1>0. /\ TypeOK /\ RestartOrder /\ InitiatorOrder /\ AbsentOrder
        /\ absent \subseteq Calls
    BY DEF RestartInv, SignedOK, IntactInv, RestartOrder
  <1>1. CASE FindAbsent(c)
    <2>1. /\ phase[c] = "sent" /\ c[1] # "confirm" /\ status[To(c)] = "absent"
          /\ absent' = absent \cup {c}
          /\ UNCHANGED <<status, phase, creating, restarted>>
      BY <1>1 DEF FindAbsent, vars
    <2>2. \A q \in Others : c # ConfirmCall(q)
      BY <2>1 DEF ConfirmCall
    <2>3. ASSUME NEW q \in Others, NEW i \in Others, c = BcastCall(q, i) PROVE i \in restarted
      BY <2>1, <2>3, AbsentOnIntact DEF Intact
    <2>4. AbsentOrder'
      BY <1>0, <2>1, <2>2, <2>3, CallCases DEF AbsentOrder
    <2>5. InitiatorOrder'
      BY <1>0, <2>1 DEF InitiatorOrder, Intact
    <2> QED BY <1>0, <2>1, <2>4, <2>5 DEF RestartOrder, Intact
  <1>2. CASE StoreNew(c)
    <2>1. /\ c \in absent /\ absent' = absent \ {c}
          /\ phase'[c] = "listing" /\ \A x \in Calls : x # c => phase'[x] = phase[x]
          /\ status'[To(c)] = "waiting" /\ \A p \in Parts : p # To(c) => status'[p] = status[p]
          /\ UNCHANGED <<creating, restarted>>
      BY <1>0, <1>2 DEF StoreNew, TypeOK
    <2>2. /\ phase[c] = "sent"
          /\ \E i \in Others : \/ c = CreateCall(i)
                               \/ i \in restarted /\ \E q \in Others : c = BcastCall(q, i)
      BY <1>0, <2>1 DEF AbsentOrder
    <2>3. InitiatorOrder'
      BY <1>0, <2>1, <2>2 DEF InitiatorOrder, Intact
    <2>4. AbsentOrder'
      BY <1>0, <2>1 DEF AbsentOrder
    <2>5. \A x \in Calls : phase'[x] = "decide" => RequireAgreement
      BY <1>0, <2>1 DEF RestartOrder
    <2>6. ASSUME NEW p \in Others, p \in Intact
          PROVE  /\ phase'[CreateCall(p)] \in {"none", "sent", "listing", "ok", "failed"}
                 /\ phase'[CreateCall(p)] \in {"none", "sent"} => status'[p] = "absent"
                 /\ phase'[CreateCall(p)] = "listing" => status'[p] # "absent"
      BY <1>0, <2>1, <2>2, <2>6 DEF RestartOrder, Intact
    <2> QED BY <1>0, <2>1, <2>2, <2>3, <2>4, <2>5, <2>6 DEF RestartOrder, Intact
  <1> QED BY <1>1, <1>2

\* A core restarts, and the calls of a decision are named again.
LEMMA OrderRestarts ==
    ASSUME RestartInv, IntactInv,
           (\E p \in Parts : Restart(p)) \/ (\E p \in Others : Reuse(p))
    PROVE  RestartOrder'
  <1> USE CallShape, CallKinds
  <1>0. /\ TypeOK /\ RestartOrder /\ InitiatorOrder /\ AbsentOrder
        /\ absent \subseteq Calls
    BY DEF RestartInv, SignedOK, IntactInv, RestartOrder
  <1>1. ASSUME NEW p \in Parts, Restart(p) PROVE RestartOrder'
    <2>1. /\ p \in Intact /\ status[p] # "absent" /\ restarted' = restarted \cup {p}
          /\ status'[p] = "absent" /\ \A q \in Parts : q # p => status'[q] = status[q]
          /\ creating' = IF p = 0 /\ creating = "sending" THEN "failed" ELSE creating
          /\ absent' = absent \ Forgotten(p)
          /\ \A c \in Calls : phase'[c] = IF c \in Forgotten(p) THEN "failed" ELSE phase[c]
      BY <1>0, <1>1 DEF Restart, Intact, TypeOK
    <2>2. \A c \in Calls : c \in Forgotten(p) => phase[c] \notin {"none", "ok"} /\ To(c) = p
      BY <1>0 DEF Forgotten, AbsentOrder
    <2>3. InitiatorOrder'
      <3>1. creating \in {"idle", "sending", "done", "failed"}
        BY <1>0 DEF TypeOK
      <3> QED BY <1>0, <2>1, <3>1 DEF InitiatorOrder, Intact
    <2>4. AbsentOrder'
      BY <1>0, <2>1 DEF AbsentOrder
    <2>5. creating' = "idle" => creating = "idle"
      BY <2>1
    <2>6. creating' = "done" <=> creating = "done"
      BY <2>1
    <2> QED BY <1>0, <2>1, <2>2, <2>3, <2>4, <2>5, <2>6 DEF RestartOrder, Intact
  <1>2. ASSUME NEW p \in Others, Reuse(p) PROVE RestartOrder'
    <2>1. /\ \A c \in Confirmations(p) : phase[c] \in {"none", "ok", "failed"}
          /\ \A c \in Calls : phase'[c] = IF c \in Confirmations(p) THEN "none" ELSE phase[c]
          /\ UNCHANGED <<status, creating, restarted, absent>>
      BY <1>2 DEF Reuse, SameRestarts, task
    <2>2. \A i \in Others : CreateCall(i) \notin Confirmations(p)
      BY DEF Confirmations
    <2>3. InitiatorOrder' /\ AbsentOrder'
      BY <1>0, <2>1 DEF InitiatorOrder, AbsentOrder, Intact
    <2>4. \A c \in Calls : phase'[c] \in {"none", phase[c]}
      BY <2>1
    <2>5. \A i \in Others : phase'[CreateCall(i)] = phase[CreateCall(i)]
      BY <2>1, <2>2
    <2> QED BY <1>0, <2>1, <2>3, <2>4, <2>5 DEF RestartOrder, Intact
  <1> QED BY <1>1, <1>2

\* No step breaks the order of the calls to the intact cores.
LEMMA RestartOrderStep ==
    ASSUME RestartInv, IntactInv, [RestartNext]_allVars
    PROVE  RestartOrder'
  <1>1. CASE \/ Created
             \/ SameRestarts /\ (CreateFail \/ CreateList \/ CreateListCut \/ \E i \in Others : CreateSend(i))
    BY <1>1, OrderOpens
  <1>2. ASSUME NEW c \in Calls,
               \/ Nameless(c) \/ FindAbsent(c) \/ StoreNew(c) \/ Lost(c)
               \/ c \notin absent /\ SameRestarts /\ Known(c)
        PROVE  RestartOrder'
    BY <1>2, OrderHandled, OrderStored
  <1>3. ASSUME NEW p \in Others,
               \/ SameRestarts /\ Broadcast(p)
               \/ Reuse(p)
               \/ \E d \in Signable : Decided(p, d) \/ DecidedCut(p, d)
        PROVE  RestartOrder'
    BY <1>3, OrderSent, OrderRestarts, OrderOpens
  <1>4. ASSUME NEW p \in Parts,
               \/ SameRestarts /\ (FinishTask(p) \/ FinishCut(p) \/ Expire(p))
               \/ Restart(p)
        PROVE  RestartOrder'
    BY <1>4, OrderSent, OrderRestarts
  <1>5. CASE UNCHANGED allVars
    BY <1>5, OrderSent
  <1> QED BY <1>1, <1>2, <1>3, <1>4, <1>5 DEF RestartNext

IntactListed == \A p \in Intact : ListsOf(p)

\* Steps that leave the lists of the intact cores, and the statuses there, alone
\* and neither answer nor take back the call that lists the task.
LEMMA IntactFrame ==
    ASSUME IntactInv, restarted \subseteq restarted',
           \A p \in Intact' : /\ status'[p] = status[p] /\ listed'[p] = listed[p]
                              /\ p \in cut' <=> p \in cut,
           creating' = creating \/ (creating # "done" /\ creating' = "failed"),
           \A p \in Intact' : p # 0 =>
               \/ phase'[CreateCall(p)] = phase[CreateCall(p)]
               \/ phase[CreateCall(p)] # "ok" /\ phase'[CreateCall(p)] = "failed"
               \/ phase[CreateCall(p)] = "none" /\ phase'[CreateCall(p)] = "sent"
    PROVE  IntactListed'
  <1> SUFFICES ASSUME NEW p \in Intact' PROVE ListsOf(p)'
    BY DEF IntactListed
  <1>1. p \in Intact /\ p \in Parts /\ ListsOf(p) /\ (p \in cut' <=> p \in cut)
    BY DEF Intact, IntactInv
  <1>2. /\ MayBeListed(p) => MayBeListed(p)'
        /\ MustBeListed(p)' => MustBeListed(p)
        /\ Past(p) => Past(p)'
    BY <1>1 DEF MayBeListed, MustBeListed, Past
  <1> QED BY <1>1, <1>2, ListsFrame

\* What gives the task another status moves it in the lists, or leaves it out.
LEMMA IntactMoved ==
    ASSUME RestartInv, IntactInv, NEW p \in Parts, NEW s \in Statuses, NEW d,
           (ChangeStatus(p, s) /\ UNCHANGED cut) \/ CutStatus(p, s, d),
           creating' = creating, restarted' = restarted,
           \A i \in Others : i \in Intact => phase'[CreateCall(i)] = phase[CreateCall(i)]
    PROVE  IntactListed'
  <1>1. TypeOK /\ Intact \in SUBSET Parts /\ \A q \in Intact : ListsOf(q)
    BY DEF RestartInv, IntactInv, Intact
  <1>2. (\A q \in Intact : q # 0 => q \in Others) /\ cut \subseteq cut'
    BY DEF Intact, Parts, Others, CutStatus
  <1>3. \A q \in Intact : SameListing(q)
    BY <1>2 DEF SameListing, MayBeListed, MustBeListed, Past
  <1>4. \A q \in Intact : ListsOf(q)'
    BY <1>1, <1>3, ListsChanged
  <1> QED BY <1>4 DEF IntactListed, Intact

\* _create_task stores the task and, in the end, lists it.
LEMMA IntactCreated ==
    ASSUME RestartInv, IntactInv,
           \/ Created
           \/ SameRestarts /\ (CreateFail \/ CreateList \/ CreateListCut \/ \E i \in Others : CreateSend(i))
    PROVE  IntactListed'
  <1> USE CallShape, CallKinds
  <1>0. TypeOK /\ InitiatorOrder
    BY DEF RestartInv, IntactInv, RestartOrder
  <1>1. CASE Created
    <2>1. /\ creating = "idle" /\ creating' = "sending"
          /\ status'[0] = FirstStatus /\ \A p \in Parts : p # 0 => status'[p] = status[p]
          /\ UNCHANGED <<listed, phase, restarted, cut>>
      BY <1>0, <1>1 DEF Created, CreateTask, TypeOK
    <2>2. ASSUME NEW p \in Intact PROVE ListsOf(p)'
      <3>1. p \in Parts /\ ListsOf(p)
        BY DEF Intact, IntactInv
      <3>2. CASE p = 0
        <4>1. listed[p] = NoEntries /\ p \notin cut
          BY <2>1, <3>1, <3>2 DEF ListsOf, ListedRight, MayBeListed, Past
        <4> QED BY <2>1, <3>2, <4>1 DEF ListsOf, ListedRight, MayBeListed, MustBeListed, Past
      <3>3. CASE p # 0
        BY <2>1, <3>1, <3>3, ListsFrame DEF MayBeListed, MustBeListed, Past
      <3> QED BY <3>2, <3>3
    <2> QED BY <2>1, <2>2 DEF IntactListed, Intact
  <1>2. CASE SameRestarts /\ CreateFail
    <2>1. /\ creating = "sending" /\ creating' = "failed"
          /\ UNCHANGED <<status, listed, cut, phase, restarted>>
      BY <1>2 DEF CreateFail, SameRestarts, task
    <2> QED BY <2>1, IntactFrame
  <1>3. ASSUME NEW i \in Others, CreateSend(i), SameRestarts PROVE IntactListed'
    <2>1. /\ phase[CreateCall(i)] = "none" /\ phase'[CreateCall(i)] = "sent"
          /\ \A x \in Calls : x # CreateCall(i) => phase'[x] = phase[x]
          /\ UNCHANGED <<status, listed, creating, restarted, cut>>
      BY <1>0, <1>3 DEF CreateSend, SameRestarts, task, TypeOK
    <2>2. \A p \in Intact' : p # 0 => p \in Others
      BY DEF Intact, Parts, Others
    <2>3. \A p \in Intact' : p # 0 =>
               \/ phase'[CreateCall(p)] = phase[CreateCall(p)]
               \/ phase[CreateCall(p)] = "none" /\ phase'[CreateCall(p)] = "sent"
      BY <2>1, <2>2
    <2> QED BY <2>1, <2>3, IntactFrame
  <1>4. ASSUME creating = "sending"
        PROVE  /\ 0 \in Intact /\ listed[0] = NoEntries /\ 0 \notin cut
               /\ status[0] = FirstStatus /\ status[0] # "absent" /\ FirstStatus \in Statuses
    <2>1. 0 \in Intact
      BY <1>0, <1>4 DEF InitiatorOrder, Intact
    <2>2. ListsOf(0)
      BY <2>1 DEF IntactInv
    <2> QED BY <1>0, <1>4, <2>1, <2>2, ValueTypes
            DEF ListsOf, ListedRight, MayBeListed, Past, InitiatorOrder, Statuses
  <1>5. CASE SameRestarts /\ CreateList
    <2>1. /\ creating = "sending" /\ creating' = "done" /\ Add(0, FirstStatus)
          /\ UNCHANGED <<status, phase, restarted, cut>>
      BY <1>5 DEF CreateList, SameRestarts
    <2>2. /\ listed'[0] = Only(FirstStatus)
          /\ \A q \in Parts : q # 0 => listed'[q] = listed[q]
      BY <1>0, <1>4, <2>1, ListAdded
    <2>3. ListsOf(0)'
      BY <1>4, <2>1, <2>2, OnlyEntries DEF ListsOf, ListedRight, MayBeListed, Past
    <2>4. ASSUME NEW p \in Intact, p # 0 PROVE ListsOf(p)'
      <3>1. p \in Parts /\ ListsOf(p)
        BY DEF Intact, IntactInv
      <3> QED BY <2>1, <2>2, <2>4, <3>1, ListsFrame DEF MayBeListed, MustBeListed, Past
    <2> QED BY <2>1, <2>3, <2>4 DEF IntactListed, Intact
  <1>6. CASE SameRestarts /\ CreateListCut
    <2>1. /\ creating = "sending" /\ creating' = "failed" /\ CutAdd(0, FirstStatus)
          /\ UNCHANGED <<status, phase, restarted>>
      BY <1>6 DEF CreateListCut, SameRestarts
    <2>2. \A q \in Intact : q # 0 => SameListing(q)
      BY <2>1 DEF SameListing, MayBeListed, MustBeListed, Past, CutAdd
    <2>3. Intact \in SUBSET Parts /\ (\A q \in Intact : ListsOf(q)) /\ Past(0)'
      BY <2>1 DEF Intact, IntactInv, Past
    <2>4. \A q \in Intact : ListsOf(q)'
      BY <1>0, <1>4, <2>1, <2>2, <2>3, ListLeft
    <2> QED BY <2>1, <2>4 DEF IntactListed, Intact
  <1> QED BY <1>1, <1>2, <1>3, <1>5, <1>6

\* A handler that has found no task stores one, and lists it.
LEMMA IntactStored ==
    ASSUME RestartInv, IntactInv, NEW c \in Calls,
           StoreNew(c) \/ ((SyncList(c) \/ SyncListCut(c)) /\ SameRestarts)
    PROVE  IntactListed'
  <1> USE CallShape, CallKinds
  <1>0. TypeOK /\ RestartOrder /\ AbsentOrder
    BY DEF RestartInv, IntactInv, RestartOrder
  <1>1. CASE StoreNew(c)
    <2>1. /\ c \in absent
          /\ phase'[c] = "listing" /\ \A x \in Calls : x # c => phase'[x] = phase[x]
          /\ status'[To(c)] = "waiting" /\ \A p \in Parts : p # To(c) => status'[p] = status[p]
          /\ UNCHANGED <<listed, creating, restarted, cut>>
      BY <1>0, <1>1 DEF StoreNew, TypeOK
    <2>2. /\ phase[c] = "sent"
          /\ \E i \in Others : \/ c = CreateCall(i)
                               \/ i \in restarted /\ \E q \in Others : c = BcastCall(q, i)
      BY <1>0, <2>1 DEF AbsentOrder
    <2>3. ASSUME NEW p \in Intact PROVE ListsOf(p)'
      <3>1. p \in Parts /\ ListsOf(p) /\ p \notin restarted
        BY DEF Intact, IntactInv
      <3>2. p # 0 => p \in Others
        BY <3>1 DEF Parts, Others
      <3>3. CASE p = To(c)
        <4>1. p \in Others /\ c = CreateCall(p)
          BY <2>2, <3>1, <3>3
        <4>2. listed[p] = NoEntries /\ p \notin cut
          BY <2>2, <3>1, <4>1 DEF ListsOf, ListedRight, MayBeListed, Past
        <4> QED BY <2>1, <4>1, <4>2 DEF ListsOf, ListedRight, MustBeListed
      <3>4. CASE p # To(c)
        <4>1. p # 0 => phase'[CreateCall(p)] = phase[CreateCall(p)]
          BY <2>1, <3>2, <3>4
        <4> QED BY <2>1, <3>1, <3>4, <4>1, ListsFrame DEF MayBeListed, MustBeListed, Past
      <3> QED BY <3>3, <3>4
    <2> QED BY <2>1, <2>3 DEF IntactListed, Intact
  <1>2. ASSUME NEW p \in Intact, p = To(c), phase[c] = "listing"
        PROVE  /\ p \in Others /\ c = CreateCall(p) /\ listed[p] = NoEntries /\ p \notin cut
               /\ status[p] = "waiting"
    <2>1. p \in Parts /\ ListsOf(p)
      BY DEF Intact, IntactInv
    <2>2. p \in Others /\ c = CreateCall(p)
      <3>1. p # 0 => p \in Others
        BY <2>1 DEF Parts, Others
      <3> QED BY <1>0, <1>2, <3>1, CallCases DEF RestartOrder
    <2>3. status[p] # "absent"
      BY <1>0, <1>2, <2>2 DEF RestartOrder
    <2> QED BY <1>2, <2>1, <2>2, <2>3 DEF ListsOf, ListedRight, MayBeListed, Past
  <1>3. CASE SyncList(c) /\ SameRestarts
    <2>1. /\ phase[c] = "listing" /\ UNCHANGED <<status, creating, restarted, cut>>
          /\ phase'[c] \in {"ok", "failed"} /\ Add(To(c), "waiting")
          /\ \A x \in Calls : x # c => phase'[x] = phase[x]
      BY <1>0, <1>3, ReplyType DEF SyncList, SameRestarts
    <2>2. "waiting" \in Statuses /\ \A q \in Parts : q # To(c) => listed'[q] = listed[q]
      BY <1>0, <2>1 DEF Add, TypeOK, Statuses
    <2>3. ASSUME NEW p \in Intact PROVE ListsOf(p)'
      <3>1. p \in Parts /\ ListsOf(p)
        BY DEF Intact, IntactInv
      <3>2. p # 0 => p \in Others
        BY <3>1 DEF Parts, Others
      <3>3. CASE p = To(c)
        <4>1. listed'[p] = Only("waiting")
          BY <1>0, <1>2, <2>1, <2>2, <3>1, <3>3, ListAdded
        <4> QED BY <1>2, <2>1, <2>2, <3>3, <4>1, OnlyEntries DEF ListsOf, ListedRight, MayBeListed, Past
      <3>4. CASE p # To(c)
        <4>1. p # 0 => phase'[CreateCall(p)] = phase[CreateCall(p)]
          BY <2>1, <3>2, <3>4
        <4> QED BY <2>1, <2>2, <3>1, <3>4, <4>1, ListsFrame DEF MayBeListed, MustBeListed, Past
      <3> QED BY <3>3, <3>4
    <2> QED BY <2>1, <2>3 DEF IntactListed, Intact
  <1>4. CASE SyncListCut(c) /\ SameRestarts
    <2>1. /\ phase[c] = "listing" /\ UNCHANGED <<status, creating, restarted>>
          /\ phase'[c] = "failed" /\ CutAdd(To(c), "waiting") /\ "waiting" \in Statuses
          /\ \A x \in Calls : x # c => phase'[x] = phase[x]
      BY <1>0, <1>4 DEF SyncListCut, SameRestarts, TypeOK, Statuses
    <2>2. To(c) \in Intact =>
            status[To(c)] # "absent" /\ listed[To(c)] = NoEntries /\ Past(To(c))'
      BY <1>2, <2>1 DEF Past
    <2>3. ASSUME NEW q \in Intact, q # To(c) PROVE SameListing(q)
      <3>1. q # 0 => q \in Others
        BY DEF Intact, Parts, Others
      <3>2. q # 0 => phase'[CreateCall(q)] = phase[CreateCall(q)]
        BY <2>1, <2>3, <3>1
      <3> QED BY <2>1, <3>2 DEF SameListing, MayBeListed, MustBeListed, Past, CutAdd
    <2>4. Intact \in SUBSET Parts /\ \A q \in Intact : ListsOf(q)
      BY DEF Intact, IntactInv
    <2>5. \A q \in Intact : ListsOf(q)'
      BY <1>0, <2>1, <2>2, <2>3, <2>4, ListLeft
    <2> QED BY <2>1, <2>5 DEF IntactListed, Intact
  <1> QED BY <1>1, <1>3, <1>4

\* The handlers that find the task, and the calls that are lost or refused.
LEMMA IntactHandled ==
    ASSUME RestartInv, IntactInv, NEW c \in Calls,
           \/ Nameless(c) \/ FindAbsent(c) \/ Lost(c)
           \/ /\ SameRestarts
              /\ SyncMerge(c) \/ SyncRefuse(c) \/ Decide(c) \/ DecideFail(c) \/ DecideCut(c)
    PROVE  IntactListed'
  <1> USE CallShape, CallKinds
  <1>0. TypeOK /\ RestartOrder
    BY DEF RestartInv, IntactInv, RestartOrder
  <1>1. \A p \in Intact' : p # 0 => p \in Others
    BY DEF Intact, Parts, Others
  <1>2. CASE \/ Nameless(c) \/ Lost(c)
             \/ SameRestarts /\ (SyncRefuse(c) \/ DecideFail(c))
    <2>1. /\ phase[c] # "ok" /\ phase' = [phase EXCEPT ![c] = "failed"]
          /\ UNCHANGED <<status, listed, creating, restarted, cut>>
      BY <1>2 DEF Nameless, Lost, Lose, SyncRefuse, DecideFail, SameRestarts, task
    <2>2. \A p \in Intact' : p # 0 =>
               \/ phase'[CreateCall(p)] = phase[CreateCall(p)]
               \/ phase[CreateCall(p)] # "ok" /\ phase'[CreateCall(p)] = "failed"
      BY <1>0, <1>1, <2>1 DEF TypeOK
    <2> QED BY <2>1, <2>2, IntactFrame
  <1>3. CASE FindAbsent(c)
    BY <1>3, IntactFrame DEF FindAbsent, vars
  <1>4. CASE SameRestarts /\ SyncMerge(c)
    <2>1. /\ phase[c] = "sent" /\ status[To(c)] # "absent"
          /\ UNCHANGED <<status, listed, creating, restarted, cut>>
      BY <1>4 DEF SyncMerge, SameRestarts
    <2>2. \A x \in Calls : x # c => phase'[x] = phase[x]
      <3>1. CASE Settles(c)
        BY <1>0, <1>4, <3>1 DEF SyncMerge, TypeOK
      <3>2. CASE ~Settles(c)
        BY <1>0, <1>4, <3>2, ReplyType DEF SyncMerge
      <3> QED BY <3>1, <3>2
    <2>3. \A p \in Intact' : p # 0 => c # CreateCall(p)
      BY <1>0, <1>1, <2>1 DEF RestartOrder, Intact
    <2> QED BY <1>1, <2>1, <2>2, <2>3, IntactFrame
  <1>5. CASE SameRestarts /\ (Decide(c) \/ DecideCut(c))
    <2>1. /\ phase[c] = "decide" /\ UNCHANGED <<creating, restarted>> /\ SettledAs(c) \in Statuses
          /\ \/ ChangeStatus(To(c), SettledAs(c)) /\ UNCHANGED cut
             \/ CutStatus(To(c), SettledAs(c), decisions[To(c)])
      BY <1>5, ValueTypes DEF Decide, DecideCut, Statuses, SameRestarts
    <2>2. \A x \in Calls : x # c => phase'[x] = phase[x]
      <3>1. CASE Decide(c)
        BY <1>0, <3>1, DecidedOn DEF DecidesOn
      <3>2. CASE DecideCut(c)
        BY <1>0, <3>2 DEF DecideCut, TypeOK
      <3> QED BY <1>5, <3>1, <3>2
    <2>3. \A i \in Others : i \in Intact => c # CreateCall(i)
      BY <1>0, <2>1 DEF RestartOrder
    <2>4. \A i \in Others : i \in Intact => phase'[CreateCall(i)] = phase[CreateCall(i)]
      BY <2>2, <2>3
    <2> QED BY <2>1, <2>4, IntactMoved
  <1> QED BY <1>2, <1>3, <1>4, <1>5

\* Users, clocks, the broadcast, and restarts of other cores.
LEMMA IntactOthers ==
    ASSUME RestartInv, IntactInv,
           \/ \E p \in Others : (SameRestarts /\ Broadcast(p)) \/ Reuse(p)
           \/ \E p \in Others, d \in Signable : Decided(p, d) \/ DecidedCut(p, d)
           \/ \E p \in Parts : \/ SameRestarts /\ (FinishTask(p) \/ FinishCut(p) \/ Expire(p))
                               \/ Restart(p)
           \/ UNCHANGED allVars
    PROVE  IntactListed'
  <1> USE CallShape, CallKinds
  <1>0. TypeOK /\ RestartOrder
    BY DEF RestartInv, IntactInv, RestartOrder
  <1>1. \A p \in Intact' : p # 0 => p \in Others
    BY DEF Intact, Parts, Others
  <1>2. ASSUME NEW p \in Others, SameRestarts, Broadcast(p) PROVE IntactListed'
    <2>1. UNCHANGED <<status, listed, creating, restarted, cut>>
      BY <1>2 DEF Broadcast, BcastDone, BcastFail, BcastSend, SameRestarts, task
    <2>2. \A i \in Others : phase'[CreateCall(i)] = phase[CreateCall(i)]
      <3>1. CASE BcastDone(p) \/ BcastFail(p)
        BY <1>0, <3>1, ReplyType DEF BcastDone, BcastFail, TypeOK
      <3>2. CASE \E i \in Others : BcastSend(p, i)
        BY <1>0, <3>2 DEF BcastSend, TypeOK
      <3> QED BY <1>2, <3>1, <3>2 DEF Broadcast
    <2> QED BY <1>1, <2>1, <2>2, IntactFrame
  <1>3. ASSUME NEW p \in Others, Reuse(p) PROVE IntactListed'
    <2>1. /\ UNCHANGED <<status, listed, creating, restarted, cut>>
          /\ phase' = [c \in Calls |-> IF c \in Confirmations(p) THEN "none" ELSE phase[c]]
      BY <1>3 DEF Reuse, SameRestarts, task
    <2>2. \A i \in Others : phase'[CreateCall(i)] = phase[CreateCall(i)]
      BY <2>1 DEF Confirmations
    <2> QED BY <1>1, <2>1, <2>2, IntactFrame
  <1>4. ASSUME NEW p \in Others, NEW d \in Signable, Decided(p, d) \/ DecidedCut(p, d)
        PROVE  IntactListed'
    <2>1. PICK s \in Statuses : \/ ChangeStatus(p, s) /\ UNCHANGED cut
                                \/ CutStatus(p, s, Mine(p, d))
      BY <1>0, <1>4, ValueTypes DEF Decided, ConfirmTask, DecidedCut, ConfirmCut, Statuses
    <2>2. /\ \A i \in Others : phase'[CreateCall(i)] = phase[CreateCall(i)]
          /\ UNCHANGED <<creating, restarted>>
      BY <1>0, <1>4 DEF Decided, ConfirmTask, DecidedCut, ConfirmCut, TypeOK
    <2> QED BY <2>1, <2>2, IntactMoved
  <1>5. ASSUME NEW p \in Parts, SameRestarts, FinishTask(p) \/ FinishCut(p) PROVE IntactListed'
    <2>1. /\ "finished" \in Statuses
          /\ \/ ChangeStatus(p, "finished") /\ UNCHANGED cut
             \/ CutStatus(p, "finished", decisions[p])
          /\ UNCHANGED <<phase, creating, restarted>>
      BY <1>5 DEF FinishTask, FinishCut, SameRestarts, Statuses
    <2> QED BY <2>1, IntactMoved
  <1>6. CASE (SameRestarts /\ \E p \in Parts : Expire(p)) \/ UNCHANGED allVars
    BY <1>6, IntactFrame DEF Expire, SameRestarts, allVars, vars, task
  <1>7. ASSUME NEW p \in Parts, Restart(p) PROVE IntactListed'
    <2>1. /\ restarted' = restarted \cup {p}
          /\ \A q \in Parts : q # p => status'[q] = status[q] /\ listed'[q] = listed[q]
          /\ creating' = IF p = 0 /\ creating = "sending" THEN "failed" ELSE creating
          /\ cut' = cut \ {p}
          /\ \A c \in Calls : phase'[c] = IF c \in Forgotten(p) THEN "failed" ELSE phase[c]
      BY <1>0, <1>7 DEF Restart, TypeOK
    <2>2. \A q \in Intact' : q \in Parts /\ q # p
      BY <2>1 DEF Intact
    <2>3. \A q \in Intact' : q # 0 => phase'[CreateCall(q)] = phase[CreateCall(q)]
      BY <1>1, <2>1, <2>2 DEF Forgotten
    <2> QED BY <2>1, <2>2, <2>3, IntactFrame
  <1> QED BY <1>2, <1>3, <1>4, <1>5, <1>6, <1>7

\* No step breaks the order of the calls, or the lists of an intact core.
LEMMA IntactStep == RestartInv /\ IntactInv /\ [RestartNext]_allVars => IntactInv'
  <1> SUFFICES ASSUME RestartInv, IntactInv, [RestartNext]_allVars PROVE IntactInv'
    OBVIOUS
  <1>1. RestartOrder'
    BY RestartOrderStep
  <1>2. IntactListed'
    <2>1. CASE \/ Created
               \/ SameRestarts /\ (CreateFail \/ CreateList \/ CreateListCut \/ \E i \in Others : CreateSend(i))
      BY <2>1, IntactCreated
    <2>2. ASSUME NEW c \in Calls,
                 \/ Nameless(c) \/ FindAbsent(c) \/ StoreNew(c) \/ Lost(c)
                 \/ c \notin absent /\ SameRestarts /\ Known(c)
          PROVE  IntactListed'
      BY <2>2, IntactHandled, IntactStored DEF Known
    <2>3. ASSUME NEW p \in Others,
                 \/ SameRestarts /\ Broadcast(p)
                 \/ Reuse(p)
                 \/ \E d \in Signable : Decided(p, d) \/ DecidedCut(p, d)
          PROVE  IntactListed'
      BY <2>3, IntactOthers
    <2>4. ASSUME NEW p \in Parts,
                 \/ SameRestarts /\ (FinishTask(p) \/ FinishCut(p) \/ Expire(p))
                 \/ Restart(p)
          PROVE  IntactListed'
      BY <2>4, IntactOthers
    <2>5. CASE UNCHANGED allVars
      BY <2>5, IntactOthers
    <2> QED BY <2>1, <2>2, <2>3, <2>4, <2>5 DEF RestartNext
  <1> QED BY <1>1, <1>2 DEF IntactInv, IntactListed

\* At first nothing is created, and every core is intact.
LEMMA IntactInitial == RestartInit => IntactInv
  <1> SUFFICES ASSUME RestartInit PROVE IntactInv
    OBVIOUS
  <1>1. RestartOrder
    BY CallShape, CallKinds
    DEF RestartInit, Init, RestartOrder, InitiatorOrder, AbsentOrder
  <1>2. \A p \in Intact : ListsOf(p)
    BY CallShape, CallKinds
    DEF RestartInit, Init, ListsOf, ListedRight, MustBeListed, Intact, Parts, Others
  <1> QED BY <1>1, <1>2 DEF IntactInv

\* While other cores restart, the calls about a task reach a core that has not
\* in the order of creation, confirmation and broadcast; its lists follow.
THEOREM IntactInvariant == RestartSpec => [](RestartInv /\ IntactInv)
  <1>1. RestartInv /\ RestartInv' /\ IntactInv /\ [RestartNext]_allVars => IntactInv'
    BY IntactStep
  <1> QED BY <1>1, IntactInitial, RestartInvariant, PTL DEF RestartSpec

\* No restart elsewhere, and no call about a task that has been forgotten
\* there, leaves an intact core's lists at odds with the status of the task.
THEOREM IntactListsCorrect == RestartSpec => []IntactLists
  <1>1. IntactInv => IntactLists
    BY DEF IntactInv, IntactLists, ListsOf, Intact
  <1> QED BY <1>1, IntactInvariant, PTL

\* A set of two.
LEMMA PairSize ==
    ASSUME NEW a, NEW b, a # b
    PROVE  IsFiniteSet({a, b}) /\ Cardinality({a, b}) = 2
  <1>1. {a, b} = {a} \cup {b} /\ b \notin {a}
    OBVIOUS
  <1>2. IsFiniteSet({a}) /\ Cardinality({a}) = 1
    BY FS_Singleton
  <1>3. IsFiniteSet({a} \cup {b}) /\ Cardinality({a} \cup {b}) = Cardinality({a}) + 1
    BY <1>1, <1>2, FS_AddElement
  <1>4. Cardinality({a} \cup {b}) = 2
    BY <1>2, <1>3
  <1> QED BY <1>1, <1>3, <1>4, Zenon

\* Whoever has signed at most one decision has not signed both of two; and what
\* counts was signed, when the create request carried no decisions.
LEMMA OneDecision ==
    ASSUME SignedOK, Plain, Consistent
    PROVE  ~(AllSigned(signed) /\ SomeRefused(signed))
  <1>0. \A q \in Parts : filled[q] = "none"
    BY DEF Plain, NoDecisions
  <1> SUFFICES ASSUME NEW q \in Parts, "approve" \in signed[q], "reject" \in signed[q] PROVE FALSE
    BY <1>0 DEF AllSigned, SomeRefused
  <1>1. IsFiniteSet(signed[q])
    <2>1. Signable = {"approve", "reject"} \cup {"ignore"}
      BY DEF Signable
    <2>2. IsFiniteSet({"approve", "reject"})
      BY PairSize
    <2>3. IsFiniteSet(Signable)
      BY <2>1, <2>2, FS_AddElement
    <2>4. signed[q] \subseteq Signable
      BY DEF SignedOK
    <2> QED BY <2>3, <2>4, FS_Subset
  <1>2. Cardinality({"approve", "reject"}) = 2 /\ IsFiniteSet({"approve", "reject"})
    BY PairSize
  <1>3. Cardinality({"approve", "reject"}) <= Cardinality(signed[q])
    BY <1>1, FS_Subset
  <1>4. Cardinality(signed[q]) <= 1 /\ Cardinality(signed[q]) \in Nat
    BY <1>1, FS_CardinalityType DEF Consistent
  <1> QED BY <1>2, <1>3, <1>4

\* A step on an intact core that holds an outcome: the task is finished there,
\* or a second section applies what it found before.
LEMMA OutcomeStep ==
    ASSUME RestartInv, IntactInv, [RestartNext]_allVars, Plain, Consistent',
           NEW p \in Parts \ restarted', Outcome(status[p]) # "open"
    PROVE  Outcome(status'[p]) = Outcome(status[p])
  <1> USE CallShape, CallKinds
  <1>0. /\ TypeOK /\ RestartOrder /\ InitiatorOrder /\ AbsentOrder /\ SignedOK
        /\ VerdictSigned /\ ApprovedByAll
    BY DEF RestartInv, IntactInv, RestartOrder
  <1>1. /\ status[p] \in {"started", "finished", "rejected"}
        /\ Outcome(status[p]) = IF status[p] = "rejected" THEN "rejected" ELSE "started"
    BY DEF Outcome
  <1>2. CASE status'[p] = status[p]
    BY <1>2
  <1>3. CASE Created
    <2>1. /\ creating = "idle" /\ status' = [status EXCEPT ![0] = FirstStatus]
      BY <1>3 DEF Created, CreateTask
    <2> QED BY <1>0, <1>1, <1>2, <2>1 DEF InitiatorOrder, TypeOK
  <1>4. ASSUME NEW c \in Calls, StoreNew(c) PROVE Outcome(status'[p]) = Outcome(status[p])
    <2>1. /\ c \in absent /\ restarted' = restarted
          /\ status' = [status EXCEPT ![To(c)] = "waiting"]
      BY <1>4 DEF StoreNew
    <2>2. CASE p = To(c)
      <3>1. p \in Others /\ c = CreateCall(p) /\ phase[c] = "sent"
        BY <1>0, <2>1, <2>2 DEF AbsentOrder
      <3>2. status[p] = "absent"
        BY <1>0, <2>1, <3>1 DEF RestartOrder, Intact
      <3> QED BY <1>1, <3>2
    <2> QED BY <1>0, <1>2, <2>1, <2>2 DEF TypeOK
  <1>5. ASSUME NEW c \in Calls, Decide(c) \/ DecideCut(c), SameRestarts
        PROVE  Outcome(status'[p]) = Outcome(status[p])
    <2>0. CASE Quiet
      BY <1>2, <2>0 DEF Quiet
    <2>1. ASSUME DecidesOn(c), p = To(c) PROVE Outcome(status'[p]) = Outcome(status[p])
      <3>0. /\ phase[c] = "decide" /\ signed' = signed
            /\ status' = [status EXCEPT ![To(c)] = SettledAs(c)]
        BY <1>5, <2>1 DEF DecidesOn, SameRestarts
      <3>1. RequireAgreement
        BY <1>0, <3>0 DEF RestartOrder
      <3>2. ~(AllSigned(signed) /\ SomeRefused(signed))
        BY <1>0, <3>0, OneDecision DEF Consistent
      <3>3. IF verdict[c] THEN SomeRefused(signed) ELSE AllSigned(signed)
        BY <1>0, <3>0, <3>1 DEF VerdictSigned
      <3>4. IF status[p] = "rejected" THEN SomeRefused(signed) ELSE AllSigned(signed)
        BY <1>0, <1>1, <3>1 DEF ApprovedByAll, AllSigned, SomeRefused
      <3>5. verdict[c] <=> status[p] = "rejected"
        BY <3>2, <3>3, <3>4
      <3>6. status'[p] = IF verdict[c] THEN "rejected" ELSE "started"
        BY <1>0, <2>1, <3>0 DEF TypeOK, SettledAs
      <3> QED BY <1>1, <3>5, <3>6 DEF Outcome
    <2>2. CASE DecidesOn(c) /\ p # To(c)
      BY <1>0, <1>2, <2>2 DEF DecidesOn, TypeOK
    <2> QED BY <1>0, <1>5, <2>0, <2>1, <2>2, DecideKind
  <1>6. ASSUME NEW q \in Others, NEW d \in Signable, Decided(q, d) \/ DecidedCut(q, d)
        PROVE  Outcome(status'[p]) = Outcome(status[p])
    <2>1. CASE Quiet
      BY <1>2, <2>1 DEF Quiet
    <2>2. CASE Confirms(q, d)
      BY <1>0, <1>1, <1>2, <2>2 DEF Confirms, TypeOK
    <2> QED BY <1>0, <1>6, <2>1, <2>2, ConfirmKind DEF Decided, DecidedCut
  <1>7. ASSUME NEW q \in Parts, FinishTask(q) \/ FinishCut(q)
        PROVE  Outcome(status'[p]) = Outcome(status[p])
    <2>1. CASE Quiet
      BY <1>2, <2>1 DEF Quiet
    <2>2. CASE Finishes(q)
      <3>1. CASE p = q
        BY <1>0, <2>2, <3>1 DEF Finishes, TypeOK, Outcome
      <3> QED BY <1>0, <1>2, <2>2, <3>1 DEF Finishes, TypeOK
    <2> QED BY <1>0, <1>7, <2>1, <2>2, FinishKind
  <1>8. ASSUME NEW q \in Parts, Restart(q) PROVE Outcome(status'[p]) = Outcome(status[p])
    <2>1. restarted' = restarted \cup {q} /\ status' = [status EXCEPT ![q] = "absent"]
      BY <1>8 DEF Restart
    <2> QED BY <1>0, <1>2, <2>1 DEF TypeOK
  <1>9. CASE \/ CreateFail \/ CreateList \/ CreateListCut
             \/ \E i \in Others : CreateSend(i)
             \/ \E c \in Calls : \/ Nameless(c) \/ FindAbsent(c) \/ Lost(c) \/ SyncListCut(c)
                                 \/ SyncList(c) \/ SyncMerge(c) \/ SyncRefuse(c) \/ DecideFail(c)
             \/ \E q \in Others : Broadcast(q) \/ Reuse(q)
             \/ \E q \in Parts : Expire(q)
             \/ UNCHANGED allVars
    BY <1>2, <1>9
    DEF CreateFail, CreateList, CreateListCut, CreateSend, Nameless, FindAbsent, Lost, Lose, SyncList,
        SyncListCut, SyncMerge, SyncRefuse, DecideFail, Broadcast, BcastDone, BcastFail, BcastSend,
        Reuse, Expire, task, vars, allVars
  <1> QED BY <1>3, <1>4, <1>5, <1>6, <1>7, <1>8, <1>9 DEF RestartNext, Known

\* As long as nobody decides otherwise when asked again, and the create request
\* carried no decisions, no core that keeps what it stored goes over from one
\* outcome to the other.
THEOREM IntactOutcomeCorrect == RestartSpec => IntactOutcome
  <1>1. RestartInv /\ IntactInv /\ [RestartNext]_allVars =>
          [Plain /\ Consistent' =>
             \A p \in Parts \ restarted' :
               Outcome(status[p]) # "open" => Outcome(status'[p]) = Outcome(status[p])]_allVars
    BY OutcomeStep
  <1> QED BY <1>1, IntactInvariant, PTL DEF RestartSpec, IntactOutcome
===============================================================================
