---------------------------- MODULE UserInitProofs ----------------------------
(***************************************************************************)
(* Proofs about UserInit, for any number of protocols, operators and       *)
(* imports, and any start_after, with or without failures.                 *)
(***************************************************************************)
EXTENDS UserInit, TLAPS

\* The steps of an initialisation come after those of the call that spawns it.
InitInOrder ==
    \A i \in Imports :
        /\ import[i] \in {"idle", "stored", "failed"} => init[i] = "none"
        /\ \A p \in Protocols :
             /\ spawned[i][p] # "none" => init[i] \in {"awaiting", "done", "failed"}
             /\ started[i][p] > 0 => spawned[i][p] \notin {"none", "after"}

\* A flag is 1 only if an operator has set it, and so is all that was concluded
\* from it.
FlagsReported ==
    /\ \A p \in Protocols : flag[p] = "1" => p \in reported
    /\ \A i \in Imports, p \in Protocols :
         /\ seen[i][p] \subseteq reported
         /\ spawned[i][p] \notin {"none", "after"} => After[p] \subseteq reported
         /\ spawned[i][p] = "done" => p \in reported

UserInitInv == TypeOK /\ InitInOrder /\ FlagsReported /\ InitializedMeansReported

LEMMA UserInitInit == Init => UserInitInv
  <1> SUFFICES ASSUME Init PROVE UserInitInv
    OBVIOUS
  <1>0. OperatorNum \in Nat \ {0}
    BY BoundAssumption
  <1>1. TypeOK
    <2>1. faulty \in BOOLEAN /\ member \in BOOLEAN /\ refused \in BOOLEAN
      BY Zenon DEF Init
    <2>2. \A n \in {0} : n \in Nat /\ n \in 0 .. OperatorNum
      BY <1>0
    <2>3. started \in [Imports -> [Protocols -> 0 .. OperatorNum]]
      BY <2>2 DEF Init
    <2> QED BY <2>1, <2>2, <2>3 DEF Init, TypeOK
  <1>2. InitInOrder
    BY DEF Init, InitInOrder
  <1>3. FlagsReported /\ InitializedMeansReported
    BY DEF Init, FlagsReported, InitializedMeansReported
  <1> QED BY <1>1, <1>2, <1>3 DEF UserInitInv

\* _import_user.
LEMMA ImportStep ==
    ASSUME UserInitInv, NEW i \in Imports, Import(i) \/ ImportFails(i) \/ Importing(i)
    PROVE  UserInitInv'
  <1>0. TypeOK /\ InitInOrder /\ FlagsReported /\ InitializedMeansReported
    BY DEF UserInitInv
  <1> USE DEF Import, ImportFails, Importing, SpawnInit, Insert, calls, operators
  <1>1. TypeOK'
    BY <1>0 DEF TypeOK
  <1>2. InitInOrder'
    <2> SUFFICES ASSUME NEW j \in Imports
                 PROVE  /\ import'[j] \in {"idle", "stored", "failed"} => init'[j] = "none"
                        /\ \A p \in Protocols :
                             spawned'[j][p] # "none" => init'[j] \in {"awaiting", "done", "failed"}
      BY <1>0 DEF InitInOrder
    <2> QED BY <1>0 DEF InitInOrder, TypeOK
  <1>3. FlagsReported' /\ InitializedMeansReported'
    BY <1>0 DEF FlagsReported, InitializedMeansReported
  <1> QED BY <1>1, <1>2, <1>3 DEF UserInitInv

\* user_init.
LEMMA InitStep ==
    ASSUME UserInitInv, NEW i \in Imports, Initializing(i)
    PROVE  UserInitInv'
  <1>0. TypeOK /\ InitInOrder /\ FlagsReported /\ InitializedMeansReported
    BY DEF UserInitInv
  <1>1. CASE SpawnAll(i)
    <2> USE <1>1 DEF SpawnAll, calls, operators
    <2>1. TypeOK'
      <3>1. [p \in Protocols |-> "after"] \in
              [Protocols -> {"none", "after", "flag", "start", "wait", "done", "failed"}]
        OBVIOUS
      <3> QED BY <1>0, <3>1 DEF TypeOK
    <2>2. \A p \in Protocols : ~(started[i][p] > 0)
      BY <1>0 DEF InitInOrder
    <2>3. \A j \in Imports, p \in Protocols :
            spawned'[j][p] = IF j = i THEN "after" ELSE spawned[j][p]
      BY <1>0 DEF TypeOK
    <2>4. \A j \in Imports : init'[j] = IF j = i THEN "awaiting" ELSE init[j]
      BY <1>0 DEF TypeOK
    <2>5. import[i] \notin {"idle", "stored", "failed"}
      BY <1>0 DEF InitInOrder
    <2>6. InitInOrder'
      BY <1>0, <2>2, <2>3, <2>4, <2>5 DEF InitInOrder
    <2>7. FlagsReported' /\ InitializedMeansReported'
      BY <1>0, <2>3 DEF FlagsReported, InitializedMeansReported
    <2> QED BY <2>1, <2>6, <2>7 DEF UserInitInv
  <1>2. CASE AllJoined(i) \/ JoinFails(i)
    <2> USE <1>2 DEF AllJoined, JoinFails, Joined, calls, operators
    <2>1. TypeOK'
      BY <1>0 DEF TypeOK
    <2>2. InitInOrder'
      BY <1>0 DEF InitInOrder, TypeOK
    <2>3. FlagsReported'
      BY <1>0 DEF FlagsReported
    <2>4. InitializedMeansReported'
      BY <1>0 DEF FlagsReported, InitializedMeansReported, TypeOK
    <2> QED BY <2>1, <2>2, <2>3, <2>4 DEF UserInitInv
  <1> QED BY <1>1, <1>2 DEF Initializing

\* A task of one protocol goes on: it looks at a flag, or leaves it at 0.
LEMMA ProtocolStep ==
    ASSUME UserInitInv, NEW i \in Imports, NEW p \in Protocols,
           Protocol(i, p) \/ InitFails(i, p)
    PROVE  UserInitInv'
  <1>0. TypeOK /\ InitInOrder /\ FlagsReported /\ InitializedMeansReported
    BY DEF UserInitInv
  <1>1. CASE \E q \in After[p] : SeeOther(i, p, q)
    <2>1. PICK q \in After[p] : SeeOther(i, p, q)
      BY <1>1
    <2>2. q \in Protocols
      BY AfterAssumption
    <2> USE <2>1 DEF SeeOther, IsInitialized, calls, operators
    <2>3. TypeOK'
      BY <1>0, <2>2 DEF TypeOK
    <2>4. InitInOrder' /\ InitializedMeansReported'
      BY <1>0 DEF InitInOrder, InitializedMeansReported
    <2>5. \A j \in Imports, r \in Protocols : seen'[j][r] \subseteq reported
      BY <1>0, <2>2 DEF FlagsReported, TypeOK
    <2>6. FlagsReported'
      BY <1>0, <2>5 DEF FlagsReported
    <2> QED BY <2>3, <2>4, <2>6 DEF UserInitInv
  <1>2. CASE \/ CreateEntries(i, p) \/ ResetFlag(i, p) \/ StartOperator(i, p)
             \/ StartRefused(i, p) \/ AllStarted(i, p) \/ SeeInitialized(i, p)
             \/ InitFails(i, p)
    <2>0. OperatorNum \in Nat \ {0}
      BY BoundAssumption
    <2>1. /\ spawned[i][p] # "none"
          /\ \/ StartOperator(i, p) /\ spawned' = spawned
             \/ \E v \in {"flag", "start", "wait", "done", "failed"} :
                  spawned' = [spawned EXCEPT ![i][p] = v]
          /\ StartOperator(i, p) => spawned[i][p] = "start"
      BY <1>2, Zenon DEF CreateEntries, ResetFlag, StartOperator, StartRefused, AllStarted,
                        SeeInitialized, InitFails
    <2>2. \/ started' = started /\ busy' = busy
          \/ /\ started[i][p] < OperatorNum
             /\ started' = [started EXCEPT ![i][p] = @ + 1]
             /\ busy' = [busy EXCEPT ![p] = @ + 1]
      BY <1>2, Zenon DEF CreateEntries, ResetFlag, StartOperator, StartRefused, AllStarted,
                        SeeInitialized, InitFails, operators
    <2>3. /\ flag' = flag \/ flag' = [flag EXCEPT ![p] = "0"]
          /\ refused' = refused \/ refused' = TRUE
          /\ UNCHANGED <<faulty, import, member, initialized, init, seen, reported>>
      BY <1>2, Zenon DEF CreateEntries, ResetFlag, StartOperator, StartRefused, AllStarted,
                        SeeInitialized, InitFails, calls, operators
    <2>4. TypeOK'
      <3>1. spawned' \in [Imports -> [Protocols -> {"none", "after", "flag", "start",
                                                   "wait", "done", "failed"}]]
        <4>1. CASE spawned' = spawned
          BY <1>0, <4>1 DEF TypeOK
        <4>2. ASSUME NEW v \in {"flag", "start", "wait", "done", "failed"},
                     spawned' = [spawned EXCEPT ![i][p] = v]
              PROVE  spawned' \in [Imports -> [Protocols -> {"none", "after", "flag", "start",
                                                           "wait", "done", "failed"}]]
          BY <1>0, <4>2 DEF TypeOK
        <4> QED BY <2>1, <4>1, <4>2
      <3>2. started' \in [Imports -> [Protocols -> 0 .. OperatorNum]]
        <4>1. CASE started' = started
          BY <1>0, <4>1 DEF TypeOK
        <4>2. CASE started[i][p] < OperatorNum /\ started' = [started EXCEPT ![i][p] = @ + 1]
          <5>1. started[i][p] + 1 \in 0 .. OperatorNum
            BY <1>0, <2>0, <4>2 DEF TypeOK
          <5> QED BY <1>0, <4>2, <5>1 DEF TypeOK
        <4> QED BY <2>2, <4>1, <4>2
      <3>3. busy' \in [Protocols -> Nat]
        BY <1>0, <2>2 DEF TypeOK
      <3>4. flag' \in [Protocols -> {"none", "0", "1"}]
        BY <1>0, <2>3 DEF TypeOK
      <3>5. refused' \in BOOLEAN
        BY <1>0, <2>3, Zenon DEF TypeOK
      <3> QED BY <1>0, <2>3, <3>1, <3>2, <3>3, <3>4, <3>5 DEF TypeOK
    <2>5. \A j \in Imports, r \in Protocols : <<j, r>> # <<i, p>> =>
            spawned'[j][r] = spawned[j][r] /\ started'[j][r] = started[j][r]
      BY <1>0, <2>1, <2>2 DEF TypeOK
    <2>6. spawned'[i][p] \notin {"none", "after"}
      BY <1>0, <2>1 DEF TypeOK
    <2>7. InitInOrder'
      BY <1>0, <2>1, <2>3, <2>5, <2>6 DEF InitInOrder
    <2>8. \A r \in Protocols : flag'[r] = "1" => flag[r] = "1"
      BY <1>0, <2>3 DEF TypeOK
    <2>9. After[p] \subseteq reported
      BY <1>0, <1>2 DEF FlagsReported, CreateEntries, ResetFlag, StartOperator, StartRefused,
                        AllStarted, SeeInitialized, InitFails
    <2>10. spawned'[i][p] = "done" => p \in reported
      <3>1. CASE SeeInitialized(i, p)
        BY <1>0, <3>1 DEF SeeInitialized, IsInitialized, FlagsReported
      <3>2. CASE ~SeeInitialized(i, p)
        BY <1>0, <1>2, <3>2 DEF TypeOK, CreateEntries, ResetFlag, StartOperator,
                                StartRefused, AllStarted, InitFails
      <3> QED BY <3>1, <3>2
    <2>11. FlagsReported'
      BY <1>0, <2>3, <2>5, <2>6, <2>8, <2>9, <2>10 DEF FlagsReported
    <2>12. InitializedMeansReported'
      BY <1>0, <2>3 DEF InitializedMeansReported
    <2> QED BY <2>4, <2>7, <2>11, <2>12 DEF UserInitInv
  <1> QED BY <1>1, <1>2 DEF Protocol

\* An operator reports, or ends.
LEMMA OperatorStep ==
    ASSUME UserInitInv, NEW p \in Protocols, Report(p) \/ Die(p)
    PROVE  UserInitInv'
  <1>0. TypeOK /\ InitInOrder /\ FlagsReported /\ InitializedMeansReported
    BY DEF UserInitInv
  <1> USE DEF Report, Die, calls
  <1>1. TypeOK'
    <2>1. busy' \in [Protocols -> Nat]
      <3>1. busy[p] \in Nat /\ busy[p] > 0 /\ busy' = [busy EXCEPT ![p] = @ - 1]
        BY <1>0 DEF TypeOK
      <3>2. busy[p] - 1 \in Nat
        BY <3>1
      <3> QED BY <1>0, <3>1, <3>2 DEF TypeOK
    <2>2. flag' \in [Protocols -> {"none", "0", "1"}] /\ reported' \subseteq Protocols
      BY <1>0 DEF TypeOK
    <2>3. UNCHANGED <<faulty, import, member, initialized, init, spawned, seen, started, refused>>
      OBVIOUS
    <2> QED BY <1>0, <2>1, <2>2, <2>3 DEF TypeOK
  <1>2. reported \subseteq reported' /\ reported' \subseteq Protocols
    BY <1>0 DEF TypeOK
  <1>3. InitInOrder' /\ InitializedMeansReported'
    <2>1. UNCHANGED <<initialized, import, init, spawned, started>>
      OBVIOUS
    <2>2. InitInOrder'
      BY <1>0, <2>1 DEF InitInOrder
    <2>3. InitializedMeansReported'
      BY <1>0, <1>2, <2>1 DEF InitializedMeansReported
    <2> QED BY <2>2, <2>3
  <1>4. FlagsReported'
    <2>1. \A q \in Protocols : flag'[q] = "1" => flag[q] = "1" \/ q \in reported'
      BY <1>0 DEF TypeOK
    <2>2. UNCHANGED <<seen, spawned>>
      OBVIOUS
    <2> QED BY <1>0, <1>2, <2>1, <2>2 DEF FlagsReported
  <1> QED BY <1>1, <1>3, <1>4 DEF UserInitInv

\* The inductive invariant of an initialisation.
THEOREM UserInitInvariant == Spec => []UserInitInv
  <1>1. UserInitInv /\ [Next]_vars => UserInitInv'
    <2> SUFFICES ASSUME UserInitInv, [Next]_vars PROVE UserInitInv'
      OBVIOUS
    <2>1. CASE UNCHANGED vars
      BY <2>1 DEF vars, UserInitInv, TypeOK, InitInOrder, FlagsReported, InitializedMeansReported
    <2>2. CASE Next
      BY <2>2, ImportStep, InitStep, ProtocolStep, OperatorStep DEF Next
    <2> QED BY <2>1, <2>2
  <1> QED BY <1>1, UserInitInit, PTL DEF Spec

\* A user is marked as initialised only if every protocol of the configuration
\* has reported, however many initialisations of the user run at once.
THEOREM InitializedCorrect == Spec => []InitializedMeansReported
  <1>1. UserInitInv => InitializedMeansReported
    BY DEF UserInitInv
  <1> QED BY <1>1, UserInitInvariant, PTL

\* No operator is started before the protocols that its protocol builds on have
\* reported.
THEOREM OrderCorrect == Spec => []OperatorsOrdered
  <1>1. UserInitInv => OperatorsOrdered
    BY DEF UserInitInv, InitInOrder, FlagsReported, OperatorsOrdered
  <1> QED BY <1>1, UserInitInvariant, PTL
===============================================================================
