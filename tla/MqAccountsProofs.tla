--------------------------- MODULE MqAccountsProofs ---------------------------
(***************************************************************************)
(* Proofs about MqAccounts, for any requests and users, any number of      *)
(* faults, and either broker.                                              *)
(***************************************************************************)
EXTENDS MqAccounts, TLAPS

\* The mutex: one request creates, in a core that serves, for a user without
\* an account; whoever has not come to creating has made nothing.
Creating ==
    /\ \A r \in Requests : req[r] = "creating" => stored[UserOf[r]] = None
    /\ \A r, s \in Requests : req[r] = "creating" /\ req[s] = "creating" => r = s
    /\ \A r \in Requests : req[r] \in {"idle", "waiting"} => has[r] = {}
    /\ \A r \in Requests : req[r] # "refused" /\ has[r] \subseteq Parts

\* What a process knows ends with it.
NotServing ==
    core # "serving" => /\ \A r \in Requests : req[r] \in {"idle", "gone"}
                        /\ \A u \in Users : stored[u] = None

\* Who has been served, and by whom.
Served ==
    \A r \in Requests : /\ req[r] = "done" /\ has[r] # {} => stored[UserOf[r]] = r
                        /\ stored[UserOf[r]] = r => req[r] = "done"

\* What the start of a core has still to delete.
Cleaning ==
    /\ core = "cleaning" =>
          \A a \in Requests : "user" \in has[a] => a \in doomed /\ a # current
    /\ broker = "redis" => current = None

AccountInv == /\ TypeOK /\ Creating /\ NotServing /\ Served /\ Cleaning
              /\ UrisUsable /\ NothingWasted /\ OldAccountsGone

LEMMA AccountInit == Init => AccountInv
  <1> SUFFICES ASSUME Init PROVE AccountInv
    OBVIOUS
  <1> USE UserOfAssumption DEF Init
  <1>1. TypeOK
    BY BoundAssumption DEF TypeOK
  <1>2. Creating /\ NotServing /\ Served /\ Cleaning
    BY DEF Creating, NotServing, Served, Cleaning
  <1>3. UrisUsable /\ NothingWasted /\ OldAccountsGone
    BY DEF UrisUsable, NothingWasted, OldAccountsGone, Complete
  <1> QED BY <1>1, <1>2, <1>3 DEF AccountInv

\* get_mq_uri is called, and looks for the URI.
LEMMA CallStep ==
    ASSUME AccountInv, NEW r \in Requests, Call(r) \/ Look(r)
    PROVE  AccountInv'
  <1>0. /\ TypeOK /\ Creating /\ NotServing /\ Served /\ Cleaning
        /\ UrisUsable /\ NothingWasted /\ OldAccountsGone
    BY DEF AccountInv
  <1> USE UserOfAssumption DEF Call, Look, MutexFree, deletion
  <1>1. TypeOK'
    BY <1>0, BoundAssumption DEF TypeOK, Parts, AllParts, Creating
  <1>2. Parts' = Parts
    BY DEF Parts
  <1>3. Creating'
    BY <1>0, <1>2 DEF TypeOK, Creating, NotServing, Served
  <1>4. NotServing'
    BY <1>0, <1>2 DEF TypeOK, Creating, NotServing, Served
  <1>5. Served'
    BY <1>0, <1>2 DEF TypeOK, Creating, NotServing, Served, UrisUsable
  <1>6. Cleaning'
    BY <1>0, <1>2 DEF TypeOK, Creating, NotServing, Cleaning
  <1>7. UrisUsable'
    BY <1>0, <1>2 DEF TypeOK, Creating, NotServing, Served, UrisUsable, Complete, Parts
  <1>8. NothingWasted'
    BY <1>0, <1>2 DEF TypeOK, Creating, NotServing, Served, Cleaning, UrisUsable, NothingWasted
  <1>9. OldAccountsGone'
    BY <1>0, <1>2 DEF TypeOK, Creating, NotServing, Served, Cleaning, OldAccountsGone
  <1> QED BY <1>1, <1>3, <1>4, <1>5, <1>6, <1>7, <1>8, <1>9 DEF AccountInv

\* A call to the broker, in time or lost.
LEMMA CreateStep ==
    ASSUME AccountInv, NEW r \in Requests, Create(r) \/ Fail(r)
    PROVE  AccountInv'
  <1>0. /\ TypeOK /\ Creating /\ NotServing /\ Served /\ Cleaning
        /\ UrisUsable /\ NothingWasted /\ OldAccountsGone
    BY DEF AccountInv
  <1> USE UserOfAssumption DEF Create, Fail, Makes, deletion
  <1>1. TypeOK'
    BY <1>0, BoundAssumption DEF TypeOK, Parts, AllParts, Creating
  <1>2. Parts' = Parts
    BY DEF Parts
  <1>3. Creating'
    BY <1>0, <1>2 DEF TypeOK, Creating, NotServing, Served
  <1>4. NotServing'
    BY <1>0, <1>2 DEF TypeOK, Creating, NotServing, Served
  <1>5. Served'
    BY <1>0, <1>2 DEF TypeOK, Creating, NotServing, Served, UrisUsable
  <1>6. Cleaning'
    BY <1>0, <1>2 DEF TypeOK, Creating, NotServing, Cleaning
  <1>7. UrisUsable'
    BY <1>0, <1>2 DEF TypeOK, Creating, NotServing, Served, UrisUsable, Complete, Parts
  <1>8. NothingWasted'
    BY <1>0, <1>2 DEF TypeOK, Creating, NotServing, Served, Cleaning, UrisUsable, NothingWasted
  <1>9. OldAccountsGone'
    BY <1>0, <1>2 DEF TypeOK, Creating, NotServing, Served, Cleaning, OldAccountsGone
  <1> QED BY <1>1, <1>3, <1>4, <1>5, <1>6, <1>7, <1>8, <1>9 DEF AccountInv

\* The URI is stored: nobody else has stored one meanwhile.
LEMMA StoreStep ==
    ASSUME AccountInv, NEW r \in Requests, Store(r)
    PROVE  AccountInv'
  <1>0. /\ TypeOK /\ Creating /\ NotServing /\ Served /\ Cleaning
        /\ UrisUsable /\ NothingWasted /\ OldAccountsGone
    BY DEF AccountInv
  <1> USE UserOfAssumption DEF Store, Made, deletion
  <1>1. TypeOK'
    BY <1>0, BoundAssumption DEF TypeOK, Parts, AllParts, Creating
  <1>2. Parts' = Parts
    BY DEF Parts
  <1>3. Creating'
    BY <1>0, <1>2 DEF TypeOK, Creating, NotServing, Served
  <1>4. NotServing'
    BY <1>0, <1>2 DEF TypeOK, Creating, NotServing, Served
  <1>5. Served'
    BY <1>0, <1>2 DEF TypeOK, Creating, NotServing, Served, UrisUsable
  <1>6. Cleaning'
    BY <1>0, <1>2 DEF TypeOK, Creating, NotServing, Cleaning
  <1>7. UrisUsable'
    <2>1. stored[UserOf[r]] = None /\ stored' = [stored EXCEPT ![UserOf[r]] = r] /\ has' = has
      BY <1>0 DEF Creating
    <2>2. \A q \in Requests : req'[q] = "done" => uri'[q] # None /\ uri'[q] = stored'[UserOf[q]]
      BY <1>0, <2>1 DEF TypeOK, UrisUsable
    <2>3. has[r] = Parts
      BY <1>0 DEF Creating
    <2>4. \A u \in Users : stored[u] # None => has[stored[u]] = Parts /\ UserOf[stored[u]] = u
      BY <1>0 DEF UrisUsable, Complete, Parts
    <2>5. \A u \in Users : stored'[u] # None =>
             has'[stored'[u]] = Parts' /\ UserOf[stored'[u]] = u
      BY <1>0, <1>2, <2>1, <2>3, <2>4 DEF TypeOK
    <2> QED BY <2>2, <2>5 DEF UrisUsable, Complete, Parts
  <1>8. NothingWasted'
    BY <1>0, <1>2 DEF TypeOK, Creating, NotServing, Served, Cleaning, UrisUsable, NothingWasted
  <1>9. OldAccountsGone'
    BY <1>0, <1>2 DEF TypeOK, Creating, NotServing, Served, Cleaning, OldAccountsGone
  <1> QED BY <1>1, <1>3, <1>4, <1>5, <1>6, <1>7, <1>8, <1>9 DEF AccountInv

\* The core is started, and serves when nothing is left to delete.
LEMMA StartStep ==
    ASSUME AccountInv, Start \/ Serve
    PROVE  AccountInv'
  <1>0. /\ TypeOK /\ Creating /\ NotServing /\ Served /\ Cleaning
        /\ UrisUsable /\ NothingWasted /\ OldAccountsGone
    BY DEF AccountInv
  <1> USE UserOfAssumption DEF Start, Serve, deletion
  <1>1. TypeOK'
    BY <1>0, BoundAssumption DEF TypeOK, Parts, AllParts, Creating
  <1>2. Parts' = Parts
    BY DEF Parts
  <1>3. Creating'
    BY <1>0, <1>2 DEF TypeOK, Creating, NotServing, Served
  <1>4. NotServing'
    BY <1>0, <1>2 DEF TypeOK, Creating, NotServing, Served
  <1>5. Served'
    BY <1>0, <1>2 DEF TypeOK, Creating, NotServing, Served, UrisUsable
  <1>6. Cleaning'
    BY <1>0, <1>2 DEF TypeOK, Creating, NotServing, Cleaning
  <1>7. UrisUsable'
    BY <1>0, <1>2 DEF TypeOK, Creating, NotServing, Served, UrisUsable, Complete, Parts
  <1>8. NothingWasted'
    BY <1>0, <1>2 DEF TypeOK, Creating, NotServing, Served, Cleaning, UrisUsable, NothingWasted
  <1>9. OldAccountsGone'
    BY <1>0, <1>2 DEF TypeOK, Creating, NotServing, Served, Cleaning, OldAccountsGone
  <1> QED BY <1>1, <1>3, <1>4, <1>5, <1>6, <1>7, <1>8, <1>9 DEF AccountInv

\* An account is deleted, at once or half after half.
LEMMA DeleteStep ==
    ASSUME AccountInv, DeleteAtOnce \/ DeleteSecond \/ \E a \in Requests : DeleteFirst(a)
    PROVE  AccountInv'
  <1>0. /\ TypeOK /\ Creating /\ NotServing /\ Served /\ Cleaning
        /\ UrisUsable /\ NothingWasted /\ OldAccountsGone
    BY DEF AccountInv
  <1> USE UserOfAssumption DEF DeleteAtOnce, DeleteFirst, DeleteSecond, GivesUp, FailedStart,
          Order, With
  <1>1. TypeOK'
    BY <1>0, BoundAssumption DEF TypeOK, Parts, AllParts, Creating, Cleaning
  <1>2. Parts' = Parts
    BY DEF Parts
  <1>3. Creating'
    BY <1>0, <1>2 DEF TypeOK, Creating, NotServing, Served
  <1>4. NotServing'
    BY <1>0, <1>2 DEF TypeOK, Creating, NotServing, Served
  <1>5. Served'
    BY <1>0, <1>2 DEF TypeOK, Creating, NotServing, Served, UrisUsable
  <1>6. Cleaning'
    BY <1>0, <1>2 DEF TypeOK, Creating, NotServing, Cleaning
  <1>7. UrisUsable'
    BY <1>0, <1>2 DEF TypeOK, Creating, NotServing, Served, UrisUsable, Complete, Parts
  <1>8. NothingWasted'
    BY <1>0, <1>2 DEF TypeOK, Creating, NotServing, Served, Cleaning, UrisUsable, NothingWasted
  <1>9. OldAccountsGone'
    BY <1>0, <1>2 DEF TypeOK, Creating, NotServing, Served, Cleaning, OldAccountsGone
  <1> QED BY <1>1, <1>3, <1>4, <1>5, <1>6, <1>7, <1>8, <1>9 DEF AccountInv

\* A start that fails.
LEMMA FailedStartStep ==
    ASSUME AccountInv, StartFails
    PROVE  AccountInv'
  <1>0. /\ TypeOK /\ Creating /\ NotServing /\ Served /\ Cleaning
        /\ UrisUsable /\ NothingWasted /\ OldAccountsGone
    BY DEF AccountInv
  <1> USE UserOfAssumption DEF StartFails, GivesUp, FailedStart, Order, With
  <1>1. TypeOK'
    BY <1>0, BoundAssumption DEF TypeOK, Parts, AllParts, Creating
  <1>2. Parts' = Parts
    BY DEF Parts
  <1>3. Creating'
    BY <1>0, <1>2 DEF TypeOK, Creating, NotServing, Served
  <1>4. NotServing'
    BY <1>0, <1>2 DEF TypeOK, Creating, NotServing, Served
  <1>5. Served'
    BY <1>0, <1>2 DEF TypeOK, Creating, NotServing, Served, UrisUsable
  <1>6. Cleaning'
    BY <1>0, <1>2 DEF TypeOK, Creating, NotServing, Cleaning
  <1>7. UrisUsable'
    BY <1>0, <1>2 DEF TypeOK, Creating, NotServing, Served, UrisUsable, Complete, Parts
  <1>8. NothingWasted'
    BY <1>0, <1>2 DEF TypeOK, Creating, NotServing, Served, Cleaning, UrisUsable, NothingWasted
  <1>9. OldAccountsGone'
    BY <1>0, <1>2 DEF TypeOK, Creating, NotServing, Served, Cleaning, OldAccountsGone
  <1> QED BY <1>1, <1>3, <1>4, <1>5, <1>6, <1>7, <1>8, <1>9 DEF AccountInv

\* The process ends.
LEMMA CrashStep ==
    ASSUME AccountInv, Crash
    PROVE  AccountInv'
  <1>0. /\ TypeOK /\ Creating /\ NotServing /\ Served /\ Cleaning
        /\ UrisUsable /\ NothingWasted /\ OldAccountsGone
    BY DEF AccountInv
  <1> USE UserOfAssumption DEF Crash, Makes, deletion
  <1>1. TypeOK'
    BY <1>0, BoundAssumption DEF TypeOK, Parts, AllParts, Creating
  <1>2. Parts' = Parts
    BY DEF Parts
  <1>3. Creating'
    BY <1>0, <1>2 DEF TypeOK, Creating, NotServing, Served
  <1>4. NotServing'
    BY <1>0, <1>2 DEF TypeOK, Creating, NotServing, Served
  <1>5. Served'
    BY <1>0, <1>2 DEF TypeOK, Creating, NotServing, Served, UrisUsable
  <1>6. Cleaning'
    BY <1>0, <1>2 DEF TypeOK, Creating, NotServing, Cleaning
  <1>7. UrisUsable'
    BY <1>0, <1>2 DEF TypeOK, Creating, NotServing, Served, UrisUsable, Complete, Parts
  <1>8. NothingWasted'
    BY <1>0, <1>2 DEF TypeOK, Creating, NotServing, Served, Cleaning, UrisUsable, NothingWasted
  <1>9. OldAccountsGone'
    BY <1>0, <1>2 DEF TypeOK, Creating, NotServing, Served, Cleaning, OldAccountsGone
  <1> QED BY <1>1, <1>3, <1>4, <1>5, <1>6, <1>7, <1>8, <1>9 DEF AccountInv

LEMMA AccountStep == AccountInv /\ [Next]_vars => AccountInv'
  <1> SUFFICES ASSUME AccountInv, [Next]_vars PROVE AccountInv'
    OBVIOUS
  <1>1. ASSUME NEW r \in Requests, Call(r) \/ Answer(r) \/ Fail(r) PROVE AccountInv'
    BY <1>1, CallStep, CreateStep, StoreStep DEF Answer
  <1>2. CASE Starting
    BY <1>2, StartStep, DeleteStep DEF Starting
  <1>3. CASE StartFails \/ Crash
    BY <1>3, FailedStartStep, CrashStep
  <1>4. CASE UNCHANGED vars
    BY <1>4 DEF vars, AccountInv, TypeOK, Creating, NotServing, Served, Cleaning, UrisUsable,
                NothingWasted, OldAccountsGone, Complete, Parts, AllParts
  <1> QED BY <1>1, <1>2, <1>3, <1>4 DEF Next

\* The inductive invariant holds in every behaviour: the code of get_mq_uri and
\* of delete_all_accounts keeps the storage and the broker in agreement.
THEOREM AccountInvariant == Spec => []AccountInv
  <1> QED BY AccountInit, AccountStep, PTL DEF Spec

\* The state of the accounts has its type for any requests and users.
THEOREM TypeCorrect == Spec => []TypeOK
  <1>1. AccountInv => TypeOK
    BY DEF AccountInv
  <1> QED BY <1>1, AccountInvariant, PTL

\* Whatever get_mq_uri returns is the one complete account of its user.
THEOREM UrisCorrect == Spec => []UrisUsable
  <1>1. AccountInv => UrisUsable
    BY DEF AccountInv
  <1> QED BY <1>1, AccountInvariant, PTL

\* Under the mutex no creation of an account is in vain but for a fault.
THEOREM NothingWastedCorrect == Spec => []NothingWasted
  <1>1. AccountInv => NothingWasted
    BY DEF AccountInv
  <1> QED BY <1>1, AccountInvariant, PTL

\* delete_all_accounts has closed what earlier runs opened, before the core serves.
THEOREM OldAccountsCorrect == Spec => []OldAccountsGone
  <1>1. AccountInv => OldAccountsGone
    BY DEF AccountInv
  <1> QED BY <1>1, AccountInvariant, PTL
===============================================================================
