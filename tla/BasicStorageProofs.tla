-------------------------- MODULE BasicStorageProofs --------------------------
(***************************************************************************)
(* Proofs about BasicStorage, for all keys, values and clock readings.     *)
(***************************************************************************)
EXTENDS BasicStorage, TLAPS

\* The timestamps of versions are readings; those of deletions are not.
StampsOfVersions ==
    \A k \in Keys : /\ stamp[k] \in Times => Stored(k, stamp[k])
                    /\ \A t \in Stamps : Stored(k, t) => t \in Times /\ stamp[k] # 0

StorageInv == /\ TypeOK
              /\ StampsOfVersions
              /\ ListsLatest
              /\ ListsHistory
              /\ ListsDirectories

\* A reading, its second and the code's word for "never" are all different.
LEMMA StampFacts ==
    /\ Times \subseteq Stamps /\ 0 \notin Stamps
    /\ \A t \in Times : Seconds(t) \in Stamps /\ Seconds(t) \notin Times
  BY ClockAssumption DEF Stamps

\* The directories a key lies in are directories, entered with timestamp 0.
LEMMA PrefixFacts ==
    ASSUME NEW k \in Keys
    PROVE  /\ Directories(k) \subseteq AllDirectories
           /\ PrefixesAlongPath(k) \subseteq AllDirectories \X {0}
           /\ \A d : <<d, 0>> \in PrefixesAlongPath(k) <=> d \in Directories(k)
           /\ \A e \in FirstPrefixes(k) : e[2] = 0
           /\ FirstPrefixes(k) \subseteq AllDirectories \X {0}
  <1>1. Directories(k) \subseteq AllDirectories
    BY DEF AllDirectories
  <1>2. /\ PrefixesAlongPath(k) \subseteq AllDirectories \X {0}
        /\ \A d : <<d, 0>> \in PrefixesAlongPath(k) <=> d \in Directories(k)
    BY <1>1 DEF PrefixesAlongPath
  <1> QED BY <1>1, <1>2 DEF FirstPrefixes

\* What storing a new version does to the maps of values and stamps.
LEMMA PutFacts ==
    ASSUME TypeOK, NEW k \in Keys, NEW v \in Values, NEW t \in Times, Put(k, v, t)
    PROVE  /\ value' \in [Keys \X Stamps -> Values \cup {NoValue}]
           /\ stamp' \in [Keys -> Stamps \cup {0}]
           /\ history' \subseteq (Keys \X Stamps) \cup (AllDirectories \X {0})
           /\ stamp'[k] = t /\ \A l \in Keys : l # k => stamp'[l] = stamp[l]
           /\ value'[<<k, t>>] = v
           /\ \A e \in Keys \X Stamps : e # <<k, t>> => value'[e] = value[e]
           /\ v # NoValue
  BY StampFacts, PrefixFacts, ValuesAssumption DEF Put, TypeOK

\* BasicStorage::default() has three empty maps.
LEMMA StorageInit == Init => StorageInv
  <1> SUFFICES ASSUME Init PROVE StorageInv
    OBVIOUS
  <1>1. TypeOK
    BY DEF Init, TypeOK
  <1>2. StampsOfVersions
    BY StampFacts DEF Init, StampsOfVersions, Stored
  <1>3. ListsLatest /\ ListsHistory /\ ListsDirectories
    BY DEF Init, ListsLatest, ListsHistory, ListsDirectories, Live
  <1> QED BY <1>1, <1>2, <1>3 DEF StorageInv

\* A new version, whether create or update stores it, becomes current.
LEMMA StoragePut ==
    ASSUME StorageInv, NEW k \in Keys, NEW v \in Values, NEW t \in Times,
           Put(k, v, t),
           latest' = ((latest \cup FirstPrefixes(k)) \ OldEntry(k)) \cup {<<k, t>>}
    PROVE  StampsOfVersions' /\ ListsLatest' /\ ListsHistory' /\ ListsDirectories'
  <1> USE StampFacts
  <1>0. TypeOK
    BY DEF StorageInv
  <1>1. /\ stamp'[k] = t /\ \A l \in Keys : l # k => stamp'[l] = stamp[l]
        /\ value'[<<k, t>>] = v
        /\ \A e \in Keys \X Stamps : e # <<k, t>> => value'[e] = value[e]
        /\ v # NoValue
    BY <1>0, PutFacts
  <1>2. StampsOfVersions'
    BY <1>1 DEF StorageInv, StampsOfVersions, Stored
  <1>3. ListsHistory'
    <2>1. history' = history \cup FirstPrefixes(k) \cup {<<k, t>>}
      BY DEF Put
    <2>2. \A e \in FirstPrefixes(k) : e[2] = 0
      BY PrefixFacts
    <2>3. {e \in history' : e[2] # 0} = {e \in history : e[2] # 0} \cup {<<k, t>>}
      BY <2>1, <2>2
    <2>4. {e \in Keys \X Stamps : value'[e] # NoValue}
            = {e \in Keys \X Stamps : value[e] # NoValue} \cup {<<k, t>>}
      BY <1>1
    <2> QED BY <2>3, <2>4 DEF StorageInv, ListsHistory
  <1>4. \A l \in Keys : l # k => Live(l)' = Live(l) /\ Current(l)' = Current(l)
    BY <1>0, <1>1 DEF Live, Stored, Current, TypeOK
  <1>5. Live(k)' /\ Current(k)' = <<k, t>>
    BY <1>1 DEF Live, Stored, Current
  <1>6. ListsLatest'
    <2>1. \A e \in FirstPrefixes(k) : e[2] = 0
      BY PrefixFacts
    <2>2. {e \in latest : e[2] # 0} = {Current(l) : l \in {m \in Keys : Live(m)}}
      BY DEF StorageInv, ListsLatest
    <2>3. ASSUME NEW e, e \in latest', e[2] # 0
          PROVE  e \in {Current(l)' : l \in {m \in Keys : Live(m)'}}
      <3>1. CASE e = <<k, t>>
        BY <1>5, <3>1
      <3>2. CASE e # <<k, t>>
        <4>1. e \in latest /\ e \notin OldEntry(k)
          BY <2>1, <2>3, <3>2
        <4>2. PICK l \in Keys : Live(l) /\ e = Current(l)
          BY <2>2, <2>3, <4>1
        <4>3. l # k
          BY <4>1, <4>2 DEF OldEntry, Current, Live
        <4> QED BY <1>4, <4>2, <4>3
      <3> QED BY <3>1, <3>2
    <2>4. ASSUME NEW l \in Keys, Live(l)'
          PROVE  Current(l)' \in latest' /\ Current(l)'[2] # 0
      <3>1. CASE l = k
        BY <1>5, <3>1
      <3>2. CASE l # k
        <4>1. Live(l) /\ Current(l)' = Current(l)
          BY <1>4, <2>4, <3>2
        <4>2. Current(l) \in latest /\ Current(l)[2] # 0
          BY <2>2, <4>1
        <4>3. Current(l) \notin OldEntry(k)
          BY <3>2 DEF Current, OldEntry
        <4> QED BY <4>1, <4>2, <4>3
      <3> QED BY <3>1, <3>2
    <2> QED BY <2>3, <2>4 DEF ListsLatest
  <1>7. ListsDirectories'
    <2> SUFFICES ASSUME NEW d \in AllDirectories
                 PROVE  /\ <<d, 0>> \in latest' <=> \E l \in Keys : stamp'[l] # 0 /\ d \in Directories(l)
                        /\ <<d, 0>> \in history' <=> \E l \in Keys : stamp'[l] # 0 /\ d \in Directories(l)
      BY DEF ListsDirectories
    <2>1. /\ <<d, 0>> \in latest <=> \E l \in Keys : stamp[l] # 0 /\ d \in Directories(l)
          /\ <<d, 0>> \in history <=> \E l \in Keys : stamp[l] # 0 /\ d \in Directories(l)
      BY DEF StorageInv, ListsDirectories
    <2>2. (\E l \in Keys : stamp'[l] # 0 /\ d \in Directories(l))
            <=> d \in Directories(k) \/ \E l \in Keys : stamp[l] # 0 /\ d \in Directories(l)
      BY <1>1
    <2>3. <<d, 0>> \in FirstPrefixes(k) <=> stamp[k] = 0 /\ d \in Directories(k)
      BY PrefixFacts DEF FirstPrefixes
    <2>4. <<d, 0>> \notin OldEntry(k) /\ <<d, 0>> # <<k, t>>
      BY DEF OldEntry
    <2>5. history' = history \cup FirstPrefixes(k) \cup {<<k, t>>}
      BY DEF Put
    <2>6. /\ <<d, 0>> \in latest' <=> <<d, 0>> \in latest \/ <<d, 0>> \in FirstPrefixes(k)
          /\ <<d, 0>> \in history' <=> <<d, 0>> \in history \/ <<d, 0>> \in FirstPrefixes(k)
      BY <2>4, <2>5
    <2> QED BY <2>1, <2>2, <2>3, <2>6
  <1> QED BY <1>2, <1>3, <1>6, <1>7

\* Deleting a key takes away its entry, and nothing that a reader could find.
LEMMA StorageDelete ==
    ASSUME StorageInv, NEW k \in Keys, NEW t \in Times, Live(k),
           stamp' = [stamp EXCEPT ![k] = Seconds(t)],
           latest' = latest \ OldEntry(k),
           UNCHANGED <<value, history>>
    PROVE  StampsOfVersions' /\ ListsLatest' /\ ListsHistory' /\ ListsDirectories'
  <1> USE StampFacts
  <1>0. TypeOK
    BY DEF StorageInv
  <1>1. /\ stamp'[k] = Seconds(t) /\ \A l \in Keys : l # k => stamp'[l] = stamp[l]
        /\ stamp[k] # 0 /\ stamp'[k] # 0
    BY <1>0 DEF TypeOK, Live
  <1>2. StampsOfVersions'
    <2>1. \A l \in Keys, u \in Stamps : Stored(l, u)' <=> Stored(l, u)
      BY DEF Stored
    <2>2. /\ stamp'[k] \notin Times
          /\ \A u \in Stamps : Stored(k, u)' => u \in Times
      BY <1>1, <2>1 DEF StorageInv, StampsOfVersions
    <2>3. ASSUME NEW l \in Keys, l # k
          PROVE  /\ stamp'[l] \in Times => Stored(l, stamp[l])'
                 /\ \A u \in Stamps : Stored(l, u)' => u \in Times /\ stamp'[l] # 0
      BY <1>1, <2>1, <2>3 DEF StorageInv, StampsOfVersions
    <2> QED BY <1>1, <2>2, <2>3 DEF StampsOfVersions
  <1>3. ListsHistory'
    BY DEF StorageInv, ListsHistory
  <1>4. /\ \A l \in Keys : l # k => Live(l)' = Live(l) /\ Current(l)' = Current(l)
        /\ ~Live(k)'
    BY <1>1 DEF Live, Stored, Current, StorageInv, StampsOfVersions
  <1>5. ListsLatest'
    <2>1. {e \in latest : e[2] # 0} = {Current(l) : l \in {m \in Keys : Live(m)}}
      BY DEF StorageInv, ListsLatest
    <2>2. OldEntry(k) = {Current(k)}
      BY <1>1 DEF OldEntry, Current
    <2>3. \A l \in Keys : l # k => Current(l) # Current(k)
      BY DEF Current
    <2>4. ASSUME NEW e, e \in latest', e[2] # 0
          PROVE  e \in {Current(l)' : l \in {m \in Keys : Live(m)'}}
      BY <1>4, <2>1, <2>2, <2>4
    <2>5. ASSUME NEW l \in Keys, Live(l)'
          PROVE  Current(l)' \in latest' /\ Current(l)'[2] # 0
      <3>1. l # k /\ Live(l) /\ Current(l)' = Current(l)
        BY <1>4, <2>5
      <3>2. Current(l) \in latest /\ Current(l)[2] # 0
        BY <2>1, <3>1
      <3> QED BY <2>2, <2>3, <3>1, <3>2
    <2> QED BY <2>4, <2>5 DEF ListsLatest
  <1>6. ListsDirectories'
    <2>1. \A d \in AllDirectories : <<d, 0>> \in latest' <=> <<d, 0>> \in latest
      BY <1>1 DEF OldEntry
    <2>2. \A l \in Keys : stamp'[l] # 0 <=> stamp[l] # 0
      BY <1>1
    <2> QED BY <2>1, <2>2 DEF StorageInv, ListsDirectories
  <1> QED BY <1>2, <1>3, <1>5, <1>6

\* A create finds no entry of its key to replace.
LEMMA CreateReplacesNothing ==
    ASSUME StorageInv, NEW k \in Keys, ~Live(k)
    PROVE  (latest \cup FirstPrefixes(k)) \ OldEntry(k) = latest \cup FirstPrefixes(k)
  <1> SUFFICES ASSUME NEW e \in OldEntry(k) PROVE e \notin latest \cup FirstPrefixes(k)
    OBVIOUS
  <1>1. e = <<k, stamp[k]>> /\ stamp[k] # 0
    BY DEF OldEntry
  <1>2. e \notin FirstPrefixes(k)
    BY <1>1, PrefixFacts
  <1>3. ASSUME e \in latest PROVE FALSE
    <2>1. PICK l \in Keys : Live(l) /\ e = Current(l)
      BY <1>1, <1>3 DEF StorageInv, ListsLatest
    <2> QED BY <1>1, <2>1 DEF Current
  <1> QED BY <1>2, <1>3

\* Calls that fail leave the maps alone.
LEMMA StorageSame ==
    ASSUME StorageInv, UNCHANGED <<value, stamp, latest, history>>
    PROVE  StampsOfVersions' /\ ListsLatest' /\ ListsHistory' /\ ListsDirectories'
  <1>1. StampsOfVersions' /\ ListsHistory' /\ ListsDirectories'
    BY DEF StorageInv, StampsOfVersions, Stored, ListsHistory, ListsDirectories
  <1>2. \A k \in Keys : Live(k)' = Live(k) /\ Current(k)' = Current(k)
    BY DEF Live, Stored, Current
  <1>3. ListsLatest'
    BY <1>2 DEF StorageInv, ListsLatest
  <1> QED BY <1>1, <1>3

\* create, update and delete keep the three maps in agreement.
LEMMA StorageStep == StorageInv /\ [Next]_vars => StorageInv'
  <1> SUFFICES ASSUME StorageInv, [Next]_vars PROVE StorageInv'
    OBVIOUS
  <1> USE StampFacts
  <1>0. TypeOK
    BY DEF StorageInv
  <1>1. ASSUME NEW k \in Keys, NEW v \in Values, NEW t \in Times, Create(k, v, t)
        PROVE  StorageInv'
    <2>1. CASE Creatable(k)
      <3>1. Put(k, v, t) /\ latest' = latest \cup FirstPrefixes(k) \cup {<<k, t>>} /\ ~Live(k)
        BY <1>1, <2>1 DEF Create, Creatable
      <3>2. StampsOfVersions' /\ ListsLatest' /\ ListsHistory' /\ ListsDirectories'
        BY <3>1, CreateReplacesNothing, StoragePut
      <3>3. TypeOK'
        <4>1. latest' \subseteq (Keys \X Stamps) \cup (AllDirectories \X {0})
          BY <1>0, <3>1, PrefixFacts DEF TypeOK
        <4>2. /\ value' \in [Keys \X Stamps -> Values \cup {NoValue}]
              /\ stamp' \in [Keys -> Stamps \cup {0}]
              /\ history' \subseteq (Keys \X Stamps) \cup (AllDirectories \X {0})
          BY <1>0, <3>1, PutFacts
        <4>3. now' = t /\ reply' = <<"create", k, v>>
          BY <1>1, <2>1 DEF Create, ClockReads
        <4> QED BY <4>1, <4>2, <4>3 DEF TypeOK
      <3> QED BY <3>2, <3>3 DEF StorageInv
    <2>2. CASE ~Creatable(k)
      <3>1. TypeOK'
        BY <1>0, <1>1, <2>2 DEF Create, ClockReads, TypeOK
      <3> QED BY <1>1, <2>2, <3>1, StorageSame DEF Create, StorageInv
    <2> QED BY <2>1, <2>2
  <1>2. ASSUME NEW k \in Keys, NEW v \in Values, NEW t \in Times, Update(k, v, t)
        PROVE  StorageInv'
    <2>1. /\ Put(k, v, t)
          /\ latest' = ((latest \cup FirstPrefixes(k)) \ OldEntry(k)) \cup {<<k, t>>}
      BY <1>2 DEF Update
    <2>2. StampsOfVersions' /\ ListsLatest' /\ ListsHistory' /\ ListsDirectories'
      BY <2>1, StoragePut
    <2>3. TypeOK'
      <3>1. latest' \subseteq (Keys \X Stamps) \cup (AllDirectories \X {0})
        BY <1>0, <2>1, PrefixFacts DEF TypeOK
      <3>2. /\ value' \in [Keys \X Stamps -> Values \cup {NoValue}]
            /\ stamp' \in [Keys -> Stamps \cup {0}]
            /\ history' \subseteq (Keys \X Stamps) \cup (AllDirectories \X {0})
        BY <1>0, <2>1, PutFacts
      <3>3. now' = t /\ reply' = <<"update", k, v>>
        BY <1>2 DEF Update, ClockReads
      <3> QED BY <3>1, <3>2, <3>3 DEF TypeOK
    <2> QED BY <2>2, <2>3 DEF StorageInv
  <1>3. ASSUME NEW k \in Keys, NEW t \in Times, Delete(k, t)
        PROVE  StorageInv'
    <2>1. CASE Live(k)
      <3>1. StampsOfVersions' /\ ListsLatest' /\ ListsHistory' /\ ListsDirectories'
        BY <1>3, <2>1, StorageDelete DEF Delete, Tombstone
      <3>2. TypeOK'
        BY <1>0, <1>3, <2>1 DEF Delete, Tombstone, ClockReads, TypeOK
      <3> QED BY <3>1, <3>2 DEF StorageInv
    <2>2. CASE ~Live(k)
      <3>1. TypeOK'
        BY <1>0, <1>3, <2>2 DEF Delete, ClockReads, TypeOK
      <3> QED BY <1>3, <2>2, <3>1, StorageSame DEF Delete, StorageInv
    <2> QED BY <2>1, <2>2
  <1>4. CASE UNCHANGED vars
    <2>1. TypeOK'
      BY <1>0, <1>4 DEF vars, TypeOK
    <2> QED BY <1>4, <2>1, StorageSame DEF vars, StorageInv
  <1> QED BY <1>1, <1>2, <1>3, <1>4 DEF Next

\* The invariant of the three maps, under any clock.
THEOREM StorageInvariant == Spec => []StorageInv
  BY StorageInit, StorageStep, PTL DEF Spec

\* The type of the maps, for any keys, values and clock readings.
THEOREM StorageTypeCorrect == Spec => []TypeOK
  <1>1. StorageInv => TypeOK
    BY DEF StorageInv
  <1> QED BY <1>1, StorageInvariant, PTL

\* The listing of a directory is exact: every live key in its current version.
THEOREM LatestCorrect == Spec => []ListsLatest
  <1>1. StorageInv => ListsLatest
    BY DEF StorageInv
  <1> QED BY <1>1, StorageInvariant, PTL

\* The history of a directory is exact: every version ever stored.
THEOREM HistoryCorrect == Spec => []ListsHistory
  <1>1. StorageInv => ListsHistory
    BY DEF StorageInv
  <1> QED BY <1>1, StorageInvariant, PTL

\* The directory entries are exact, and no key's entry is mistaken for one.
THEOREM DirectoriesCorrect == Spec => []ListsDirectories
  <1>1. StorageInv => ListsDirectories
    BY DEF StorageInv
  <1> QED BY <1>1, StorageInvariant, PTL

-------------------------------------------------------------------------------
(* The three maps are a key-value store.                                   *)

\* A read after a put sees the new value under that key, the old ones under
\* the others.
LEMMA ReadAfterPut ==
    ASSUME StorageInv, NEW k \in Keys, NEW v \in Values, NEW t \in Times, Put(k, v, t)
    PROVE  [l \in Keys |-> Read(l)]' = [[l \in Keys |-> Read(l)] EXCEPT ![k] = v]
  <1> USE StampFacts
  <1>0. TypeOK
    BY DEF StorageInv
  <1>1. /\ stamp'[k] = t /\ \A l \in Keys : l # k => stamp'[l] = stamp[l]
        /\ value'[<<k, t>>] = v
        /\ \A e \in Keys \X Stamps : e # <<k, t>> => value'[e] = value[e]
        /\ v # NoValue
    BY <1>0, PutFacts
  <1>2. Read(k)' = v
    BY <1>1 DEF Read, Live, Stored
  <1>3. ASSUME NEW l \in Keys, l # k PROVE Read(l)' = Read(l)
    BY <1>0, <1>1, <1>3 DEF Read, Live, Stored, TypeOK
  <1> QED BY <1>2, <1>3

\* Each call does to the current values what the abstract store allows.
LEMMA StoreStep ==
    ASSUME StorageInv, [Next]_vars
    PROVE  [Abstract!Next]_(Abstract!vars)
  <1> USE StampFacts
  <1>0. TypeOK
    BY DEF StorageInv
  <1> DEFINE current == [l \in Keys |-> Read(l)]
  <1>1. \A k \in Keys : Live(k) <=> current[k] # NoValue
    BY DEF Read, Live, Stored
  <1>2. UNCHANGED <<value, stamp>> => current' = current
    BY DEF Read, Live, Stored
  <1>3. ASSUME NEW k \in Keys, NEW v \in Values, NEW t \in Times, Create(k, v, t)
        PROVE  Abstract!Create(k, v)
    <2>1. CASE Creatable(k)
      <3>1. Put(k, v, t) /\ ~Live(k) /\ reply' = <<"create", k, v>>
        BY <1>3, <2>1 DEF Create, Creatable
      <3>2. current' = [current EXCEPT ![k] = v]
        BY <3>1, ReadAfterPut
      <3> QED BY <1>1, <3>1, <3>2 DEF Abstract!Create
    <2>2. CASE ~Creatable(k)
      <3>1. Live(k) /\ reply' = <<"exists", k, NoValue>> /\ UNCHANGED <<value, stamp>>
        BY <1>3, <2>2 DEF Create, Creatable
      <3> QED BY <1>1, <1>2, <3>1 DEF Abstract!Create
    <2> QED BY <2>1, <2>2
  <1>4. ASSUME NEW k \in Keys, NEW v \in Values, NEW t \in Times, Update(k, v, t)
        PROVE  Abstract!Update(k, v)
    BY <1>4, ReadAfterPut DEF Update, Abstract!Update
  <1>5. ASSUME NEW k \in Keys, NEW t \in Times, Delete(k, t)
        PROVE  Abstract!Delete(k)
    <2>1. CASE Live(k)
      <3>1. /\ stamp' = [stamp EXCEPT ![k] = Seconds(t)]
            /\ value' = value /\ reply' = <<"delete", k, NoValue>>
        BY <1>5, <2>1 DEF Delete, Tombstone
      <3>2. ~Stored(k, Seconds(t)) /\ t \in Times
        BY DEF StorageInv, StampsOfVersions
      <3>3. Read(k)' = NoValue
        BY <1>0, <3>1, <3>2 DEF Read, Live, Stored, TypeOK
      <3>4. ASSUME NEW l \in Keys, l # k PROVE Read(l)' = Read(l)
        BY <1>0, <3>1, <3>4 DEF Read, Live, Stored, TypeOK
      <3>5. current' = [current EXCEPT ![k] = NoValue]
        BY <3>3, <3>4
      <3> QED BY <1>1, <2>1, <3>1, <3>5 DEF Abstract!Delete
    <2>2. CASE ~Live(k)
      <3>1. reply' = <<"missing", k, NoValue>> /\ UNCHANGED <<value, stamp>>
        BY <1>5, <2>2 DEF Delete
      <3> QED BY <1>1, <1>2, <2>2, <3>1 DEF Abstract!Delete
    <2> QED BY <2>1, <2>2
  <1>6. CASE UNCHANGED vars
    BY <1>2, <1>6 DEF vars, Abstract!vars
  <1> QED BY <1>3, <1>4, <1>5, <1>6 DEF Next, Abstract!Next

\* Reads, creates, updates and deletes of a core's storage behave as one value
\* per key, although deleting leaves the versions and a new timestamp.
THEOREM StoreImplemented == Spec => ImplementsStore
  <1>1. Init => Abstract!Init
    BY DEF Init, Abstract!Init, Read, Live
  <1>2. StorageInv /\ [Next]_vars => [Abstract!Next]_(Abstract!vars)
    BY StoreStep
  <1> QED BY <1>1, <1>2, StorageInvariant, PTL DEF Spec, ImplementsStore, Abstract!Spec

-------------------------------------------------------------------------------
(* With a clock that always advances, key paths are never used twice.      *)

\* No version is newer than the last reading of the clock.
NotAhead ==
    \A k \in Keys : \A t \in Stamps : Stored(k, t) =>
        /\ t <= now
        /\ stamp[k] \in Times => t <= stamp[k]

\* A new version gets a reading that no version has yet, so it replaces none.
LEMMA AheadStep ==
    ASSUME Monotonic, StorageInv, NotAhead, [Next]_vars
    PROVE  /\ NotAhead'
           /\ \A e \in Keys \X Stamps : value[e] # NoValue => value'[e] = value[e]
  <1> USE StampFacts
  <1>0. TypeOK /\ Stamps \subseteq Nat /\ now \in Nat
    <2>1. \A t \in Times : Seconds(t) \in Nat
      BY ClockAssumption DEF Seconds
    <2>2. Stamps \subseteq Nat
      BY <2>1, ClockAssumption DEF Stamps
    <2> QED BY <2>2, ClockAssumption DEF StorageInv, TypeOK
  <1>1. ASSUME NEW k \in Keys, NEW v \in Values, NEW t \in Times, Put(k, v, t), ClockReads(t)
        PROVE  /\ NotAhead'
               /\ \A e \in Keys \X Stamps : value[e] # NoValue => value'[e] = value[e]
    <2>1. /\ stamp'[k] = t /\ \A l \in Keys : l # k => stamp'[l] = stamp[l]
          /\ value'[<<k, t>>] = v
          /\ \A e \in Keys \X Stamps : e # <<k, t>> => value'[e] = value[e]
          /\ t > now /\ now' = t
      BY <1>0, <1>1, PutFacts DEF ClockReads
    <2>2. ~Stored(k, t)
      <3>1. t \in Stamps /\ t \in Nat
        BY <1>0 DEF Stamps
      <3>2. Stored(k, t) => t <= now
        BY <3>1 DEF NotAhead
      <3> QED BY <1>0, <2>1, <3>1, <3>2
    <2>3. \A e \in Keys \X Stamps : value[e] # NoValue => value'[e] = value[e]
      BY <2>1, <2>2 DEF Stored
    <2>4. ASSUME NEW l \in Keys, NEW u \in Stamps, Stored(l, u)'
          PROVE  u <= now' /\ (stamp'[l] \in Times => u <= stamp'[l])
      <3>1. CASE l = k /\ u = t
        BY <1>0, <2>1, <3>1
      <3>2. CASE ~(l = k /\ u = t)
        <4>1. Stored(l, u)
          BY <2>1, <2>4, <3>2 DEF Stored
        <4>2. u <= now /\ (stamp[l] \in Times => u <= stamp[l])
          BY <4>1 DEF NotAhead
        <4> QED BY <1>0, <2>1, <4>2
      <3> QED BY <3>1, <3>2
    <2> QED BY <2>3, <2>4 DEF NotAhead
  <1>2. ASSUME UNCHANGED value, now' >= now, now' \in Nat,
               \A k \in Keys : stamp'[k] \in Times => stamp'[k] = stamp[k]
        PROVE  /\ NotAhead'
               /\ \A e \in Keys \X Stamps : value[e] # NoValue => value'[e] = value[e]
    <2>1. ASSUME NEW l \in Keys, NEW u \in Stamps, Stored(l, u)'
          PROVE  u <= now' /\ (stamp'[l] \in Times => u <= stamp'[l])
      <3>1. u <= now /\ (stamp[l] \in Times => u <= stamp[l])
        BY <1>2, <2>1 DEF NotAhead, Stored
      <3> QED BY <1>0, <1>2, <3>1
    <2> QED BY <1>2, <2>1 DEF NotAhead
  <1>3. ASSUME NEW k \in Keys, NEW v \in Values, NEW t \in Times, Create(k, v, t)
        PROVE  /\ NotAhead'
               /\ \A e \in Keys \X Stamps : value[e] # NoValue => value'[e] = value[e]
    <2>1. CASE Creatable(k)
      BY <1>1, <1>3, <2>1 DEF Create
    <2>2. CASE ~Creatable(k)
      BY <1>0, <1>2, <1>3, <2>2 DEF Create, ClockReads
    <2> QED BY <2>1, <2>2
  <1>4. ASSUME NEW k \in Keys, NEW v \in Values, NEW t \in Times, Update(k, v, t)
        PROVE  /\ NotAhead'
               /\ \A e \in Keys \X Stamps : value[e] # NoValue => value'[e] = value[e]
    BY <1>1, <1>4 DEF Update
  <1>5. ASSUME NEW k \in Keys, NEW t \in Times, Delete(k, t)
        PROVE  /\ NotAhead'
               /\ \A e \in Keys \X Stamps : value[e] # NoValue => value'[e] = value[e]
    <2>1. value' = value /\ now' = t /\ t > now /\ t \in Nat
      BY <1>0, <1>5 DEF Delete, ClockReads
    <2>2. \A l \in Keys : stamp'[l] \in Times => stamp'[l] = stamp[l]
      BY <1>0, <1>5 DEF Delete, Tombstone, TypeOK
    <2> QED BY <1>0, <1>2, <2>1, <2>2
  <1>6. CASE UNCHANGED vars
    BY <1>0, <1>2, <1>6 DEF vars
  <1> QED BY <1>3, <1>4, <1>5, <1>6 DEF Next

\* Versions carry readings of the past, if the clock advances.
THEOREM AheadInvariant == ASSUME Monotonic PROVE Spec => []NotAhead
  <1>1. Init => NotAhead
    BY DEF Init, NotAhead, Stored
  <1>2. StorageInv /\ NotAhead /\ [Next]_vars => NotAhead'
    BY AheadStep
  <1> QED BY <1>1, <1>2, StorageInvariant, PTL DEF Spec

\* A key path a user holds keeps naming the same value, if the clock advances.
THEOREM VersionsCorrect == ASSUME Monotonic PROVE Spec => VersionsKept
  <1>1. StorageInv /\ NotAhead /\ [Next]_vars
          => [\A e \in Keys \X Stamps : value[e] # NoValue => value'[e] = value[e]]_vars
    BY AheadStep
  <1> QED BY <1>1, StorageInvariant, AheadInvariant, PTL DEF Spec, VersionsKept

\* The current version of a key is its newest, if the clock advances.
THEOREM NewestCorrect == ASSUME Monotonic PROVE Spec => []CurrentIsNewest
  <1>1. StorageInv /\ NotAhead => CurrentIsNewest
    BY StampFacts DEF StorageInv, StampsOfVersions, TypeOK, NotAhead, CurrentIsNewest, Live
  <1> QED BY <1>1, StorageInvariant, AheadInvariant, PTL
===============================================================================
