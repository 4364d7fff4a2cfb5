----------------------------- MODULE BasicStorage -----------------------------
(***************************************************************************)
(* The in-memory storage of a core (src/src/storage/basic.rs).  Each       *)
(* operation holds the write lock of the three maps throughout, and is one *)
(* action.                                                                 *)
(*                                                                         *)
(* A key {user}::{a}:{b} is the sequence <<user, a, b>>; a key path, and   *)
(* an entry of a listing, is a pair <<key, timestamp>>.  An entry is only  *)
(* ever put into the sets of its own directory, so that one set of entries *)
(* stands for the sets of all prefixes.                                    *)
(***************************************************************************)
EXTENDS Integers, Sequences

CONSTANTS Segments,        \* user ids and the parts of key names between colons
          Keys,            \* the keys in use
          Values, NoValue,
          Times,           \* what Utc::now().timestamp_nanos() may return
          NanosPerSecond,
          Monotonic        \* no reading of the clock repeats or precedes another

\* The same instant in seconds is what delete stores.
Seconds(t) == t \div NanosPerSecond

ASSUME KeysAssumption ==
    Keys \subseteq Seq(Segments) /\ \A k \in Keys : Len(k) > 1
ASSUME ValuesAssumption == NoValue \notin Values
ASSUME FlagAssumption == Monotonic \in BOOLEAN

\* Real readings lie some 10^18 after the epoch: neither a reading nor its
\* second is 0, the code's word for "never", and no second is a reading.
ASSUME ClockAssumption ==
    /\ NanosPerSecond \in Nat \ {0} /\ Times \subseteq Nat \ {0}
    /\ \A t, u \in Times : Seconds(t) # 0 /\ Seconds(t) # u

VARIABLES value,      \* key_path_to_value
          stamp,      \* key_name_to_timestamp, 0 for a key it does not hold
          latest,     \* prefix_to_key_paths.0
          history,    \* prefix_to_key_paths.1
          now,        \* the last reading of the clock
          reply       \* what the last call did, to which key, with which value

vars == <<value, stamp, latest, history, now, reply>>

Stamps == Times \cup {Seconds(t) : t \in Times}

Parent(k) == SubSeq(k, 1, Len(k) - 1)

\* The directories a key lies in, below the user's root.
Directories(k) == {SubSeq(k, 1, i) : i \in 2 .. Len(k) - 1}

AllDirectories == UNION {Directories(k) : k \in Keys}

TypeOK ==
    /\ value \in [Keys \X Stamps -> Values \cup {NoValue}]
    /\ stamp \in [Keys -> Stamps \cup {0}]
    /\ latest \subseteq (Keys \X Stamps) \cup (AllDirectories \X {0})
    /\ history \subseteq (Keys \X Stamps) \cup (AllDirectories \X {0})
    /\ now \in Times \cup {0}
    /\ reply \in {"none", "create", "update", "delete", "exists", "missing"}
                   \X (Keys \cup {<<>>}) \X (Values \cup {NoValue})

Init ==
    /\ value = [e \in Keys \X Stamps |-> NoValue]
    /\ stamp = [k \in Keys |-> 0]
    /\ latest = {}
    /\ history = {}
    /\ now = 0
    /\ reply = <<"none", <<>>, NoValue>>

-------------------------------------------------------------------------------
Stored(k, t) == value[<<k, t>>] # NoValue

\* The key is known, and its timestamp leads to a value.
Live(k) == stamp[k] # 0 /\ Stored(k, stamp[k])

\* read_from_key_names
Read(k) == IF Live(k) THEN value[<<k, stamp[k]>>] ELSE NoValue

\* list_keys
ListKeys(dir, include_history) ==
    {e \in IF include_history THEN history ELSE latest : Parent(e[1]) = dir}

\* Mutant: two calls may read the same instant.
ClockReadsStalled(t) == t \in Times /\ t >= now /\ now' = t

\* Mutant: the clock may be set back.
ClockReadsAny(t) == t \in Times /\ now' = t

\* A reading of the clock.
ClockReads(t) ==
    /\ t \in Times
    /\ Monotonic => t > now
    /\ now' = t

\* _maintain_prefixes_along_path
PrefixesAlongPath(k) == {<<d, 0>> : d \in Directories(k)}

FirstPrefixes(k) == IF stamp[k] = 0 THEN PrefixesAlongPath(k) ELSE {}

\* Mutant: the version that an update replaces stays in the listing.
OldEntryKept(k) == {}

\* Mutant: the test for a key that was never stored is missing.
OldEntryUnchecked(k) == {<<k, stamp[k]>>}

\* The entry of the version that is replaced or deleted.
OldEntry(k) == IF stamp[k] = 0 THEN {} ELSE {<<k, stamp[k]>>}

\* Mutant: an update takes the replaced version out of the history, too.
PutForgetting(k, v, t) ==
    /\ value' = [value EXCEPT ![<<k, t>>] = v]
    /\ stamp' = [stamp EXCEPT ![k] = t]
    /\ history' = ((history \cup FirstPrefixes(k)) \ OldEntry(k)) \cup {<<k, t>>}

\* The new version is stored and becomes the current one.
Put(k, v, t) ==
    /\ value' = [value EXCEPT ![<<k, t>>] = v]
    /\ stamp' = [stamp EXCEPT ![k] = t]
    /\ history' = history \cup FirstPrefixes(k) \cup {<<k, t>>}

Creatable(k) == ~Live(k)

Create(k, v, t) ==
    /\ ClockReads(t)
    /\ IF Creatable(k)
       THEN /\ Put(k, v, t)
            /\ latest' = latest \cup FirstPrefixes(k) \cup {<<k, t>>}
            /\ reply' = <<"create", k, v>>
       ELSE /\ reply' = <<"exists", k, NoValue>>
            /\ UNCHANGED <<value, stamp, latest, history>>

Update(k, v, t) ==
    /\ ClockReads(t)
    /\ Put(k, v, t)
    /\ latest' = ((latest \cup FirstPrefixes(k)) \ OldEntry(k)) \cup {<<k, t>>}
    /\ reply' = <<"update", k, v>>

\* Mutant: the stamp of the deleted version stays.
TombstoneMissing(k, t) == stamp[k]

Tombstone(k, t) == Seconds(t)

Delete(k, t) ==
    /\ ClockReads(t)
    /\ IF Live(k)
       THEN /\ stamp' = [stamp EXCEPT ![k] = Tombstone(k, t)]
            /\ latest' = latest \ OldEntry(k)
            /\ reply' = <<"delete", k, NoValue>>
       ELSE /\ reply' = <<"missing", k, NoValue>>
            /\ UNCHANGED <<stamp, latest>>
    /\ UNCHANGED <<value, history>>

Next == \E k \in Keys, t \in Times :
            Delete(k, t) \/ \E v \in Values : Create(k, v, t) \/ Update(k, v, t)

Spec == Init /\ [][Next]_vars

-------------------------------------------------------------------------------
(* What has to hold.                                                       *)

Current(k) == <<k, stamp[k]>>

\* Listing a directory without its history shows the current version of each
\* live key in it, and no older version and no deleted key.
ListsLatest ==
    {e \in latest : e[2] # 0} = {Current(k) : k \in {l \in Keys : Live(l)}}

\* The history lists every version that can still be read, deleted ones too.
ListsHistory ==
    {e \in history : e[2] # 0} = {e \in Keys \X Stamps : value[e] # NoValue}

\* A directory is listed in its parent, in both listings and for good, as
\* soon as a key below it has been stored; a key of the same name does
\* not interfere.
ListsDirectories ==
    \A d \in AllDirectories :
        LET used == \E k \in Keys : stamp[k] # 0 /\ d \in Directories(k)
        IN  (<<d, 0>> \in latest <=> used) /\ (<<d, 0>> \in history <=> used)

\* A key path, once handed out, names one value for ever.
VersionsKept ==
    [][\A e \in Keys \X Stamps : value[e] # NoValue => value'[e] = value[e]]_vars

\* The timestamp of a live key is the largest of its versions.
CurrentIsNewest ==
    \A k \in Keys : Live(k) => \A t \in Stamps : Stored(k, t) => t <= stamp[k]

\* The three maps together are one current value per key, and each call does to
\* it what it replies.
Abstract == INSTANCE KeyValueStore WITH current <- [k \in Keys |-> Read(k)]

ImplementsStore == Abstract!Spec
===============================================================================
