------------------------------ MODULE ChangeFeed ------------------------------
(***************************************************************************)
(* What the readers of a key rely on, who follow its versions from a start *)
(* on: each version is owed to a reader from the moment it is stored, or   *)
(* the reader begins to follow, until it is delivered; or else the writer  *)
(* is told that it failed.  An exact feed delivers nothing else, so that   *)
(* it delivers nothing twice.                                              *)
(***************************************************************************)
EXTENDS Integers, Sequences

CONSTANTS Readers, Starts

VARIABLES
    exact,      \* whether only what is owed is delivered; it never changes
    log,        \* the versions of the key, "put" or "delete"
    failed,     \* the versions of writers that were told of an error
    following,  \* the readers
    start,      \* [Readers -> the version a reader follows from]
    owed,       \* [Readers -> the versions it has still to get]
    feed        \* [Readers -> the versions it got, in order]

vars == <<exact, log, failed, following, start, owed, feed>>

Init ==
    /\ exact \in BOOLEAN
    /\ log = <<>> /\ failed = {} /\ following = {}
    /\ start = [r \in Readers |-> 0]
    /\ owed = [r \in Readers |-> {}]
    /\ feed = [r \in Readers |-> <<>>]

Got(r) == {feed[r][i] : i \in 1 .. Len(feed[r])}
Old(t) == {n \in 1 .. Len(log) : log[n] = "put" /\ n >= t}

\* Only what is there can be deleted.
Store(kind) ==
    /\ kind = "delete" => log # <<>> /\ log[Len(log)] = "put"
    /\ log' = Append(log, kind)
    /\ owed' = [r \in Readers |-> IF r \in following THEN owed[r] \cup {Len(log')} ELSE owed[r]]
    /\ UNCHANGED <<exact, failed, following, start, feed>>

\* Of what is stored the reader is owed the values; a feed that is not exact may
\* have given it some already, and may bring others.
Follow(r, t) ==
    /\ r \notin following
    /\ following' = following \cup {r}
    /\ start' = [start EXCEPT ![r] = t]
    /\ owed' = [owed EXCEPT ![r] = owed'[r]]
    /\ feed' = [feed EXCEPT ![r] = feed'[r]]
    /\ Old(t) \subseteq owed'[r] \cup Got(r)'
    /\ exact => owed'[r] = Old(t) /\ feed'[r] = <<>>
    /\ UNCHANGED <<exact, log, failed>>

Give(n, R) ==
    /\ n \in 1 .. Len(log)
    /\ R \subseteq following
    /\ exact => \A r \in R : n \in owed[r]
    /\ feed' = [r \in Readers |-> IF r \in R THEN Append(feed[r], n) ELSE feed[r]]

Deliver(n, R) ==
    /\ Give(n, R)
    /\ owed' = [r \in Readers |-> IF r \in R THEN owed[r] \ {n} ELSE owed[r]]
    /\ UNCHANGED <<exact, log, failed, following, start>>

\* The writer fails, when some readers may have got the version.
Abort(n, R) ==
    /\ Give(n, R)
    /\ owed' = [r \in Readers |-> owed[r] \ {n}]
    /\ failed' = failed \cup {n}
    /\ UNCHANGED <<exact, log, following, start>>

Leave(r) ==
    /\ following' = following \ {r}
    /\ start' = [start EXCEPT ![r] = 0]
    /\ owed' = [owed EXCEPT ![r] = {}]
    /\ feed' = [feed EXCEPT ![r] = <<>>]
    /\ UNCHANGED <<exact, log, failed>>

Next ==
    \/ \E kind \in {"put", "delete"} : Store(kind)
    \/ \E r \in Readers : Leave(r) \/ \E t \in Starts : Follow(r, t)
    \/ \E n \in 1 .. Len(log), R \in SUBSET following : Deliver(n, R) \/ Abort(n, R)

Spec == Init /\ [][Next]_vars
===============================================================================
