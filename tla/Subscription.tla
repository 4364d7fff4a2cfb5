---------------------------- MODULE Subscription ----------------------------
(***************************************************************************)
(* The change notifications of one storage key: StorageWithMQSubscription  *)
(* (src/src/subscription/mq.rs) over a broker (src/src/mq).  Writers take  *)
(* the lock shared, a subscriber takes it exclusively, unsubscribing takes *)
(* no lock; the two maps have mutexes of their own, held for one step.     *)
(*                                                                         *)
(* A version of the key, and its timestamp, is its position in the log of  *)
(* the storage.  A queue is everything the broker ever put into it.        *)
(***************************************************************************)
EXTENDS Integers, Sequences, FiniteSets

CONSTANTS Writers,         \* requests that create, update or delete the key
          Subscribers,     \* subscriptions; each has a queue of its own
          Starts,          \* the start_timestamps they ask for
          MaxVersions,     \* bound on the log
          Brokers,         \* the brokers the core may be configured with
          Faulty,          \* calls to the broker may fail
          Strangers        \* unsubscribe is also called by users without the right

ASSUME BrokerAssumption == Brokers \subseteq {"redis", "rabbitmq"}
ASSUME BoundAssumption == MaxVersions \in Nat /\ Starts \subseteq Int
ASSUME SubscribersAssumption == IsFiniteSet(Subscribers) /\ "key" \notin Subscribers
ASSUME FlagAssumption == {Faulty, Strangers} \subseteq BOOLEAN

VARIABLES
    broker,      \* the broker of this core; it never changes
    directory,   \* whether other keys lie below this one; nor does that
    log,         \* the versions stored: "put", or "delete" for a tombstone
    count,       \* key_subscription_count of the key, 0 when it has no entry
    registered,  \* the queues in queue_name_to_user_id_key_name
    bound,       \* the queues the broker routes changes of the key to
    queues,      \* the queues the broker has
    queue,       \* [Subscribers -> what was put into the queue]
    wire,        \* messages a broker has been given and has not routed yet
    writer,      \* [Writers -> where the call stands]
    version,     \* [Writers -> the version it stored]
    sub,         \* [Subscribers -> where the subscription stands]
    start,       \* [Subscribers -> its start_timestamp]
    unsent       \* [Subscribers -> the stored versions it has yet to be sent]

vars == <<broker, directory, log, count, registered, bound, queues, queue, wire,
          writer, version, sub, start, unsent>>

config == <<broker, directory>>
routing == <<bound, queues, queue, wire>>
books == <<count, registered>>

Versions == 1 .. MaxVersions
Messages == [kind : {"in-storage", "change"}, version : Versions]

TypeOK ==
    /\ broker \in Brokers /\ directory \in BOOLEAN
    /\ log \in Seq({"put", "delete"}) /\ Len(log) <= MaxVersions
    /\ count \in Nat
    /\ registered \subseteq Subscribers /\ bound \subseteq Subscribers
    /\ queues \subseteq Subscribers
    /\ queue \in [Subscribers -> Seq(Messages)]
    /\ wire \subseteq [message : Messages, to : {"key"} \cup Subscribers]
    /\ writer \in [Writers -> {"idle", "check", "send", "failed"}]
    /\ version \in [Writers -> Versions \cup {0}]
    /\ sub \in [Subscribers -> {"none", "created", "locked", "bound", "replay", "done",
                                "failed", "denied", "unlisted", "uncounted", "deleted"}]
    /\ start \in [Subscribers -> Starts \cup {0}]
    /\ unsent \in [Subscribers -> SUBSET Versions]

Init ==
    /\ broker \in Brokers /\ directory \in BOOLEAN
    /\ log = <<>> /\ count = 0
    /\ registered = {} /\ bound = {} /\ queues = {} /\ wire = {}
    /\ queue = [s \in Subscribers |-> <<>>]
    /\ writer = [w \in Writers |-> "idle"]
    /\ version = [w \in Writers |-> 0]
    /\ sub = [s \in Subscribers |-> "none"]
    /\ start = [s \in Subscribers |-> 0]
    /\ unsent = [s \in Subscribers |-> {}]

-------------------------------------------------------------------------------
(* The broker, as the code uses it.                                        *)

\* The queues a message goes to: the one it names, or all bound to the key.
\* Redis appends to the stream of every entry of its routing table, whether
\* or not the stream has been deleted; RabbitMQ drops what has no queue.
Receivers(to) ==
    LET named == IF to = "key" THEN bound ELSE {to}
    IN  IF broker = "redis" THEN named ELSE named \cap queues

Put(receivers, m) ==
    /\ queue' = [s \in Subscribers |-> IF s \in receivers THEN Append(queue[s], m)
                                                          ELSE queue[s]]
    /\ queues' = queues \cup receivers

\* publish_message: Redis has stored the message when the call returns;
\* RabbitMQ, asked for no confirmation, may route it later.
Publish(to, m) ==
    \/ broker = "redis" /\ Put(Receivers(to), m) /\ UNCHANGED <<bound, wire>>
    \/ /\ broker = "rabbitmq"
       /\ wire' = wire \cup {[message |-> m, to |-> to]}
       /\ UNCHANGED <<bound, queues, queue>>

Route(x) ==
    /\ Put(Receivers(x.to), x.message)
    /\ wire' = wire \ {x}
    /\ UNCHANGED <<config, log, books, bound, writer, version, sub, start, unsent>>

\* A publish that fails: the loop over the streams may have begun.
PublishFails(to, m) ==
    /\ Faulty
    /\ \E some \in SUBSET Receivers(to) :
         Put(IF broker = "redis" THEN some ELSE {}, m)
    /\ UNCHANGED <<bound, wire>>

-------------------------------------------------------------------------------
(* create, update and delete                                               *)

\* Mutant: the lock is not taken by writers.
UnlockedForAll(w) == w \in Writers

\* A subscriber holds the lock exclusively.
Unlocked(w) == \A s \in Subscribers : sub[s] \notin {"locked", "bound", "replay"}

\* The shared lock is taken and the storage changed.  A delete needs a value.
Write(w, kind) ==
    /\ writer[w] = "idle"
    /\ Unlocked(w)
    /\ Len(log) < MaxVersions
    /\ kind = "delete" => log # <<>> /\ log[Len(log)] = "put"
    /\ log' = Append(log, kind)
    /\ version' = [version EXCEPT ![w] = Len(log')]
    /\ writer' = [writer EXCEPT ![w] = "check"]
    /\ UNCHANGED <<config, books, routing, sub, start, unsent>>

\* publish_change: is anybody subscribed?
Check(w) ==
    /\ writer[w] = "check"
    /\ writer' = [writer EXCEPT ![w] = IF count > 0 THEN "send" ELSE "idle"]
    /\ UNCHANGED <<config, log, books, routing, version, sub, start, unsent>>

Change(w) == [kind |-> "change", version |-> version[w]]

\* The change is published and the lock released.
Send(w) ==
    /\ writer[w] = "send"
    /\ Publish("key", Change(w))
    /\ writer' = [writer EXCEPT ![w] = "idle"]
    /\ UNCHANGED <<config, log, books, version, sub, start, unsent>>

\* The caller gets an error, although the storage has changed.
SendFails(w) ==
    /\ writer[w] = "send"
    /\ PublishFails("key", Change(w))
    /\ writer' = [writer EXCEPT ![w] = "failed"]
    /\ UNCHANGED <<config, log, books, version, sub, start, unsent>>

-------------------------------------------------------------------------------
(* subscribe                                                               *)

\* create_queue, and queue_bind of the queue to its own name.
CreateQueue(s, t) ==
    /\ sub[s] = "none"
    /\ sub' = [sub EXCEPT ![s] = "created"]
    /\ start' = [start EXCEPT ![s] = t]
    /\ queues' = queues \cup {s}
    /\ UNCHANGED <<config, log, books, bound, queue, wire, writer, version, unsent>>

\* Mutant: the lock is taken while a writer that holds it is about to publish.
NoReaderUnsent == \A w \in Writers : writer[w] # "check"

\* No writer holds the lock.
NoReader == \A w \in Writers : writer[w] \in {"idle", "failed"}

\* The lock is taken, and the subscription entered into the two maps.
Lock(s) ==
    /\ sub[s] = "created"
    /\ NoReader
    /\ \A r \in Subscribers : sub[r] \notin {"locked", "bound", "replay"}
    /\ sub' = [sub EXCEPT ![s] = "locked"]
    /\ count' = count + 1
    /\ registered' = registered \cup {s}
    /\ UNCHANGED <<config, log, routing, writer, version, start, unsent>>

\* queue_bind of the queue to the routing key.
Bind(s) ==
    /\ sub[s] = "locked"
    /\ sub' = [sub EXCEPT ![s] = "bound"]
    /\ bound' = bound \cup {s}
    /\ UNCHANGED <<config, log, books, queues, queue, wire, writer, version, start, unsent>>

\* Mutant: versions after the start only.
OldVersionsAfter(s) == {n \in 1 .. Len(log) : log[n] = "put" /\ n > start[s]}

OldVersions(s) == {n \in 1 .. Len(log) : log[n] = "put" /\ n >= start[s]}

\* list_keys and read_from_key_paths.  The listing of a key that is also a
\* directory holds the entry with timestamp 0, which cannot be read: the
\* call fails, and leaves what it has entered and bound.
List(s) ==
    /\ sub[s] = "bound"
    /\ IF directory /\ start[s] <= 0
       THEN /\ sub' = [sub EXCEPT ![s] = "failed"]
            /\ UNCHANGED unsent
       ELSE /\ sub' = [sub EXCEPT ![s] = "replay"]
            /\ unsent' = [unsent EXCEPT ![s] = OldVersions(s)]
    /\ UNCHANGED <<config, log, books, routing, writer, version, start>>

\* The stored versions are sent in any order.
Replay(s, n) ==
    /\ sub[s] = "replay"
    /\ n \in unsent[s]
    /\ Publish(s, [kind |-> "in-storage", version |-> n])
    /\ unsent' = [unsent EXCEPT ![s] = @ \ {n}]
    /\ UNCHANGED <<config, log, books, writer, version, sub, start>>

\* The lock is released and the name of the queue returned.
Subscribed(s) ==
    /\ sub[s] = "replay"
    /\ unsent[s] = {}
    /\ sub' = [sub EXCEPT ![s] = "done"]
    /\ UNCHANGED <<config, log, books, routing, writer, version, start, unsent>>

\* A `?` after a call to the broker.
SubscribeFails(s) ==
    /\ Faulty
    /\ sub[s] \in {"locked", "replay"}
    /\ sub' = [sub EXCEPT ![s] = "failed"]
    /\ UNCHANGED <<config, log, books, routing, writer, version, start, unsent>>

-------------------------------------------------------------------------------
(* unsubscribe, which takes no lock                                        *)

\* The entry of the queue is removed first; then the right is checked.
Unregister(s) ==
    /\ sub[s] = "done"
    /\ s \in registered
    /\ registered' = registered \ {s}
    /\ \/ sub' = [sub EXCEPT ![s] = "unlisted"]
       \/ Strangers /\ sub' = [sub EXCEPT ![s] = "denied"]
    /\ UNCHANGED <<config, log, count, routing, writer, version, start, unsent>>

\* Mutant: the last entry is removed for every subscription that ends.
CountAfterAll(n) == 0

CountAfter(n) == n - 1

Uncount(s) ==
    /\ sub[s] = "unlisted"
    /\ count > 0
    /\ count' = CountAfter(count)
    /\ sub' = [sub EXCEPT ![s] = "uncounted"]
    /\ UNCHANGED <<config, log, registered, routing, writer, version, start, unsent>>

\* RabbitMQ drops the bindings of a queue with it; the routing table that the
\* code keeps for Redis stays as it is.
BindingsAfter(s) ==
    /\ bound' = IF broker = "redis" THEN bound ELSE bound \ {s}
    /\ queues' = queues \ {s}

DeleteQueue(s) ==
    /\ sub[s] = "uncounted"
    /\ sub' = [sub EXCEPT ![s] = "deleted"]
    /\ BindingsAfter(s)
    /\ queue' = [queue EXCEPT ![s] = <<>>]
    /\ UNCHANGED <<config, log, books, wire, writer, version, start, unsent>>

-------------------------------------------------------------------------------
WriterStep(w) == Check(w) \/ Send(w) \/ SendFails(w) \/ \E kind \in {"put", "delete"} : Write(w, kind)

Subscribing(s) ==
    \/ Lock(s) \/ Bind(s) \/ List(s) \/ Subscribed(s) \/ SubscribeFails(s)
    \/ \E t \in Starts : CreateQueue(s, t)
    \/ \E n \in unsent[s] : Replay(s, n)

Unsubscribing(s) == Unregister(s) \/ Uncount(s) \/ DeleteQueue(s)

Next == \/ \E w \in Writers : WriterStep(w)
        \/ \E s \in Subscribers : Subscribing(s) \/ Unsubscribing(s)
        \/ \E x \in wire : Route(x)

Spec == Init /\ [][Next]_vars

-------------------------------------------------------------------------------
(* What has to hold.                                                       *)

\* Whoever has been told the name of the queue and has not ended the
\* subscription; a denied attempt to end it does not.
Active(s) == sub[s] \in {"done", "denied"}

Occurrences(s, n) == Cardinality({i \in 1 .. Len(queue[s]) : queue[s][i].version = n})

\* The writer of version n has not published it yet, or could not.
Unpublished(n) == \E w \in Writers : version[w] = n /\ writer[w] # "idle"

\* From its start on a subscription of a Redis stream misses no version and
\* gets none twice, whether it was stored before, while or after subscribing.
\* Deletions from before are not sent, nor is a change whose writer was told of
\* an error.
EveryVersionOnce ==
    broker = "redis" =>
        \A s \in Subscribers : Active(s) =>
            \A n \in 1 .. Len(log) :
                /\ Occurrences(s, n) <= 1
                /\ (log[n] = "put" /\ n >= start[s] /\ ~Unpublished(n))
                      => Occurrences(s, n) = 1

\* With Redis the stored versions come before the changes.
StoredFirst ==
    broker = "redis" =>
        \A s \in Subscribers : Active(s) =>
            \A i, j \in 1 .. Len(queue[s]) :
                (queue[s][i].kind = "in-storage" /\ queue[s][j].kind = "change") => i < j

\* RabbitMQ may route late, so that a version may be sent twice, but no version
\* from the start on is lost.
NothingLost ==
    \A s \in Subscribers : Active(s) =>
        \A n \in 1 .. Len(log) :
            (log[n] = "put" /\ n >= start[s] /\ ~Unpublished(n)) =>
                \/ Occurrences(s, n) > 0
                \/ \E x \in wire : x.message.version = n /\ x.to \in {"key", s}

\* The count by which writers decide to publish is the number of subscriptions
\* in the other map, and of those that were taken out of it but not counted
\* down: while the call is between the two steps, and for ever if it was denied.
CountIsExact ==
    count = Cardinality(registered)
              + Cardinality({s \in Subscribers : sub[s] \in {"unlisted", "denied"}})

-------------------------------------------------------------------------------
(* The subscriptions of a key as a feed of its versions.                   *)

\* From the listing of the stored versions on, until the end is asked for.
Following(s) == sub[s] = "replay" \/ Active(s)

Received(s) == {queue[s][i].version : i \in 1 .. Len(queue[s])}

\* On its way to s: still to be sent by its own call, to be published by a
\* writer, or on the wire.
Underway(s) ==
    unsent[s]
      \cup {version[w] : w \in {v \in Writers : writer[v] \in {"check", "send"}}}
      \cup {x.message.version : x \in {y \in wire : y.to \in {"key", s}}}

Followers == {s \in Subscribers : Following(s)}
Failed == {version[w] : w \in {v \in Writers : writer[v] = "failed"}}

From(s) == IF Following(s) THEN start[s] ELSE 0
Owing(s) == IF Following(s) THEN Underway(s) \ Received(s) ELSE {}
Fed(s) == IF Following(s) THEN [i \in 1 .. Len(queue[s]) |-> queue[s][i].version] ELSE <<>>

Feed == INSTANCE ChangeFeed WITH
    Readers <- Subscribers,
    exact <- broker = "redis",
    failed <- Failed,
    following <- Followers,
    start <- [s \in Subscribers |-> From(s)],
    owed <- [s \in Subscribers |-> Owing(s)],
    feed <- [s \in Subscribers |-> Fed(s)]

\* Whatever fails, a subscription gets each version from its start on, those
\* stored before and those stored while it is set up included, unless the
\* writer is told of an error; over Redis it gets nothing else.
ImplementsFeed == Feed!Spec
===============================================================================
