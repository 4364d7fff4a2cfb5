-------------------------- MODULE SubscriptionProofs --------------------------
(***************************************************************************)
(* Proofs about Subscription, for any number of writers, subscriptions and *)
(* versions, with either broker and with or without failing calls.         *)
(***************************************************************************)
EXTENDS Subscription, FiniteSetTheorems, TLAPS

\* A subscription that holds the lock exclusively.
Locks(s) == sub[s] \in {"locked", "bound", "replay"}

\* Version n is in the queue of s, or on its way there.
Got(s, n) == \E i \in 1 .. Len(queue[s]) : queue[s][i].version = n
Coming(s, n) == \E x \in wire : x.message.version = n /\ x.to \in {"key", s}

\* What publishing does to the queues and the wire.
LEMMA PutQueues ==
    ASSUME TypeOK, NEW receivers \in SUBSET Subscribers, NEW m \in Messages, Put(receivers, m)
    PROVE  /\ queue' \in [Subscribers -> Seq(Messages)]
           /\ queues' \subseteq Subscribers
           /\ \A s \in receivers : s \in queues' /\ queue'[s] = Append(queue[s], m)
           /\ \A s \in Subscribers \ receivers :
                (s \in queues' <=> s \in queues) /\ queue'[s] = queue[s]
  BY DEF Put, TypeOK

\* Only subscriptions receive a message.
LEMMA ReceiversType ==
    ASSUME TypeOK, NEW to \in {"key"} \cup Subscribers
    PROVE  Receivers(to) \in SUBSET Subscribers
  BY DEF Receivers, TypeOK

\* There are two brokers.
LEMMA BrokerValues == TypeOK => broker \in {"redis", "rabbitmq"}
  BY BrokerAssumption DEF TypeOK

\* A publish, even one that fails, keeps the types, the bindings, and the queues
\* and messages that are there.
LEMMA PublishType ==
    ASSUME TypeOK, NEW to \in {"key"} \cup Subscribers, NEW m \in Messages,
           Publish(to, m) \/ PublishFails(to, m)
    PROVE  /\ queue' \in [Subscribers -> Seq(Messages)]
           /\ queues' \subseteq Subscribers /\ queues \subseteq queues'
           /\ bound' = bound
           /\ wire' \subseteq [message : Messages, to : {"key"} \cup Subscribers]
           /\ wire \subseteq wire'
  <1>1. CASE Publish(to, m) /\ broker = "redis"
    BY <1>1, PutQueues, ReceiversType DEF Publish, TypeOK, Put
  <1>2. CASE Publish(to, m) /\ broker # "redis"
    BY <1>2 DEF Publish, TypeOK
  <1>3. CASE PublishFails(to, m)
    <2>1. PICK r \in SUBSET Subscribers : Put(r, m)
      BY <1>3, ReceiversType DEF PublishFails
    <2>2. UNCHANGED <<bound, wire>>
      BY <1>3 DEF PublishFails
    <2> QED BY <2>1, <2>2, PutQueues DEF TypeOK, Put
  <1> QED BY <1>1, <1>2, <1>3

\* A writer that has stored its version knows which one it is.
WritersKnow ==
    \A w \in Writers : /\ version[w] <= Len(log)
                       /\ writer[w] # "idle" => version[w] # 0

TypeInv == TypeOK /\ WritersKnow

\* The change of a writer that has stored a version is a message.
LEMMA ChangeType == ASSUME TypeInv, NEW w \in Writers, writer[w] # "idle" PROVE Change(w) \in Messages
  BY DEF TypeInv, TypeOK, WritersKnow, Change, Messages, Versions

\* The initial state has its type.
LEMMA TypeInitial == Init => TypeInv
  BY BoundAssumption, FlagAssumption DEF Init, TypeInv, TypeOK, WritersKnow, Versions

\* Every step keeps the type of the state and what the writers know.
LEMMA TypeStep == TypeInv /\ [Next]_vars => TypeInv'
  <1> SUFFICES ASSUME TypeInv, [Next]_vars PROVE TypeInv'
    OBVIOUS
  <1>0. TypeOK /\ WritersKnow
    BY DEF TypeInv
  <1> USE DEF config, books, routing
  <1>1. ASSUME NEW w \in Writers, NEW kind \in {"put", "delete"}, Write(w, kind) PROVE TypeInv'
    <2>1. /\ Len(log') = Len(log) + 1 /\ Len(log') \in Versions
          /\ log' \in Seq({"put", "delete"}) /\ Len(log') <= MaxVersions
      BY <1>0, <1>1, BoundAssumption DEF Write, TypeOK, Versions
    <2>2. TypeOK'
      BY <1>0, <1>1, <2>1 DEF Write, TypeOK
    <2>3. WritersKnow'
      BY <1>0, <1>1, <2>1, BoundAssumption DEF Write, TypeOK, WritersKnow, Versions
    <2> QED BY <2>2, <2>3 DEF TypeInv
  <1>2. ASSUME NEW w \in Writers, Check(w) PROVE TypeInv'
    BY <1>0, <1>2 DEF Check, TypeInv, TypeOK, WritersKnow
  <1>3. ASSUME NEW w \in Writers, Send(w) \/ SendFails(w) PROVE TypeInv'
    <2>1. Change(w) \in Messages
      BY <1>3, ChangeType DEF Send, SendFails
    <2>2. TypeOK'
      BY <1>0, <1>3, <2>1, PublishType DEF Send, SendFails, TypeOK
    <2>3. WritersKnow'
      BY <1>0, <1>3 DEF Send, SendFails, TypeOK, WritersKnow
    <2> QED BY <2>2, <2>3 DEF TypeInv
  <1>4. ASSUME NEW s \in Subscribers, NEW t \in Starts, CreateQueue(s, t) PROVE TypeInv'
    BY <1>0, <1>4 DEF CreateQueue, TypeOK, TypeInv, WritersKnow
  <1>5. ASSUME NEW s \in Subscribers, Lock(s) \/ Bind(s) \/ List(s) \/ Subscribed(s) \/ SubscribeFails(s)
        PROVE TypeInv'
    <2>1. CASE Lock(s)
      BY <1>0, <2>1 DEF Lock, TypeOK, TypeInv, WritersKnow
    <2>2. CASE Bind(s)
      BY <1>0, <2>2 DEF Bind, TypeOK, TypeInv, WritersKnow
    <2>3. CASE List(s)
      <3>1. OldVersions(s) \in SUBSET Versions
        BY <1>0, BoundAssumption DEF OldVersions, TypeOK, Versions
      <3>2. /\ UNCHANGED <<broker, directory, log, count, registered, bound, queues, queue, wire,
                          writer, version, start>>
            /\ \E phase \in {"failed", "replay"} : sub' = [sub EXCEPT ![s] = phase]
            /\ unsent' = unsent \/ unsent' = [unsent EXCEPT ![s] = OldVersions(s)]
        BY <2>3 DEF List
      <3>3. TypeOK'
        BY <1>0, <3>1, <3>2 DEF TypeOK
      <3>4. WritersKnow'
        BY <1>0, <3>2 DEF WritersKnow
      <3> QED BY <3>3, <3>4 DEF TypeInv
    <2>4. CASE Subscribed(s)
      BY <1>0, <2>4 DEF Subscribed, TypeOK, TypeInv, WritersKnow
    <2>5. CASE SubscribeFails(s)
      BY <1>0, <2>5 DEF SubscribeFails, TypeOK, TypeInv, WritersKnow
    <2> QED BY <1>5, <2>1, <2>2, <2>3, <2>4, <2>5
  <1>6. ASSUME NEW s \in Subscribers, NEW n \in unsent[s], Replay(s, n) PROVE TypeInv'
    <2>1. [kind |-> "in-storage", version |-> n] \in Messages
      BY <1>0 DEF TypeOK, Messages
    <2> QED BY <1>0, <1>6, <2>1, PublishType DEF Replay, TypeOK, TypeInv, WritersKnow
  <1>7. ASSUME NEW s \in Subscribers, Unregister(s) \/ Uncount(s) PROVE TypeInv'
    <2>1. CASE Unregister(s)
      BY <1>0, <2>1 DEF Unregister, TypeOK, TypeInv, WritersKnow
    <2>2. CASE Uncount(s)
      BY <1>0, <2>2 DEF Uncount, CountAfter, TypeOK, TypeInv, WritersKnow
    <2> QED BY <1>7, <2>1, <2>2
  <1>8. ASSUME NEW s \in Subscribers, DeleteQueue(s) PROVE TypeInv'
    BY <1>0, <1>8 DEF DeleteQueue, BindingsAfter, TypeOK, TypeInv, WritersKnow
  <1>9. ASSUME NEW x \in wire, Route(x) PROVE TypeInv'
    <2>1. x.message \in Messages /\ x.to \in {"key"} \cup Subscribers
      BY <1>0 DEF TypeOK
    <2> QED BY <1>0, <1>9, <2>1, PutQueues, ReceiversType DEF Route, TypeOK, TypeInv, WritersKnow
  <1>10. CASE UNCHANGED vars
    BY <1>0, <1>10 DEF vars, TypeOK, TypeInv, WritersKnow
  <1> QED BY <1>1, <1>2, <1>3, <1>4, <1>5, <1>6, <1>7, <1>8, <1>9, <1>10
          DEF Next, WriterStep, Subscribing, Unsubscribing

\* The type of the state, and what its writers know, at every time.
THEOREM TypeCorrect == Spec => []TypeOK
  <1>1. TypeInv => TypeOK
    BY DEF TypeInv
  <1> QED BY <1>1, TypeInitial, TypeStep, PTL DEF Spec

-------------------------------------------------------------------------------
(* The two books of the subscriptions.                                     *)

Owed == {s \in Subscribers : sub[s] \in {"unlisted", "denied"}}

BooksOK ==
    \A s \in Subscribers : /\ sub[s] \in {"none", "created"} => s \notin registered
                           /\ Locks(s) \/ sub[s] = "done" => s \in registered

CountInv == BooksOK /\ CountIsExact

\* Steps that change neither book.
LEMMA BooksFrame ==
    ASSUME TypeOK, CountInv, UNCHANGED books,
           \A s \in Subscribers :
               /\ sub'[s] \in {"unlisted", "denied"} <=> sub[s] \in {"unlisted", "denied"}
               /\ sub'[s] \in {"none", "created"} => sub[s] \in {"none", "created"}
               /\ (Locks(s) \/ sub[s] = "done")' => (Locks(s) \/ sub[s] = "done")
    PROVE  CountInv'
  <1>1. Owed' = Owed
    BY DEF Owed
  <1>2. CountIsExact'
    BY <1>1 DEF CountInv, CountIsExact, Owed, books
  <1> QED BY <1>2 DEF CountInv, BooksOK, books

\* Every step keeps the count exact.
LEMMA CountStep == TypeOK /\ CountInv /\ [Next]_vars => CountInv'
  <1> SUFFICES ASSUME TypeOK, CountInv, [Next]_vars PROVE CountInv'
    OBVIOUS
  <1>0. /\ BooksOK /\ count = Cardinality(registered) + Cardinality(Owed)
        /\ IsFiniteSet(registered) /\ IsFiniteSet(Owed)
        /\ Cardinality(registered) \in Nat /\ Cardinality(Owed) \in Nat
    <2>1. registered \subseteq Subscribers /\ Owed \subseteq Subscribers
      BY DEF TypeOK, Owed
    <2>2. IsFiniteSet(registered) /\ IsFiniteSet(Owed)
      BY <2>1, SubscribersAssumption, FS_Subset
    <2> QED BY <2>2, FS_CardinalityType DEF CountInv, CountIsExact, Owed
  <1>c. CountIsExact' <=> count' = Cardinality(registered') + Cardinality(Owed')
    BY DEF CountIsExact, Owed
  <1>1. ASSUME NEW s \in Subscribers, Lock(s) PROVE CountInv'
    <2>1. /\ sub[s] = "created" /\ s \notin registered
          /\ sub' = [sub EXCEPT ![s] = "locked"]
          /\ count' = count + 1
          /\ registered' = registered \cup {s}
      BY <1>0, <1>1 DEF Lock, BooksOK, NoReader
    <2>2. Owed' = Owed
      BY <2>1 DEF Owed, TypeOK
    <2>3. Cardinality(registered') = Cardinality(registered) + 1
      BY <1>0, <2>1, FS_AddElement
    <2>4. CountIsExact'
      BY <1>0, <1>c, <2>1, <2>2, <2>3
    <2> QED BY <1>0, <2>1, <2>4 DEF CountInv, BooksOK, TypeOK, Locks
  <1>2. ASSUME NEW s \in Subscribers, Unregister(s) PROVE CountInv'
    <2>1. /\ sub[s] = "done" /\ s \in registered
          /\ \E phase \in {"unlisted", "denied"} : sub' = [sub EXCEPT ![s] = phase]
          /\ count' = count
          /\ registered' = registered \ {s}
      BY <1>2 DEF Unregister
    <2>2. Owed' = Owed \cup {s} /\ s \notin Owed
      BY <2>1 DEF Owed, TypeOK
    <2>3. /\ Cardinality(registered') = Cardinality(registered) - 1
          /\ Cardinality(Owed') = Cardinality(Owed) + 1
      BY <1>0, <2>1, <2>2, FS_AddElement, FS_RemoveElement
    <2>4. CountIsExact'
      BY <1>0, <1>c, <2>1, <2>3
    <2> QED BY <1>0, <2>1, <2>4 DEF CountInv, BooksOK, TypeOK, Locks
  <1>3. ASSUME NEW s \in Subscribers, Uncount(s) PROVE CountInv'
    <2>1. /\ sub[s] = "unlisted" /\ sub' = [sub EXCEPT ![s] = "uncounted"]
          /\ count' = count - 1 /\ registered' = registered
      BY <1>3 DEF Uncount, CountAfter
    <2>2. Owed' = Owed \ {s} /\ s \in Owed
      BY <2>1 DEF Owed, TypeOK
    <2>3. Cardinality(Owed') = Cardinality(Owed) - 1
      BY <1>0, <2>2, FS_RemoveElement
    <2>4. CountIsExact'
      BY <1>0, <1>c, <2>1, <2>3
    <2> QED BY <1>0, <2>1, <2>4 DEF CountInv, BooksOK, TypeOK, Locks
  <1>4. ASSUME NEW w \in Writers, WriterStep(w) PROVE CountInv'
    BY <1>4, BooksFrame DEF WriterStep, Check, Send, SendFails, Write, Locks
  <1>5. ASSUME NEW s \in Subscribers, NEW t \in Starts, CreateQueue(s, t) PROVE CountInv'
    BY <1>5, BooksFrame DEF CreateQueue, TypeOK, Locks
  <1>6. ASSUME NEW s \in Subscribers,
               Bind(s) \/ List(s) \/ Subscribed(s) \/ SubscribeFails(s) \/ DeleteQueue(s)
        PROVE  CountInv'
    <2>1. /\ UNCHANGED books
          /\ Locks(s) \/ sub[s] = "uncounted"
          /\ \E phase \in {"bound", "replay", "failed", "done", "deleted"} :
               /\ sub' = [sub EXCEPT ![s] = phase]
               /\ phase # "deleted" => Locks(s)
               /\ phase = "deleted" => sub[s] = "uncounted"
      BY <1>6 DEF Bind, List, Subscribed, SubscribeFails, DeleteQueue, Locks
    <2> QED BY <2>1, BooksFrame DEF TypeOK, Locks
  <1>7. ASSUME NEW s \in Subscribers, NEW n \in unsent[s], Replay(s, n) PROVE CountInv'
    BY <1>7, BooksFrame DEF Replay, Locks
  <1>8. ASSUME NEW x \in wire, Route(x) PROVE CountInv'
    BY <1>8, BooksFrame DEF Route, books, Locks
  <1>9. CASE UNCHANGED vars
    BY <1>9, BooksFrame DEF vars, books, Locks
  <1> QED BY <1>1, <1>2, <1>3, <1>4, <1>5, <1>6, <1>7, <1>8, <1>9
          DEF Next, Subscribing, Unsubscribing

\* At first nobody is subscribed and the count is 0.
LEMMA CountInitial == Init => CountInv
  <1> SUFFICES ASSUME Init PROVE CountInv
    OBVIOUS
  <1>1. Owed = {} /\ registered = {} /\ count = 0
    BY DEF Init, Owed
  <1>2. Cardinality({}) = 0
    BY FS_EmptySet
  <1>3. CountIsExact <=> count = Cardinality(registered) + Cardinality(Owed)
    BY DEF CountIsExact, Owed
  <1>4. CountIsExact
    BY <1>1, <1>2, <1>3
  <1> QED BY <1>4 DEF Init, CountInv, BooksOK, Locks

\* The count by which writers decide to publish agrees with the other map,
\* for any number of subscriptions that come, fail, end and are denied.
THEOREM CountCorrect == Spec => []CountIsExact
  <1>1. CountInv => CountIsExact
    BY DEF CountInv
  <1>2. TypeInv => TypeOK
    BY DEF TypeInv
  <1> QED BY <1>1, <1>2, TypeInitial, TypeStep, CountInitial, CountStep, PTL DEF Spec

-------------------------------------------------------------------------------
(* No version is lost.                                                     *)

Listening(s) == sub[s] = "replay" \/ Active(s)
Reached(s, n) == Got(s, n) \/ Coming(s, n)
Due(s, n) == Unpublished(n) \/ n \in unsent[s] \/ Reached(s, n)

\* While a subscriber has the lock no writer is under way.
LockOK == \A s \in Subscribers : Locks(s) => NoReader

\* The queue of a subscription is there from its start on, and bound to the key
\* before the old versions are listed.
BoundOK ==
    \A s \in Subscribers :
        /\ sub[s] \in {"created", "locked"} => s \in queues
        /\ sub[s] = "bound" \/ Listening(s) => s \in bound /\ s \in queues

\* What the subscription is owed it has, will be sent by its own call, or will
\* be sent by the writer.
HeldOK ==
    \A s \in Subscribers :
        /\ Active(s) => unsent[s] = {}
        /\ Listening(s) =>
             \A n \in 1 .. Len(log) : log[n] = "put" /\ n >= start[s] => Due(s, n)

CoverInv == LockOK /\ BoundOK /\ HeldOK

\* Writers know of everybody who is subscribed.
LEMMA ActiveCounted ==
    ASSUME TypeOK, CountInv, NEW s \in Subscribers, Active(s)
    PROVE  count > 0
  <1>1. /\ registered \subseteq Subscribers /\ Owed \subseteq Subscribers
        /\ s \in registered \/ s \in Owed
    BY DEF TypeOK, Owed, Active, CountInv, BooksOK
  <1>2. IsFiniteSet(registered) /\ IsFiniteSet(Owed)
    BY <1>1, SubscribersAssumption, FS_Subset
  <1>3. /\ Cardinality(registered) \in Nat /\ Cardinality(Owed) \in Nat
        /\ Cardinality(registered) # 0 \/ Cardinality(Owed) # 0
    BY <1>1, <1>2, FS_CardinalityType, FS_EmptySet
  <1>4. count = Cardinality(registered) + Cardinality(Owed)
    BY DEF CountInv, CountIsExact, Owed
  <1> QED BY <1>3, <1>4

\* Publishing takes nothing from a queue or the wire ...
LEMMA PutKeeps ==
    ASSUME TypeOK, NEW receivers \in SUBSET Subscribers, NEW m \in Messages, Put(receivers, m),
           NEW s \in Subscribers
    PROVE  /\ \A n : Got(s, n) => Got(s, n)'
           /\ s \in receivers => Got(s, m.version)'
  <1>1. queue[s] \in Seq(Messages)
    BY DEF TypeOK
  <1>2. CASE s \in receivers
    <2>1. queue'[s] = Append(queue[s], m)
      BY <1>2, PutQueues
    <2>2. /\ Len(queue'[s]) = Len(queue[s]) + 1
          /\ \A i \in 1 .. Len(queue[s]) : queue'[s][i] = queue[s][i]
          /\ queue'[s][Len(queue[s]) + 1] = m
      BY <1>1, <2>1
    <2>3. Len(queue[s]) \in Nat
      BY <1>1
    <2>4. ASSUME NEW n, Got(s, n) PROVE Got(s, n)'
      <3>1. PICK i \in 1 .. Len(queue[s]) : queue[s][i].version = n
        BY <2>4 DEF Got
      <3>2. i \in 1 .. Len(queue'[s]) /\ queue'[s][i].version = n
        BY <2>2, <2>3, <3>1
      <3> QED BY <3>2 DEF Got
    <2>5. Len(queue[s]) + 1 \in 1 .. Len(queue'[s])
      BY <2>2, <2>3
    <2>6. Got(s, m.version)'
      BY <2>2, <2>5 DEF Got
    <2> QED BY <2>4, <2>6
  <1>3. CASE s \notin receivers
    <2>1. queue'[s] = queue[s]
      BY <1>3, PutQueues
    <2> QED BY <1>3, <2>1 DEF Got
  <1> QED BY <1>2, <1>3

\* What has reached a subscription stays there when more is published.
LEMMA PublishKeeps ==
    ASSUME TypeOK, NEW to \in {"key"} \cup Subscribers, NEW m \in Messages,
           Publish(to, m) \/ PublishFails(to, m), NEW s \in Subscribers
    PROVE  \A n : Reached(s, n) => Reached(s, n)'
  <1>1. CASE Publish(to, m) /\ broker = "redis"
    BY <1>1, PutKeeps, ReceiversType DEF Publish, Reached, Coming
  <1>2. CASE Publish(to, m) /\ broker # "redis"
    BY <1>2 DEF Publish, Reached, Coming, Got
  <1>3. CASE PublishFails(to, m)
    <2>1. PICK r \in SUBSET Subscribers : Put(r, m)
      BY <1>3, ReceiversType DEF PublishFails
    <2>2. UNCHANGED wire
      BY <1>3 DEF PublishFails
    <2> QED BY <2>1, <2>2, PutKeeps DEF Reached, Coming
  <1> QED BY <1>1, <1>2, <1>3

\* ... and what is published has reached whom it is for.
LEMMA PublishReaches ==
    ASSUME TypeOK, NEW to \in {"key"} \cup Subscribers, NEW m \in Messages, Publish(to, m),
           NEW s \in Subscribers, to = s \/ (to = "key" /\ s \in bound)
    PROVE  Reached(s, m.version)'
  <1>1. CASE broker = "redis"
    BY <1>1, PutKeeps, ReceiversType, SubscribersAssumption DEF Publish, Receivers, Reached
  <1>2. CASE broker # "redis"
    <2>1. [message |-> m, to |-> to] \in wire'
      BY <1>2 DEF Publish
    <2> QED BY <2>1 DEF Reached, Coming
  <1> QED BY <1>1, <1>2

\* What is routed reaches a bound queue, and nothing leaves one.
LEMMA RouteKeeps ==
    ASSUME TypeOK, NEW x \in wire, Route(x), NEW s \in Subscribers, s \in bound, s \in queues
    PROVE  \A n : Reached(s, n) => Reached(s, n)'
  <1>1. x.message \in Messages /\ x.to \in {"key"} \cup Subscribers
    BY DEF TypeOK
  <1>2. Put(Receivers(x.to), x.message) /\ wire' = wire \ {x}
    BY DEF Route
  <1>3. x.to \in {"key", s} => s \in Receivers(x.to)
    BY SubscribersAssumption DEF Receivers
  <1>4. \A n : Got(s, n) => Got(s, n)'
    BY <1>1, <1>2, PutKeeps, ReceiversType
  <1>5. ASSUME NEW n, Coming(s, n) PROVE Reached(s, n)'
    <2>1. PICK y \in wire : y.message.version = n /\ y.to \in {"key", s}
      BY <1>5 DEF Coming
    <2>2. CASE y = x
      BY <1>1, <1>2, <1>3, <2>1, <2>2, PutKeeps, ReceiversType DEF Reached
    <2>3. CASE y # x
      BY <1>2, <2>1, <2>3 DEF Reached, Coming
    <2> QED BY <2>2, <2>3
  <1> QED BY <1>4, <1>5 DEF Reached

\* Steps after which everybody who listens has listened before.
LEMMA HeldFrame ==
    ASSUME TypeOK, HeldOK, log' = log,
           \A s \in Subscribers :
               /\ Active(s)' => unsent'[s] = {}
               /\ Listening(s)' =>
                    /\ Listening(s) /\ start'[s] = start[s]
                    /\ \A n \in 1 .. Len(log) : Due(s, n) => Due(s, n)'
    PROVE  HeldOK'
  BY DEF HeldOK, Listening, Active

\* The steps of a writer: a version it stores is due until it is published, and
\* nobody is subscribed when it finds that nobody is.
LEMMA WriterHeld ==
    ASSUME TypeInv, CountInv, CoverInv, NEW w \in Writers, WriterStep(w)
    PROVE  HeldOK'
  <1>0. TypeOK /\ LockOK /\ BoundOK /\ HeldOK
    BY DEF TypeInv, CoverInv
  <1>1. UNCHANGED <<sub, start, unsent>> /\ \A s \in Subscribers : Active(s)' = Active(s)
    BY DEF WriterStep, Write, Check, Send, SendFails, Active
  <1>2. ASSUME NEW kind \in {"put", "delete"}, Write(w, kind) PROVE HeldOK'
    <2>1. /\ Len(log') = Len(log) + 1 /\ Len(log) \in Nat
          /\ \A n \in 1 .. Len(log) : log'[n] = log[n]
      BY <1>0, <1>2 DEF Write, TypeOK
    <2>2. /\ UNCHANGED <<queue, wire>>
          /\ writer[w] = "idle" /\ writer' = [writer EXCEPT ![w] = "check"]
          /\ version' = [version EXCEPT ![w] = Len(log')]
      BY <1>2 DEF Write, routing
    <2>3. \A n : Unpublished(n) => Unpublished(n)'
      BY <1>0, <2>2 DEF Unpublished, TypeOK
    <2>4. \A n : n = Len(log) + 1 => Unpublished(n)'
      BY <1>0, <2>1, <2>2 DEF Unpublished, TypeOK
    <2>5. \A s \in Subscribers, n \in 1 .. Len(log) : Due(s, n) => Due(s, n)'
      BY <1>1, <2>2, <2>3 DEF Due, Reached, Got, Coming
    <2> SUFFICES ASSUME NEW s \in Subscribers, Listening(s)',
                        NEW n \in 1 .. Len(log'), log'[n] = "put", n >= start'[s]
                 PROVE  Due(s, n)'
      BY <1>0, <1>1 DEF HeldOK, Active
    <2>6. CASE n = Len(log) + 1
      BY <2>4, <2>6 DEF Due
    <2>7. CASE n \in 1 .. Len(log)
      BY <1>0, <1>1, <2>1, <2>5, <2>7 DEF HeldOK, Listening
    <2> QED BY <2>1, <2>6, <2>7
  <1>3. ASSUME Check(w) PROVE HeldOK'
    <2>1. CASE count > 0
      <3>1. /\ UNCHANGED <<log, version, queue, wire>> /\ writer[w] = "check"
            /\ writer' = [writer EXCEPT ![w] = "send"]
        BY <1>3, <2>1 DEF Check, routing
      <3>2. \A n : Unpublished(n) => Unpublished(n)'
        BY <1>0, <3>1 DEF Unpublished, TypeOK
      <3>3. \A s \in Subscribers, n \in 1 .. Len(log) : Due(s, n) => Due(s, n)'
        BY <1>1, <3>1, <3>2 DEF Due, Reached, Got, Coming
      <3> QED BY <1>0, <1>1, <3>1, <3>3, HeldFrame DEF Listening, HeldOK
    <2>2. CASE ~(count > 0)
      <3>1. \A s \in Subscribers : ~Active(s)
        BY <1>0, <2>2, ActiveCounted
      <3>2. ~NoReader
        BY <1>3 DEF Check, NoReader
      <3>3. \A s \in Subscribers : ~Listening(s)
        BY <1>0, <3>1, <3>2 DEF Listening, LockOK, Locks
      <3> QED BY <1>1, <3>1, <3>3 DEF HeldOK, Listening
    <2> QED BY <2>1, <2>2
  <1>4. ASSUME Send(w) \/ SendFails(w) PROVE HeldOK'
    <2>1. /\ Publish("key", Change(w)) \/ PublishFails("key", Change(w))
          /\ UNCHANGED <<log, version>> /\ writer[w] = "send"
          /\ \/ Publish("key", Change(w)) /\ writer' = [writer EXCEPT ![w] = "idle"]
             \/ writer' = [writer EXCEPT ![w] = "failed"]
      BY <1>4 DEF Send, SendFails
    <2>2. Change(w) \in Messages /\ Change(w).version = version[w]
      BY <2>1, ChangeType DEF Change
    <2>3. \A s \in Subscribers, n \in Nat : Reached(s, n) => Reached(s, n)'
      BY <1>0, <2>1, <2>2, PublishKeeps
    <2>4. \A s \in Subscribers, n \in Nat :
            s \in bound /\ Unpublished(n) => Unpublished(n)' \/ Reached(s, n)'
      <3>1. CASE Publish("key", Change(w)) /\ writer' = [writer EXCEPT ![w] = "idle"]
        <4>1. \A n : \A s \in Subscribers : s \in bound /\ n = version[w] => Reached(s, n)'
          BY <1>0, <2>2, <3>1, PublishReaches
        <4>2. \A n : Unpublished(n) => n = version[w] \/ Unpublished(n)'
          BY <1>0, <2>1, <3>1 DEF Unpublished, TypeOK
        <4> QED BY <4>1, <4>2
      <3>2. CASE writer' = [writer EXCEPT ![w] = "failed"]
        BY <1>0, <2>1, <3>2 DEF Unpublished, TypeOK
      <3> QED BY <2>1, <3>1, <3>2
    <2>5. \A s \in Subscribers : Listening(s) => s \in bound
      BY <1>0 DEF BoundOK
    <2>6. ASSUME NEW s \in Subscribers, Listening(s), NEW n \in 1 .. Len(log), Due(s, n)
          PROVE  Due(s, n)'
      BY <1>1, <2>3, <2>4, <2>5, <2>6 DEF Due
    <2> QED BY <1>0, <1>1, <2>1, <2>6, HeldFrame DEF Listening, HeldOK
  <1> QED BY <1>2, <1>3, <1>4 DEF WriterStep

\* Steps that only change what is said of a subscription.
LEMMA QuietHeld ==
    ASSUME TypeOK, HeldOK, NEW s \in Subscribers,
           UNCHANGED <<log, queue, wire, writer, version>>,
           \A r \in Subscribers \ {s} :
               sub'[r] = sub[r] /\ start'[r] = start[r] /\ unsent'[r] = unsent[r],
           Listening(s)' => Listening(s) /\ start'[s] = start[s] /\ unsent'[s] = unsent[s],
           Active(s)' => unsent'[s] = {}
    PROVE  HeldOK'
  <1>1. \A n : Unpublished(n)' = Unpublished(n) /\ \A r \in Subscribers : Reached(r, n)' = Reached(r, n)
    BY DEF Unpublished, Reached, Got, Coming
  <1>2. \A r \in Subscribers : Active(r)' => unsent'[r] = {}
    BY DEF Active, HeldOK
  <1>3. ASSUME NEW r \in Subscribers, Listening(r)'
        PROVE  /\ Listening(r) /\ start'[r] = start[r]
               /\ \A n \in 1 .. Len(log) : Due(r, n) => Due(r, n)'
    BY <1>1, <1>3 DEF Due, Listening, Active
  <1> QED BY <1>2, <1>3, HeldFrame

\* The steps of a subscription and of its end.
LEMMA SubscriberHeld ==
    ASSUME TypeInv, CoverInv, NEW s \in Subscribers, Subscribing(s) \/ Unsubscribing(s)
    PROVE  HeldOK'
  <1>0. TypeOK /\ LockOK /\ BoundOK /\ HeldOK
    BY DEF TypeInv, CoverInv
  <1> USE DEF routing
  <1>1. ASSUME NEW t \in Starts, CreateQueue(s, t) PROVE HeldOK'
    BY <1>0, <1>1, QuietHeld DEF CreateQueue, TypeOK, Listening, Active
  <1>2. CASE Lock(s) \/ Bind(s) \/ SubscribeFails(s)
    BY <1>0, <1>2, QuietHeld DEF Lock, Bind, SubscribeFails, TypeOK, Listening, Active
  <1>3. CASE Subscribed(s)
    BY <1>0, <1>3, QuietHeld DEF Subscribed, TypeOK, Listening, Active
  <1>4. CASE Unregister(s)
    <2>1. unsent[s] = {}
      BY <1>0, <1>4 DEF Unregister, HeldOK, Active
    <2> QED BY <1>0, <1>4, <2>1, QuietHeld DEF Unregister, TypeOK, Listening, Active
  <1>5. CASE Uncount(s)
    BY <1>0, <1>5, QuietHeld DEF Uncount, TypeOK, Listening, Active
  <1>6. CASE DeleteQueue(s)
    <2>1. /\ sub[s] = "uncounted" /\ sub' = [sub EXCEPT ![s] = "deleted"]
          /\ queue' = [queue EXCEPT ![s] = <<>>]
          /\ UNCHANGED <<log, wire, writer, version, start, unsent>>
      BY <1>6 DEF DeleteQueue
    <2>2. \A r \in Subscribers : Listening(r)' => r # s /\ Listening(r)
      BY <1>0, <2>1 DEF Listening, Active, TypeOK
    <2>3. \A r \in Subscribers : Active(r)' => unsent'[r] = {}
      BY <1>0, <2>1 DEF HeldOK, Active, TypeOK
    <2>4. \A r \in Subscribers : r # s => queue'[r] = queue[r]
      BY <1>0, <2>1 DEF TypeOK
    <2>5. \A n : \A r \in Subscribers : r # s /\ Due(r, n) => Due(r, n)'
      BY <2>1, <2>4 DEF Due, Unpublished, Reached, Got, Coming
    <2> QED BY <1>0, <2>1, <2>2, <2>3, <2>5, HeldFrame
  <1>7. CASE List(s)
    <2>1. CASE sub' = [sub EXCEPT ![s] = "failed"]
      BY <1>0, <1>7, <2>1, QuietHeld DEF List, TypeOK, Listening, Active
    <2>2. CASE sub' = [sub EXCEPT ![s] = "replay"]
      <3>1. /\ unsent' = [unsent EXCEPT ![s] = OldVersions(s)]
            /\ UNCHANGED <<log, queue, wire, writer, version, start>>
        BY <1>0, <1>7, <2>2 DEF List, TypeOK
      <3>2. \A n \in 1 .. Len(log) : log[n] = "put" /\ n >= start[s] => n \in unsent'[s]
        BY <1>0, <3>1 DEF OldVersions, TypeOK
      <3>3. \A n : \A r \in Subscribers : r # s /\ Due(r, n) => Due(r, n)'
        BY <1>0, <3>1 DEF Due, Unpublished, Reached, Got, Coming, TypeOK
      <3>4. \A r \in Subscribers : r # s => /\ Active(r)' = Active(r) /\ unsent'[r] = unsent[r]
                                            /\ Listening(r)' = Listening(r)
        BY <1>0, <2>2, <3>1 DEF Active, Listening, TypeOK
      <3>5. ~Active(s)'
        BY <1>0, <2>2 DEF Active, TypeOK
      <3> QED BY <1>0, <3>1, <3>2, <3>3, <3>4, <3>5 DEF HeldOK, Due
    <2> QED BY <1>7, <2>1, <2>2 DEF List
  <1>8. ASSUME NEW k \in unsent[s], Replay(s, k) PROVE HeldOK'
    <2> DEFINE m == [kind |-> "in-storage", version |-> k]
    <2>1. m \in Messages /\ m.version = k
      BY <1>0 DEF TypeOK, Messages
    <2>2. /\ Publish(s, m)
          /\ unsent' = [unsent EXCEPT ![s] = @ \ {k}]
          /\ UNCHANGED <<log, writer, version, sub, start>>
      BY <1>8 DEF Replay
    <2> HIDE DEF m
    <2>3. \A r \in Subscribers, n \in Nat : Reached(r, n) => Reached(r, n)'
      BY <1>0, <2>1, <2>2, PublishKeeps
    <2>4. Reached(s, k)'
      BY <1>0, <2>1, <2>2, PublishReaches
    <2>5. \A n : Unpublished(n) => Unpublished(n)'
      BY <2>2 DEF Unpublished
    <2>6. /\ \A r \in Subscribers : r # s => unsent'[r] = unsent[r]
          /\ unsent'[s] = unsent[s] \ {k}
      BY <1>0, <2>2 DEF TypeOK
    <2>7. ASSUME NEW r \in Subscribers, NEW n \in 1 .. Len(log), Due(r, n) PROVE Due(r, n)'
      BY <2>3, <2>4, <2>5, <2>6, <2>7 DEF Due
    <2>8. \A r \in Subscribers : /\ Listening(r)' = Listening(r)
                                 /\ Active(r)' => unsent'[r] = {}
      BY <1>0, <2>2, <2>6 DEF Listening, Active, HeldOK
    <2> QED BY <1>0, <2>2, <2>7, <2>8, HeldFrame
  <1> QED BY <1>1, <1>2, <1>3, <1>4, <1>5, <1>6, <1>7, <1>8 DEF Subscribing, Unsubscribing

\* Every step keeps what is owed held.
LEMMA HeldStep == TypeInv /\ CountInv /\ CoverInv /\ [Next]_vars => HeldOK'
  <1> SUFFICES ASSUME TypeInv, CountInv, CoverInv, [Next]_vars PROVE HeldOK'
    OBVIOUS
  <1>0. TypeOK /\ BoundOK /\ HeldOK
    BY DEF TypeInv, CoverInv
  <1>1. ASSUME NEW x \in wire, Route(x) PROVE HeldOK'
    <2>1. UNCHANGED <<log, writer, version, sub, start, unsent>>
      BY <1>1 DEF Route
    <2>2. ASSUME NEW s \in Subscribers, Listening(s), NEW n \in 1 .. Len(log), Due(s, n)
          PROVE  Due(s, n)'
      <3>1. s \in bound /\ s \in queues
        BY <1>0, <2>2 DEF BoundOK
      <3>2. Reached(s, n) => Reached(s, n)'
        BY <1>0, <1>1, <3>1, RouteKeeps
      <3> QED BY <2>1, <2>2, <3>2 DEF Due, Unpublished
    <2> QED BY <1>0, <2>1, <2>2, HeldFrame DEF HeldOK, Active, Listening
  <1>2. CASE UNCHANGED vars
    <2>1. UNCHANGED <<log, queue, wire, writer, version, sub, start, unsent>>
      BY <1>2 DEF vars
    <2>2. \A s \in Subscribers, n \in 1 .. Len(log) : Due(s, n)' = Due(s, n)
      BY <2>1 DEF Due, Unpublished, Reached, Got, Coming
    <2> QED BY <1>0, <2>1, <2>2, HeldFrame DEF HeldOK, Active, Listening
  <1> QED BY <1>1, <1>2, WriterHeld, SubscriberHeld DEF Next

\* Every step keeps the lock exclusive.
LEMMA LockStep == TypeOK /\ LockOK /\ [Next]_vars => LockOK'
  <1> SUFFICES ASSUME TypeOK, LockOK, [Next]_vars PROVE LockOK'
    OBVIOUS
  <1>1. ASSUME NEW w \in Writers, WriterStep(w) PROVE LockOK'
    <2>1. sub' = sub /\ \A s \in Subscribers : ~Locks(s)
      BY <1>1 DEF WriterStep, Write, Check, Send, SendFails, Unlocked, LockOK, NoReader, Locks
    <2> QED BY <2>1 DEF LockOK, Locks
  <1>2. ASSUME NEW s \in Subscribers, Subscribing(s) \/ Unsubscribing(s) PROVE LockOK'
    <2>1. /\ writer' = writer
          /\ \A r \in Subscribers : r # s => sub'[r] = sub[r]
      BY <1>2 DEF Subscribing, Unsubscribing, CreateQueue, Lock, Bind, List, Replay, Subscribed,
                  SubscribeFails, Unregister, Uncount, DeleteQueue, TypeOK
    <2>2. Locks(s)' => Locks(s) \/ NoReader
      BY <1>2 DEF Subscribing, Unsubscribing, CreateQueue, Lock, Bind, List, Replay, Subscribed,
                  SubscribeFails, Unregister, Uncount, DeleteQueue, TypeOK, Locks
    <2>3. \A r \in Subscribers : r # s => Locks(r)' = Locks(r)
      BY <2>1 DEF Locks
    <2> QED BY <2>1, <2>2, <2>3 DEF LockOK, NoReader
  <1>3. ASSUME NEW x \in wire, Route(x) PROVE LockOK'
    BY <1>3 DEF Route, LockOK, NoReader, Locks
  <1>4. CASE UNCHANGED vars
    BY <1>4 DEF vars, LockOK, NoReader, Locks
  <1> QED BY <1>1, <1>2, <1>3, <1>4 DEF Next

\* Every step keeps the queues of the subscriptions and their bindings.
LEMMA BoundStep == TypeInv /\ BoundOK /\ [Next]_vars => BoundOK'
  <1> SUFFICES ASSUME TypeInv, BoundOK, [Next]_vars PROVE BoundOK'
    OBVIOUS
  <1>0. TypeOK
    BY DEF TypeInv
  <1> USE DEF config, routing
  <1>1. ASSUME UNCHANGED <<broker, sub, bound>>, queues \subseteq queues'
        PROVE  BoundOK'
    BY <1>1 DEF BoundOK, Listening, Active
  <1>2. ASSUME NEW w \in Writers, WriterStep(w) PROVE BoundOK'
    <2>1. CASE Send(w) \/ SendFails(w)
      <3>1. /\ Publish("key", Change(w)) \/ PublishFails("key", Change(w))
            /\ UNCHANGED <<broker, sub>>
            /\ Change(w) \in Messages
        BY <2>1, ChangeType DEF Send, SendFails
      <3> QED BY <1>0, <1>1, <3>1, PublishType
    <2>2. CASE ~(Send(w) \/ SendFails(w))
      BY <1>1, <1>2, <2>2 DEF WriterStep, Write, Check
    <2> QED BY <2>1, <2>2
  <1>3. ASSUME NEW s \in Subscribers, NEW t \in Starts, CreateQueue(s, t)
        PROVE  BoundOK'
    BY <1>0, <1>3 DEF CreateQueue, TypeOK, BoundOK, Listening, Active
  <1>4. ASSUME NEW s \in Subscribers, Lock(s) \/ Bind(s) \/ List(s) \/ Subscribed(s) \/ SubscribeFails(s)
        PROVE  BoundOK'
    <2>1. /\ UNCHANGED <<broker, queues>>
          /\ \/ Bind(s) /\ bound' = bound \cup {s}
             \/ bound' = bound
          /\ \E phase \in {"locked", "bound", "replay", "done", "failed"} :
               sub' = [sub EXCEPT ![s] = phase]
      BY <1>4 DEF Lock, Bind, List, Subscribed, SubscribeFails
    <2>2. /\ sub'[s] = "locked" => sub[s] = "created"
          /\ sub'[s] = "bound" => sub[s] = "locked" /\ s \in bound'
          /\ sub'[s] = "replay" => sub[s] = "bound"
          /\ sub'[s] = "done" => sub[s] = "replay"
      BY <1>0, <1>4 DEF Lock, Bind, List, Subscribed, SubscribeFails, TypeOK
    <2> QED BY <1>0, <2>1, <2>2 DEF TypeOK, BoundOK, Listening, Active
  <1>5. ASSUME NEW s \in Subscribers, NEW k \in unsent[s], Replay(s, k)
        PROVE  BoundOK'
    <2>1. [kind |-> "in-storage", version |-> k] \in Messages
      BY <1>0 DEF TypeOK, Messages
    <2> QED BY <1>0, <1>1, <1>5, <2>1, PublishType DEF Replay
  <1>6. ASSUME NEW s \in Subscribers, Unregister(s) \/ Uncount(s)
        PROVE  BoundOK'
    BY <1>0, <1>6 DEF Unregister, Uncount, TypeOK, BoundOK, Listening, Active
  <1>7. ASSUME NEW s \in Subscribers, DeleteQueue(s) PROVE BoundOK'
    BY <1>0, <1>7 DEF DeleteQueue, BindingsAfter, TypeOK, BoundOK, Listening, Active
  <1>8. ASSUME NEW x \in wire, Route(x) PROVE BoundOK'
    <2>1. x.message \in Messages /\ x.to \in {"key"} \cup Subscribers
      BY <1>0 DEF TypeOK
    <2>2. Receivers(x.to) \in SUBSET Subscribers
      BY <1>0, <2>1, ReceiversType
    <2> QED BY <1>1, <1>8, <2>2 DEF Route, Put
  <1>9. CASE UNCHANGED vars
    BY <1>1, <1>9 DEF vars
  <1> QED BY <1>2, <1>3, <1>4, <1>5, <1>6, <1>7, <1>8, <1>9 DEF Next, Subscribing, Unsubscribing

\* At first nothing is owed.
LEMMA CoverInitial == Init => CoverInv
  BY DEF Init, CoverInv, LockOK, BoundOK, HeldOK, Locks, Listening, Active

\* Everything a subscription is owed is in its queue, on its way there, or
\* still to be sent by a call that has not returned.
THEOREM CoverInvariant == Spec => [](TypeInv /\ CountInv /\ CoverInv)
  <1>1. TypeInv /\ CountInv /\ CoverInv /\ [Next]_vars => (TypeInv /\ CountInv /\ CoverInv)'
    BY TypeStep, CountStep, HeldStep, LockStep, BoundStep DEF TypeInv, CoverInv
  <1> QED BY <1>1, TypeInitial, CountInitial, CoverInitial, PTL DEF Spec

\* What a queue has occurs in it.
LEMMA GotCounts ==
    ASSUME TypeOK, NEW s \in Subscribers, NEW n, Got(s, n)
    PROVE  Occurrences(s, n) > 0
  <1> DEFINE places == {i \in 1 .. Len(queue[s]) : queue[s][i].version = n}
  <1>1. Len(queue[s]) \in Nat
    BY DEF TypeOK
  <1>2. IsFiniteSet(1 .. Len(queue[s]))
    BY <1>1, FS_Interval
  <1>3. IsFiniteSet(places) /\ places # {}
    BY <1>2, FS_Subset DEF Got
  <1>4. Cardinality(places) \in Nat /\ Cardinality(places) # 0
    BY <1>3, FS_CardinalityType, FS_EmptySet
  <1> QED BY <1>4 DEF Occurrences

\* No subscription loses a version from its start on, however writers,
\* subscribers and those who end their subscriptions interleave, whether
\* calls to the broker fail, and however late RabbitMQ routes.
THEOREM NothingLostCorrect == Spec => []NothingLost
  <1>1. TypeInv /\ CountInv /\ CoverInv => NothingLost
    <2> SUFFICES ASSUME TypeInv, CoverInv, NEW s \in Subscribers, Active(s),
                        NEW n \in 1 .. Len(log), log[n] = "put", n >= start[s], ~Unpublished(n)
                 PROVE  Occurrences(s, n) > 0 \/ Coming(s, n)
      BY DEF NothingLost, Coming
    <2>1. Reached(s, n)
      BY DEF CoverInv, HeldOK, Listening, Due
    <2> QED BY <2>1, GotCounts DEF Reached, TypeInv
  <1> QED BY <1>1, CoverInvariant, PTL

-------------------------------------------------------------------------------
(* With Redis every version comes once, and the stored ones come first.    *)

Pending(w) == writer[w] \in {"check", "send"}

Single(s) ==
    \A i, j \in 1 .. Len(queue[s]) : queue[s][i].version = queue[s][j].version => i = j

Ordered(s) ==
    \A i, j \in 1 .. Len(queue[s]) :
        queue[s][i].kind = "in-storage" /\ queue[s][j].kind = "change" => i < j

\* A queue that nothing may have been put into yet.
Empty(s) ==
    /\ sub[s] \in {"none", "created", "locked"} => s \notin bound
    /\ sub[s] \in {"none", "created", "locked", "bound"} => queue[s] = <<>>

\* While the old versions are sent there are only such, and none of those that
\* are still to come.
Replaying(s) ==
    sub[s] = "replay" =>
        /\ \A i \in 1 .. Len(queue[s]) : queue[s][i].kind = "in-storage"
        /\ \A n \in unsent[s] : ~Got(s, n) /\ n <= Len(log)

Stored(s) == \A n : Got(s, n) => n <= Len(log)

QueueOK(s) == Single(s) /\ Ordered(s) /\ Empty(s) /\ Replaying(s) /\ Stored(s)

\* A version that a writer is about to publish is in no queue yet, and no other
\* writer is about to publish it.
PendingOK ==
    \A w \in Writers : Pending(w) =>
        /\ \A s \in Subscribers : ~Got(s, version[w])
        /\ \A v \in Writers \ {w} : Pending(v) => version[v] # version[w]

RedisInv ==
    broker = "redis" => wire = {} /\ PendingOK /\ \A s \in Subscribers : QueueOK(s)

\* One more message in a queue.
LEMMA PutOnce ==
    ASSUME TypeOK, NEW receivers \in SUBSET Subscribers, NEW m \in Messages, Put(receivers, m),
           NEW s \in Subscribers, Single(s), Ordered(s),
           s \in receivers => ~Got(s, m.version),
           s \in receivers /\ m.kind = "in-storage" =>
               \A i \in 1 .. Len(queue[s]) : queue[s][i].kind = "in-storage"
    PROVE  /\ Single(s)' /\ Ordered(s)'
           /\ \A n : Got(s, n)' <=> Got(s, n) \/ (s \in receivers /\ n = m.version)
           /\ (\A i \in 1 .. Len(queue[s]) : queue[s][i].kind = "in-storage")
              /\ m.kind = "in-storage" =>
                 \A i \in 1 .. Len(queue'[s]) : queue'[s][i].kind = "in-storage"
           /\ s \notin receivers => queue'[s] = queue[s]
  <1>1. queue[s] \in Seq(Messages) /\ Len(queue[s]) \in Nat
    BY DEF TypeOK
  <1>2. CASE s \in receivers
    <2>1. queue'[s] = Append(queue[s], m)
      BY <1>2, PutQueues
    <2>2. /\ Len(queue'[s]) = Len(queue[s]) + 1
          /\ \A i \in 1 .. Len(queue[s]) : queue'[s][i] = queue[s][i]
          /\ queue'[s][Len(queue[s]) + 1] = m
      BY <1>1, <2>1
    <2>3. \A i \in 1 .. Len(queue'[s]) : i \in 1 .. Len(queue[s]) \/ i = Len(queue[s]) + 1
      BY <1>1, <2>2
    <2>4. Single(s)'
      BY <1>1, <1>2, <2>2, <2>3 DEF Single, Got
    <2>5. Ordered(s)'
      <3> SUFFICES ASSUME NEW i \in 1 .. Len(queue'[s]), NEW j \in 1 .. Len(queue'[s]),
                          queue'[s][i].kind = "in-storage", queue'[s][j].kind = "change"
                   PROVE  i < j
        BY DEF Ordered
      <3>1. CASE j = Len(queue[s]) + 1
        BY <1>1, <2>2, <2>3, <3>1
      <3>2. CASE j \in 1 .. Len(queue[s])
        <4>1. queue[s][j].kind = "change"
          BY <2>2, <3>2
        <4>2. m.kind # "in-storage"
          BY <1>2, <3>2, <4>1
        <4>3. i \in 1 .. Len(queue[s])
          BY <2>2, <2>3, <4>2
        <4> QED BY <2>2, <3>2, <4>1, <4>3 DEF Ordered
      <3> QED BY <2>3, <3>1, <3>2
    <2>6. \A n : Got(s, n)' <=> Got(s, n) \/ n = m.version
      <3>1. ASSUME NEW n, Got(s, n)' PROVE Got(s, n) \/ n = m.version
        BY <2>2, <2>3, <3>1 DEF Got
      <3>2. ASSUME NEW n, Got(s, n) \/ n = m.version PROVE Got(s, n)'
        BY <1>1, <1>2, <3>2, PutKeeps
      <3> QED BY <3>1, <3>2
    <2> QED BY <1>2, <2>2, <2>3, <2>4, <2>5, <2>6
  <1>3. CASE s \notin receivers
    <2>1. queue'[s] = queue[s]
      BY <1>3, PutQueues
    <2> QED BY <1>3, <2>1 DEF Single, Ordered, Got
  <1> QED BY <1>2, <1>3

\* The steps of a writer put a version where it is not yet.
LEMMA RedisWriter ==
    ASSUME TypeInv, LockOK, RedisInv, broker = "redis", NEW w \in Writers, WriterStep(w)
    PROVE  wire' = {} /\ PendingOK' /\ \A s \in Subscribers : QueueOK(s)'
  <1>0. /\ TypeOK /\ WritersKnow /\ wire = {} /\ PendingOK
        /\ \A s \in Subscribers : QueueOK(s)
    BY DEF TypeInv, RedisInv
  <1>1. UNCHANGED <<sub, unsent, bound>>
    BY <1>0 DEF WriterStep, Write, Check, Send, SendFails, routing, Publish, PublishFails
  <1>2. ASSUME UNCHANGED <<queue, wire>>, Len(log') >= Len(log),
               \A v \in Writers : Pending(v)' =>
                   \/ Pending(v) /\ version'[v] = version[v]
                   \/ v = w /\ version'[v] = Len(log) + 1
        PROVE  wire' = {} /\ PendingOK' /\ \A s \in Subscribers : QueueOK(s)'
    <2>1. \A s \in Subscribers : QueueOK(s)'
      <3> SUFFICES ASSUME NEW s \in Subscribers PROVE QueueOK(s)'
        OBVIOUS
      <3>1. \A n : Got(s, n)' = Got(s, n)
        BY <1>2 DEF Got
      <3>2. Single(s)' /\ Ordered(s)' /\ Empty(s)'
        BY <1>0, <1>1, <1>2 DEF QueueOK, Single, Ordered, Empty
      <3>3. Replaying(s)'
        <4>1. /\ Replaying(s) /\ Len(log) \in Nat /\ Len(log') >= Len(log)
              /\ unsent[s] \subseteq Int
          BY <1>0, <1>2 DEF QueueOK, TypeOK, Versions
        <4>2. /\ sub'[s] = sub[s] /\ queue'[s] = queue[s] /\ unsent'[s] = unsent[s]
          BY <1>1, <1>2
        <4> QED BY <1>2, <3>1, <4>1, <4>2 DEF Replaying
      <3>4. Stored(s)'
        <4>1. \A n : Got(s, n) => n \in Nat
          <5>1. queue[s] \in Seq(Messages)
            BY <1>0 DEF TypeOK
          <5>2. \A i \in 1 .. Len(queue[s]) : queue[s][i] \in Messages
            BY <5>1
          <5> QED BY <5>2 DEF Got, Messages, Versions
        <4> QED BY <1>0, <1>2, <3>1, <4>1 DEF QueueOK, Stored, TypeOK
      <3> QED BY <3>2, <3>3, <3>4 DEF QueueOK
    <2>2. PendingOK'
      <3>1. \A v \in Writers : version[v] # Len(log) + 1
        BY <1>0 DEF WritersKnow, TypeOK, Versions
      <3>2. \A s \in Subscribers : \A n : Got(s, n)' = Got(s, n)
        BY <1>2 DEF Got
      <3>3. \A s \in Subscribers : ~Got(s, Len(log) + 1)
        BY <1>0 DEF QueueOK, Stored, TypeOK
      <3> QED BY <1>0, <1>2, <3>1, <3>2, <3>3 DEF PendingOK
    <2> QED BY <1>0, <1>2, <2>1, <2>2
  <1>3. ASSUME NEW kind \in {"put", "delete"}, Write(w, kind)
        PROVE  wire' = {} /\ PendingOK' /\ \A s \in Subscribers : QueueOK(s)'
    <2>1. /\ Len(log') = Len(log) + 1 /\ Len(log) \in Nat /\ UNCHANGED <<queue, wire>>
          /\ version' = [version EXCEPT ![w] = Len(log')]
          /\ writer' = [writer EXCEPT ![w] = "check"]
      BY <1>0, <1>3 DEF Write, TypeOK, routing
    <2> QED BY <1>0, <1>2, <2>1 DEF Pending, TypeOK
  <1>4. CASE Check(w)
    <2>1. /\ UNCHANGED <<log, queue, wire, version>> /\ writer[w] = "check"
          /\ \E phase : writer' = [writer EXCEPT ![w] = phase]
      BY <1>4 DEF Check, routing
    <2>2. \A v \in Writers : Pending(v)' => Pending(v)
      BY <1>0, <2>1 DEF Pending, TypeOK
    <2>3. Len(log) \in Nat
      BY <1>0 DEF TypeOK
    <2> QED BY <1>2, <2>1, <2>2, <2>3
  <1>5. CASE Send(w) \/ SendFails(w)
    <2> DEFINE m == Change(w)
    <2>1. /\ UNCHANGED <<log, version>> /\ writer[w] = "send"
          /\ \E phase \in {"idle", "failed"} : writer' = [writer EXCEPT ![w] = phase]
      BY <1>5 DEF Send, SendFails
    <2>2. m \in Messages /\ m.version = version[w] /\ m.kind = "change"
      BY <2>1, ChangeType DEF Change
    <2>3. PICK r \in SUBSET Subscribers : r \subseteq bound /\ Put(r, m) /\ wire' = wire
      BY <1>0, <1>5 DEF Send, SendFails, Publish, PublishFails, Receivers, TypeOK
    <2> HIDE DEF m
    <2>4. Pending(w) /\ ~NoReader
      BY <2>1 DEF Pending, NoReader
    <2>5. ASSUME NEW s \in Subscribers
          PROVE  /\ Single(s)' /\ Ordered(s)'
                 /\ \A n : Got(s, n)' <=> Got(s, n) \/ (s \in r /\ n = version[w])
                 /\ s \notin r => queue'[s] = queue[s]
      <3>1. ~Got(s, m.version)
        BY <1>0, <2>2, <2>4 DEF PendingOK
      <3>2. Single(s) /\ Ordered(s) /\ m.kind # "in-storage"
        BY <1>0, <2>2 DEF QueueOK
      <3>3. /\ Single(s)' /\ Ordered(s)'
            /\ \A n : Got(s, n)' <=> Got(s, n) \/ (s \in r /\ n = m.version)
            /\ s \notin r => queue'[s] = queue[s]
        BY <1>0, <2>2, <2>3, <3>1, <3>2, PutOnce
      <3> QED BY <2>2, <3>3
    <2>6. ASSUME NEW s \in Subscribers PROVE QueueOK(s)'
      <3>1. ~Locks(s)
        BY <2>4 DEF LockOK
      <3>2. Empty(s)'
        BY <1>0, <1>1, <2>3, <2>5, <3>1 DEF QueueOK, Empty, Locks
      <3>3. Replaying(s)'
        BY <1>1, <3>1 DEF Replaying, Locks
      <3>4. Stored(s)'
        BY <1>0, <2>1, <2>5 DEF QueueOK, Stored, WritersKnow
      <3> QED BY <2>5, <3>2, <3>3, <3>4 DEF QueueOK
    <2>7. PendingOK'
      <3>1. \A v \in Writers : Pending(v)' => v # w /\ Pending(v)
        BY <1>0, <2>1 DEF Pending, TypeOK
      <3> QED BY <1>0, <2>1, <2>4, <2>5, <3>1 DEF PendingOK
    <2> QED BY <1>0, <2>3, <2>6, <2>7
  <1> QED BY <1>3, <1>4, <1>5 DEF WriterStep

\* A step that only changes what is said of one subscription, and may empty its
\* queue or bind it.
LEMMA RedisQuiet ==
    ASSUME TypeOK, LockOK, RedisInv, broker = "redis", NEW s \in Subscribers,
           UNCHANGED <<log, wire, writer, version>>,
           \A r \in Subscribers \ {s} :
               /\ sub'[r] = sub[r] /\ unsent'[r] = unsent[r]
               /\ queue'[r] = queue[r] /\ (r \in bound' <=> r \in bound),
           queue'[s] = queue[s] \/ queue'[s] = <<>>,
           sub'[s] = "replay" =>
               /\ queue'[s] = <<>> \/ (sub[s] = "replay" /\ queue'[s] = queue[s])
               /\ \A n \in unsent'[s] : n <= Len(log) /\ ~Got(s, n)',
           Empty(s)'
    PROVE  wire' = {} /\ PendingOK' /\ \A r \in Subscribers : QueueOK(r)'
  <1>0. wire = {} /\ PendingOK /\ \A r \in Subscribers : QueueOK(r)
    BY DEF RedisInv
  <1>1. \A r \in Subscribers : \A n : Got(r, n)' => Got(r, n)
    <2> SUFFICES ASSUME NEW r \in Subscribers, NEW n, Got(r, n)' PROVE Got(r, n)
      OBVIOUS
    <2>1. queue'[r] # <<>>
      BY DEF Got
    <2> QED BY <2>1 DEF Got
  <1>2. PendingOK'
    BY <1>0, <1>1 DEF PendingOK, Pending
  <1>3. ASSUME NEW r \in Subscribers, r # s PROVE QueueOK(r)'
    BY <1>0, <1>1, <1>3 DEF QueueOK, Single, Ordered, Empty, Replaying, Stored
  <1>4. QueueOK(s)'
    <2>1. Single(s)' /\ Ordered(s)'
      BY <1>0 DEF QueueOK, Single, Ordered
    <2>2. Stored(s)'
      BY <1>0, <1>1 DEF QueueOK, Stored
    <2>3. Replaying(s)'
      BY <1>0 DEF QueueOK, Replaying
    <2> QED BY <2>1, <2>2, <2>3 DEF QueueOK
  <1> QED BY <1>0, <1>2, <1>3, <1>4

\* The stored versions are sent one after the other, none twice.
LEMMA RedisReplay ==
    ASSUME TypeInv, LockOK, RedisInv, broker = "redis", NEW s \in Subscribers,
           NEW k \in unsent[s], Replay(s, k)
    PROVE  wire' = {} /\ PendingOK' /\ \A r \in Subscribers : QueueOK(r)'
  <1> DEFINE m == [kind |-> "in-storage", version |-> k]
  <1>0. TypeOK /\ wire = {} /\ PendingOK /\ \A r \in Subscribers : QueueOK(r)
    BY DEF RedisInv, TypeInv
  <1>1. /\ m \in Messages /\ m.version = k /\ m.kind = "in-storage"
        /\ sub[s] = "replay"
    BY <1>0 DEF TypeOK, Messages, Replay
  <1>2. /\ Put({s}, m) /\ UNCHANGED <<bound, wire, log, writer, version, sub>>
        /\ unsent' = [unsent EXCEPT ![s] = @ \ {k}]
    BY <1>0, SubscribersAssumption DEF Replay, Publish, Receivers
  <1> HIDE DEF m
  <1>3. \A w \in Writers : ~Pending(w)
    BY <1>1 DEF LockOK, Locks, NoReader, Pending
  <1>4. ASSUME NEW r \in Subscribers
        PROVE  /\ Single(r)' /\ Ordered(r)'
               /\ \A n : Got(r, n)' <=> Got(r, n) \/ (r \in {s} /\ n = k)
               /\ r = s => \A i \in 1 .. Len(queue'[r]) : queue'[r][i].kind = "in-storage"
               /\ r # s => queue'[r] = queue[r]
    <2>1. /\ Single(r) /\ Ordered(r)
          /\ r \in {s} => ~Got(r, m.version)
          /\ r \in {s} => \A i \in 1 .. Len(queue[r]) : queue[r][i].kind = "in-storage"
      BY <1>0, <1>1 DEF QueueOK, Replaying
    <2>2. {s} \in SUBSET Subscribers
      OBVIOUS
    <2>3. /\ Single(r)' /\ Ordered(r)'
          /\ \A n : Got(r, n)' <=> Got(r, n) \/ (r \in {s} /\ n = m.version)
          /\ (\A i \in 1 .. Len(queue[r]) : queue[r][i].kind = "in-storage")
             /\ m.kind = "in-storage" =>
                \A i \in 1 .. Len(queue'[r]) : queue'[r][i].kind = "in-storage"
          /\ r \notin {s} => queue'[r] = queue[r]
      BY <1>0, <1>1, <1>2, <2>1, <2>2, PutOnce
    <2> QED BY <1>1, <2>1, <2>3
  <1>5. PendingOK'
    BY <1>2, <1>3 DEF PendingOK, Pending
  <1>6. /\ unsent'[s] = unsent[s] \ {k}
        /\ \A r \in Subscribers : r # s => unsent'[r] = unsent[r]
    BY <1>0, <1>2 DEF TypeOK
  <1>7. ASSUME NEW r \in Subscribers PROVE QueueOK(r)'
    <2>1. Empty(r)'
      BY <1>0, <1>1, <1>2, <1>4 DEF QueueOK, Empty
    <2>2. Replaying(r)'
      BY <1>0, <1>1, <1>2, <1>4, <1>6 DEF QueueOK, Replaying
    <2>3. Stored(r)'
      BY <1>0, <1>1, <1>2, <1>4 DEF QueueOK, Replaying, Stored
    <2> QED BY <1>4, <2>1, <2>2, <2>3 DEF QueueOK
  <1> QED BY <1>0, <1>2, <1>5, <1>7

\* The steps of a subscription and of its end.
LEMMA RedisSubscriber ==
    ASSUME TypeInv, LockOK, RedisInv, broker = "redis", NEW s \in Subscribers,
           Subscribing(s) \/ Unsubscribing(s)
    PROVE  wire' = {} /\ PendingOK' /\ \A r \in Subscribers : QueueOK(r)'
  <1>0. TypeOK /\ \A r \in Subscribers : QueueOK(r)
    BY DEF TypeInv, RedisInv
  <1>e. Empty(s)
    BY <1>0 DEF QueueOK
  <1> DEFINE Goal == wire' = {} /\ PendingOK' /\ \A r \in Subscribers : QueueOK(r)'
  <1> USE DEF routing
  <1>1. ASSUME NEW t \in Starts, CreateQueue(s, t) PROVE Goal
    BY <1>0, <1>e, <1>1, RedisQuiet DEF CreateQueue, TypeOK, Empty
  <1>2. CASE Lock(s)
    BY <1>0, <1>e, <1>2, RedisQuiet DEF Lock, TypeOK, Empty
  <1>3. CASE Bind(s)
    BY <1>0, <1>e, <1>3, RedisQuiet DEF Bind, TypeOK, Empty
  <1>4. CASE List(s)
    <2>1. CASE sub' = [sub EXCEPT ![s] = "failed"]
      BY <1>0, <1>e, <1>4, <2>1, RedisQuiet DEF List, TypeOK, Empty
    <2>2. CASE sub' = [sub EXCEPT ![s] = "replay"]
      <3>1. /\ unsent' = [unsent EXCEPT ![s] = OldVersions(s)]
            /\ UNCHANGED <<log, bound, queue, wire, writer, version>>
        BY <1>0, <1>4, <2>2 DEF List, TypeOK
      <3>2. queue[s] = <<>>
        BY <1>e, <1>4 DEF List, Empty
      <3>3. \A n \in unsent'[s] : n <= Len(log) /\ ~Got(s, n)'
        BY <1>0, <3>1, <3>2 DEF TypeOK, OldVersions, Got
      <3>4. Empty(s)' /\ sub'[s] = "replay"
        BY <1>0, <2>2 DEF TypeOK, Empty
      <3>5. \A r \in Subscribers \ {s} : sub'[r] = sub[r] /\ unsent'[r] = unsent[r]
        BY <1>0, <2>2, <3>1 DEF TypeOK
      <3> QED BY <1>0, <3>1, <3>2, <3>3, <3>4, <3>5, RedisQuiet
    <2> QED BY <1>4, <2>1, <2>2 DEF List
  <1>5. CASE Subscribed(s)
    BY <1>0, <1>e, <1>5, RedisQuiet DEF Subscribed, TypeOK, Empty
  <1>6. CASE SubscribeFails(s)
    BY <1>0, <1>e, <1>6, RedisQuiet DEF SubscribeFails, TypeOK, Empty
  <1>7. CASE Unregister(s)
    BY <1>0, <1>e, <1>7, RedisQuiet DEF Unregister, TypeOK, Empty
  <1>8. CASE Uncount(s)
    BY <1>0, <1>e, <1>8, RedisQuiet DEF Uncount, TypeOK, Empty
  <1>9. CASE DeleteQueue(s)
    BY <1>0, <1>e, <1>9, RedisQuiet DEF DeleteQueue, BindingsAfter, TypeOK, Empty
  <1> QED BY <1>1, <1>2, <1>3, <1>4, <1>5, <1>6, <1>7, <1>8, <1>9, RedisReplay
          DEF Subscribing, Unsubscribing

\* Every step keeps the streams in order.
LEMMA RedisStep == TypeInv /\ LockOK /\ RedisInv /\ [Next]_vars => RedisInv'
  <1> SUFFICES ASSUME TypeInv, LockOK, RedisInv, [Next]_vars PROVE RedisInv'
    OBVIOUS
  <1>0. broker' = broker
    BY DEF Next, WriterStep, Write, Check, Send, SendFails, Subscribing, CreateQueue, Lock, Bind,
           List, Replay, Subscribed, SubscribeFails, Unsubscribing, Unregister, Uncount,
           DeleteQueue, Route, config, vars
  <1> SUFFICES ASSUME broker = "redis"
               PROVE  wire' = {} /\ PendingOK' /\ \A s \in Subscribers : QueueOK(s)'
    BY <1>0 DEF RedisInv
  <1>1. CASE UNCHANGED vars
    BY <1>1 DEF vars, RedisInv, PendingOK, Pending, QueueOK, Single, Ordered, Empty, Replaying,
                Stored, Got
  <1>2. ASSUME NEW x \in wire PROVE FALSE
    BY <1>2 DEF RedisInv
  <1> QED BY <1>1, <1>2, RedisWriter, RedisSubscriber DEF Next

\* At first the streams are empty.
LEMMA RedisInitial == Init => RedisInv
  BY DEF Init, RedisInv, PendingOK, Pending, QueueOK, Single, Ordered, Empty, Replaying, Stored, Got

\* With Redis no version is in a queue twice, and none that a call is still to
\* put there is in it already.
THEOREM RedisInvariant == Spec => []RedisInv
  <1>1. TypeInv /\ CountInv /\ CoverInv => TypeInv /\ LockOK
    BY DEF CoverInv
  <1> QED BY <1>1, CoverInvariant, RedisInitial, RedisStep, PTL DEF Spec

\* A version that a queue has in one place at most occurs there once at most.
LEMMA SingleCounts ==
    ASSUME TypeOK, NEW s \in Subscribers, Single(s), NEW n
    PROVE  /\ Occurrences(s, n) \in Nat /\ Occurrences(s, n) <= 1
           /\ Got(s, n) => Occurrences(s, n) = 1
  <1> DEFINE places == {i \in 1 .. Len(queue[s]) : queue[s][i].version = n}
  <1>1. CASE places = {}
    <2>1. Cardinality({}) = 0
      BY FS_EmptySet
    <2>2. Occurrences(s, n) = 0
      BY <1>1, <2>1 DEF Occurrences
    <2>3. ~Got(s, n)
      BY <1>1 DEF Got
    <2> QED BY <2>2, <2>3
  <1>2. CASE places # {}
    <2>1. PICK i \in places : TRUE
      BY <1>2
    <2>2. places = {i}
      BY <2>1 DEF Single
    <2>3. Cardinality(places) = 1
      BY <2>2, FS_Singleton
    <2>4. Occurrences(s, n) = 1
      BY <2>3 DEF Occurrences
    <2> QED BY <2>4
  <1> QED BY <1>1, <1>2

\* From its start on a subscription of a Redis stream gets every version once.
THEOREM OnceCorrect == Spec => []EveryVersionOnce
  <1>1. TypeInv /\ CountInv /\ CoverInv /\ RedisInv => EveryVersionOnce
    <2> SUFFICES ASSUME TypeInv, CoverInv, RedisInv, broker = "redis",
                        NEW s \in Subscribers, Active(s), NEW n \in 1 .. Len(log)
                 PROVE  /\ Occurrences(s, n) <= 1
                        /\ (log[n] = "put" /\ n >= start[s] /\ ~Unpublished(n))
                              => Occurrences(s, n) = 1
      BY DEF EveryVersionOnce
    <2>1. Single(s) /\ ~Coming(s, n) /\ TypeOK
      BY DEF TypeInv, RedisInv, QueueOK, Coming
    <2>2. (log[n] = "put" /\ n >= start[s] /\ ~Unpublished(n)) => Got(s, n)
      BY <2>1 DEF CoverInv, HeldOK, Listening, Due, Reached
    <2> QED BY <2>1, <2>2, SingleCounts
  <1> QED BY <1>1, CoverInvariant, RedisInvariant, PTL

\* With Redis the stored versions come before the changes.
THEOREM OrderCorrect == Spec => []StoredFirst
  <1>1. RedisInv => StoredFirst
    BY DEF RedisInv, QueueOK, Ordered, StoredFirst
  <1> QED BY <1>1, RedisInvariant, PTL

-------------------------------------------------------------------------------
(* The subscriptions as a feed.                                            *)

\* Nothing is in a queue, on the wire or listed that has not been stored; what
\* a writer is about to publish is in none of them, and is its own.
FreshInv ==
    /\ \A w \in Writers : Pending(w) =>
          /\ \A s \in Subscribers : ~Got(s, version[w])
          /\ \A x \in wire : x.message.version # version[w]
          /\ \A v \in Writers \ {w} : Pending(v) => version[v] # version[w]
    /\ \A s \in Subscribers, n \in Versions : Got(s, n) => n <= Len(log)
    /\ \A x \in wire : x.message.version <= Len(log)
    /\ \A s \in Subscribers : \A n \in unsent[s] : n <= Len(log)
    /\ \A s \in Subscribers : sub[s] # "none" => start[s] \in Starts

\* A put brings a message to its receivers, and nothing to the others.
LEMMA PutBrings ==
    ASSUME TypeOK, NEW receivers \in SUBSET Subscribers, NEW m \in Messages, Put(receivers, m),
           NEW s \in Subscribers
    PROVE  \A n : Got(s, n)' <=> Got(s, n) \/ (s \in receivers /\ n = m.version)
  <1>1. queue[s] \in Seq(Messages) /\ Len(queue[s]) \in Nat
    BY DEF TypeOK
  <1>2. CASE s \in receivers
    <2>1. queue'[s] = Append(queue[s], m)
      BY <1>2, PutQueues
    <2>2. /\ Len(queue'[s]) = Len(queue[s]) + 1
          /\ \A i \in 1 .. Len(queue[s]) : queue'[s][i] = queue[s][i]
          /\ queue'[s][Len(queue[s]) + 1] = m
      BY <1>1, <2>1
    <2>3. \A i \in 1 .. Len(queue'[s]) : i \in 1 .. Len(queue[s]) \/ i = Len(queue[s]) + 1
      BY <1>1, <2>2
    <2>4. ASSUME NEW n, Got(s, n)' PROVE Got(s, n) \/ n = m.version
      BY <2>2, <2>3, <2>4 DEF Got
    <2>5. ASSUME NEW n, Got(s, n) \/ n = m.version PROVE Got(s, n)'
      BY <1>2, <2>5, PutKeeps
    <2> QED BY <1>2, <2>4, <2>5
  <1>3. CASE s \notin receivers
    <2>1. queue'[s] = queue[s]
      BY <1>3, PutQueues
    <2> QED BY <1>3, <2>1 DEF Got
  <1> QED BY <1>2, <1>3

\* A publish puts its version into queues or on the wire, and nothing else.
LEMMA PublishBrings ==
    ASSUME TypeOK, NEW to \in {"key"} \cup Subscribers, NEW m \in Messages,
           Publish(to, m) \/ PublishFails(to, m)
    PROVE  /\ \A s \in Subscribers : \A n : Got(s, n)' => Got(s, n) \/ n = m.version
           /\ \A x \in wire' : x \in wire \/ x.message.version = m.version
  <1>1. CASE Publish(to, m) /\ broker = "redis"
    <2>1. Put(Receivers(to), m) /\ wire' = wire
      BY <1>1 DEF Publish
    <2> QED BY <2>1, ReceiversType, PutBrings
  <1>2. CASE Publish(to, m) /\ broker # "redis"
    BY <1>2 DEF Publish, Got
  <1>3. CASE PublishFails(to, m)
    <2>1. PICK r \in SUBSET Subscribers : Put(r, m)
      BY <1>3, ReceiversType DEF PublishFails
    <2>2. wire' = wire
      BY <1>3 DEF PublishFails
    <2> QED BY <2>1, <2>2, PutBrings
  <1> QED BY <1>1, <1>2, <1>3

\* A step after which the versions of S may be in more places.
LEMMA FreshFrame ==
    ASSUME TypeInv, FreshInv, NEW S, UNCHANGED <<log, version>>,
           \A n \in S : n <= Len(log),
           \A w \in Writers : Pending(w)' => Pending(w) /\ version[w] \notin S,
           \A s \in Subscribers : \A n : Got(s, n)' => Got(s, n) \/ n \in S,
           \A x \in wire' : x \in wire \/ x.message.version \in S,
           \A s \in Subscribers : \A n \in unsent'[s] : n \in unsent[s] \/ n <= Len(log),
           \A s \in Subscribers : sub'[s] # "none" => start'[s] \in Starts
    PROVE  FreshInv'
  <1>1. ASSUME NEW w \in Writers, Pending(w)'
        PROVE  /\ \A s \in Subscribers : ~Got(s, version[w])'
               /\ \A x \in wire' : x.message.version # version'[w]
               /\ \A v \in Writers \ {w} : Pending(v)' => version'[v] # version'[w]
    <2>1. PICK n : n = version[w]
      OBVIOUS
    <2>2. n \notin S /\ \A s \in Subscribers : ~Got(s, n)
      BY <1>1, <2>1 DEF FreshInv
    <2>3. \A s \in Subscribers : ~Got(s, n)'
      BY <2>2
    <2>4. \A s \in Subscribers : ~Got(s, version[w])'
      BY <2>1, <2>3 DEF Got
    <2> QED BY <1>1, <2>4 DEF FreshInv
  <1>2. \A s \in Subscribers, n \in Versions : Got(s, n)' => n <= Len(log')
    BY DEF FreshInv
  <1>3. \A x \in wire' : x.message.version <= Len(log')
    BY DEF FreshInv
  <1>4. \A s \in Subscribers : \A n \in unsent'[s] : n <= Len(log')
    BY DEF FreshInv
  <1> QED BY <1>1, <1>2, <1>3, <1>4 DEF FreshInv

\* The steps of a writer: a version is new when it is stored, and no longer
\* pending when it is published.
LEMMA FreshWriter ==
    ASSUME TypeInv, FreshInv, NEW w \in Writers, WriterStep(w)
    PROVE  FreshInv'
  <1> USE DEF routing
  <1>0. TypeOK /\ WritersKnow
    BY DEF TypeInv
  <1>1. ASSUME NEW kind \in {"put", "delete"}, Write(w, kind) PROVE FreshInv'
    <2>1. /\ Len(log') = Len(log) + 1 /\ Len(log) \in Nat
          /\ version'[w] = Len(log) + 1
          /\ \A v \in Writers : v # w => version'[v] = version[v] /\ (Pending(v)' <=> Pending(v))
          /\ UNCHANGED <<queue, wire, unsent, sub, start>>
      BY <1>0, <1>1 DEF Write, TypeOK, Pending
    <2>2. Len(log) + 1 \in Versions
      BY <1>0, <1>1, <2>1, BoundAssumption DEF Write, TypeOK, Versions
    <2>3. \A v \in Writers : version[v] \in Nat /\ version[v] <= Len(log)
      BY <1>0, BoundAssumption DEF TypeOK, WritersKnow, Versions
    <2>4. \A x \in wire : x.message.version \in Nat /\ x.message.version <= Len(log)
      BY <1>0, BoundAssumption DEF TypeOK, FreshInv, Messages, Versions
    <2>5. \A s \in Subscribers, n \in Versions : Got(s, n) => n <= Len(log)
      BY DEF FreshInv
    <2>6. \A s \in Subscribers : \A n \in unsent[s] : n \in Nat /\ n <= Len(log)
      BY <1>0, BoundAssumption DEF TypeOK, FreshInv, Versions
    <2>7. \A s \in Subscribers : ~Got(s, Len(log) + 1)
      BY <2>1, <2>2, <2>5
    <2>8. ASSUME NEW v \in Writers, Pending(v)'
          PROVE  /\ \A s \in Subscribers : ~Got(s, version'[v])
                 /\ \A x \in wire' : x.message.version # version'[v]
                 /\ \A u \in Writers \ {v} : Pending(u)' => version'[u] # version'[v]
      <3>1. CASE v = w
        BY <2>1, <2>3, <2>4, <2>7, <3>1
      <3>2. CASE v # w
        BY <2>1, <2>3, <2>8, <3>2 DEF FreshInv
      <3> QED BY <3>1, <3>2
    <2>9. \A s \in Subscribers, n \in Versions : Got(s, n) => n <= Len(log')
      BY <2>1, <2>5, BoundAssumption DEF Versions
    <2>10. /\ \A x \in wire' : x.message.version <= Len(log')
           /\ \A s \in Subscribers : \A n \in unsent'[s] : n <= Len(log')
           /\ \A s \in Subscribers : sub'[s] # "none" => start'[s] \in Starts
      BY <2>1, <2>4, <2>6 DEF FreshInv
    <2>11. \A s \in Subscribers : \A n : Got(s, n)' <=> Got(s, n)
      BY <2>1 DEF Got
    <2> QED BY <2>1, <2>8, <2>9, <2>10, <2>11 DEF FreshInv, Got
  <1>2. CASE Check(w)
    <2>1. /\ UNCHANGED <<log, version, queue, wire, unsent, sub, start>>
          /\ \A v \in Writers : Pending(v)' => Pending(v)
      BY <1>0, <1>2 DEF Check, TypeOK, Pending
    <2> DEFINE S == {}
    <2>2. /\ \A s \in Subscribers : \A n : Got(s, n)' => Got(s, n) \/ n \in S
          /\ \A s \in Subscribers : sub'[s] # "none" => start'[s] \in Starts
      BY <2>1 DEF Got, FreshInv
    <2> QED BY <2>1, <2>2, FreshFrame
  <1>3. CASE Send(w) \/ SendFails(w)
    <2>1. /\ UNCHANGED <<log, version, unsent, sub, start>>
          /\ \A v \in Writers : Pending(v)' => Pending(v) /\ v # w
          /\ Publish("key", Change(w)) \/ PublishFails("key", Change(w))
          /\ Pending(w)
      BY <1>0, <1>3 DEF Send, SendFails, TypeOK, Pending
    <2>2. Change(w) \in Messages /\ Change(w).version = version[w]
      BY <2>1, ChangeType DEF Change, Pending
    <2> DEFINE S == {version[w]}
    <2>3. /\ \A s \in Subscribers : \A n : Got(s, n)' => Got(s, n) \/ n \in S
          /\ \A x \in wire' : x \in wire \/ x.message.version \in S
      BY <1>0, <2>1, <2>2, PublishBrings
    <2>4. /\ \A n \in S : n <= Len(log)
          /\ \A v \in Writers : Pending(v)' => Pending(v) /\ version[v] \notin S
          /\ \A s \in Subscribers : sub'[s] # "none" => start'[s] \in Starts
      BY <1>0, <2>1 DEF FreshInv, WritersKnow
    <2> HIDE DEF S
    <2> QED BY <2>1, <2>3, <2>4, FreshFrame
  <1> QED BY <1>1, <1>2, <1>3 DEF WriterStep

\* The steps of a subscription: only stored versions are listed and sent.
LEMMA FreshSubscriber ==
    ASSUME TypeInv, FreshInv, LockOK, NEW s \in Subscribers, Subscribing(s) \/ Unsubscribing(s)
    PROVE  FreshInv'
  <1> USE DEF routing
  <1>0. TypeOK
    BY DEF TypeInv
  <1>1. ASSUME NEW n \in unsent[s], Replay(s, n) PROVE FreshInv'
    <2>1. /\ UNCHANGED <<log, version, writer, sub, start>>
          /\ unsent' = [unsent EXCEPT ![s] = @ \ {n}]
          /\ Publish(s, [kind |-> "in-storage", version |-> n])
          /\ sub[s] = "replay"
      BY <1>1 DEF Replay
    <2>2. [kind |-> "in-storage", version |-> n] \in Messages
      BY <1>0 DEF TypeOK, Messages
    <2> DEFINE S == {n}
    <2>3. /\ \A r \in Subscribers : \A m : Got(r, m)' => Got(r, m) \/ m \in S
          /\ \A x \in wire' : x \in wire \/ x.message.version \in S
      BY <1>0, <2>1, <2>2, PublishBrings
    <2>4. \A w \in Writers : ~Pending(w) /\ ~Pending(w)'
      BY <2>1 DEF LockOK, Locks, NoReader, Pending
    <2>5. /\ \A m \in S : m <= Len(log)
          /\ \A r \in Subscribers : \A m \in unsent'[r] : m \in unsent[r] \/ m <= Len(log)
          /\ \A r \in Subscribers : sub'[r] # "none" => start'[r] \in Starts
      BY <1>0, <2>1 DEF FreshInv, TypeOK
    <2> HIDE DEF S
    <2> QED BY <2>1, <2>3, <2>4, <2>5, FreshFrame
  <1>2. ASSUME UNCHANGED <<log, version, writer, wire>>,
               \A r \in Subscribers : queue'[r] = queue[r] \/ queue'[r] = <<>>,
               \A r \in Subscribers : unsent'[r] = unsent[r] \/ unsent'[r] = OldVersions(r),
               \A r \in Subscribers : sub'[r] # "none" => start'[r] \in Starts
        PROVE  FreshInv'
    <2> DEFINE S == {}
    <2>1. \A r \in Subscribers : \A m : Got(r, m)' => Got(r, m) \/ m \in S
      <3> SUFFICES ASSUME NEW r \in Subscribers, NEW m, Got(r, m)' PROVE Got(r, m)
        OBVIOUS
      <3>1. queue'[r] # <<>>
        BY DEF Got
      <3> QED BY <1>2, <3>1 DEF Got
    <2>2. \A r \in Subscribers : \A m \in unsent'[r] : m \in unsent[r] \/ m <= Len(log)
      <3>1. \A r \in Subscribers : \A m \in OldVersions(r) : m <= Len(log)
        BY <1>0 DEF TypeOK, OldVersions
      <3> QED BY <1>2, <3>1
    <2>3. \A w \in Writers : Pending(w)' => Pending(w) /\ version[w] \notin S
      BY <1>2 DEF Pending
    <2>4. \A x \in wire' : x \in wire \/ x.message.version \in S
      BY <1>2
    <2>5. \A n \in S : n <= Len(log)
      OBVIOUS
    <2> HIDE DEF S
    <2> QED BY <1>2, <2>1, <2>2, <2>3, <2>4, <2>5, FreshFrame
  <1>3. \A r \in Subscribers : sub[r] # "none" => start[r] \in Starts
    BY DEF FreshInv
  <1>4. ASSUME NEW t \in Starts, CreateQueue(s, t) PROVE FreshInv'
    BY <1>0, <1>2, <1>3, <1>4 DEF CreateQueue, TypeOK
  <1>5. CASE Lock(s)
    BY <1>0, <1>2, <1>3, <1>5 DEF Lock, TypeOK
  <1>6. CASE Bind(s)
    BY <1>0, <1>2, <1>3, <1>6 DEF Bind, TypeOK
  <1>7. CASE List(s)
    <2>1. /\ UNCHANGED <<log, version, writer, wire, queue, start>> /\ sub[s] # "none"
          /\ \E phase \in {"failed", "replay"} : sub' = [sub EXCEPT ![s] = phase]
          /\ unsent' = unsent \/ unsent' = [unsent EXCEPT ![s] = OldVersions(s)]
      BY <1>7 DEF List
    <2> QED BY <1>0, <1>2, <1>3, <2>1 DEF TypeOK
  <1>8. CASE Subscribed(s)
    BY <1>0, <1>2, <1>3, <1>8 DEF Subscribed, TypeOK
  <1>9. CASE SubscribeFails(s)
    BY <1>0, <1>2, <1>3, <1>9 DEF SubscribeFails, TypeOK
  <1>10. CASE Unregister(s)
    BY <1>0, <1>2, <1>3, <1>10 DEF Unregister, TypeOK
  <1>11. CASE Uncount(s)
    BY <1>0, <1>2, <1>3, <1>11 DEF Uncount, TypeOK
  <1>12. CASE DeleteQueue(s)
    BY <1>0, <1>2, <1>3, <1>12 DEF DeleteQueue, TypeOK
  <1> QED BY <1>1, <1>4, <1>5, <1>6, <1>7, <1>8, <1>9, <1>10, <1>11, <1>12
          DEF Subscribing, Unsubscribing

\* What RabbitMQ routes was stored before.
LEMMA FreshRoute ==
    ASSUME TypeInv, FreshInv, NEW x \in wire, Route(x)
    PROVE  FreshInv'
  <1>0. TypeOK
    BY DEF TypeInv
  <1>1. x.message \in Messages /\ x.to \in {"key"} \cup Subscribers
    BY <1>0 DEF TypeOK
  <1>2. /\ Put(Receivers(x.to), x.message) /\ wire' = wire \ {x}
        /\ UNCHANGED <<log, version, writer, unsent, sub, start>>
    BY DEF Route
  <1> DEFINE S == {x.message.version}
  <1>3. \A s \in Subscribers : \A n : Got(s, n)' => Got(s, n) \/ n \in S
    BY <1>0, <1>1, <1>2, ReceiversType, PutBrings
  <1>4. /\ \A n \in S : n <= Len(log)
        /\ \A w \in Writers : Pending(w)' => Pending(w) /\ version[w] \notin S
        /\ \A s \in Subscribers : sub'[s] # "none" => start'[s] \in Starts
    BY <1>2 DEF FreshInv, Pending
  <1> HIDE DEF S
  <1> QED BY <1>2, <1>3, <1>4, FreshFrame

\* Every step brings only what has been stored and published.
LEMMA FreshStep == TypeInv /\ LockOK /\ FreshInv /\ [Next]_vars => FreshInv'
  <1>1. TypeInv /\ FreshInv /\ UNCHANGED vars => FreshInv'
    BY DEF vars, FreshInv, Pending, Got
  <1> QED BY <1>1, FreshWriter, FreshSubscriber, FreshRoute DEF Next

\* At first there is no version anywhere.
LEMMA FreshInitial == Init => FreshInv
  BY DEF Init, FreshInv, Pending, Got

\* Nothing reaches a queue before it is stored, nor before it is published.
THEOREM FreshInvariant == Spec => []FreshInv
  <1>1. TypeInv /\ CountInv /\ CoverInv => TypeInv /\ LockOK
    BY DEF CoverInv
  <1> QED BY <1>1, CoverInvariant, FreshInitial, FreshStep, PTL DEF Spec

-------------------------------------------------------------------------------
(* Each step of the subscriptions is a step of the feed.                   *)

InHand(n) == \E w \in Writers : version[w] = n /\ Pending(w)
OnItsWay(s, n) == n \in unsent[s] \/ InHand(n) \/ Coming(s, n)

\* What a subscription is owed, in this state and in the next.
LEMMA OwingIs ==
    ASSUME NEW s \in Subscribers
    PROVE  /\ \A n : n \in Owing(s) <=> Following(s) /\ OnItsWay(s, n) /\ ~Got(s, n)
           /\ \A n : n \in Owing(s)' <=> Following(s)' /\ OnItsWay(s, n)' /\ ~Got(s, n)'
  <1>1. \A n : n \in Underway(s) <=> OnItsWay(s, n)
    BY DEF Underway, OnItsWay, InHand, Pending, Coming
  <1>2. \A n : (n \in Underway(s))' <=> OnItsWay(s, n)'
    BY DEF Underway, OnItsWay, InHand, Pending, Coming
  <1>3. \A n : n \in Received(s) <=> Got(s, n)
    BY DEF Received, Got
  <1>4. \A n : (n \in Received(s))' <=> Got(s, n)'
    BY DEF Received, Got
  <1>5. Owing(s) = IF Following(s) THEN Underway(s) \ Received(s) ELSE {}
    BY DEF Owing
  <1>6. Owing(s)' = IF Following(s)' THEN Underway(s)' \ Received(s)' ELSE {}
    BY DEF Owing
  <1>7. \A n : n \in Owing(s) <=> Following(s) /\ OnItsWay(s, n) /\ ~Got(s, n)
    BY <1>1, <1>3, <1>5
  <1>8. \A n : n \in Owing(s)' <=> Following(s)' /\ OnItsWay(s, n)' /\ ~Got(s, n)'
    BY <1>2, <1>4, <1>6
  <1> QED BY <1>7, <1>8

\* One more message in a queue is one more version in the feed.
LEMMA FedMore ==
    ASSUME TypeOK, NEW s \in Subscribers, NEW m \in Messages, Following(s), Following(s)',
           queue'[s] = Append(queue[s], m)
    PROVE  Fed(s)' = Append(Fed(s), m.version)
  <1> DEFINE q == queue[s]
             f == [i \in 1 .. Len(q) |-> q[i].version]
             g == [i \in 1 .. Len(Append(q, m)) |-> Append(q, m)[i].version]
  <1>1. q \in Seq(Messages) /\ Fed(s) = f /\ Fed(s)' = g
    BY DEF TypeOK, Fed
  <1> HIDE DEF q
  <1>2. /\ Len(q) \in Nat /\ Len(Append(q, m)) = Len(q) + 1
        /\ \A i \in 1 .. Len(q) : Append(q, m)[i] = q[i] /\ q[i] \in Messages
        /\ Append(q, m)[Len(q) + 1] = m
    BY <1>1
  <1>3. f \in Seq(Versions) /\ Len(f) = Len(q) /\ m.version \in Versions
    BY <1>2 DEF Messages
  <1>4. g \in Seq(Versions) /\ Len(g) = Len(q) + 1
    BY <1>2 DEF Messages
  <1>5. /\ Append(f, m.version) \in Seq(Versions)
        /\ Len(Append(f, m.version)) = Len(q) + 1
    BY <1>2, <1>3
  <1>6. \A i \in 1 .. Len(q) + 1 : g[i] = Append(f, m.version)[i]
    BY <1>2, <1>3
  <1>7. g = Append(f, m.version)
    BY <1>2, <1>4, <1>5, <1>6
  <1> QED BY <1>1, <1>7

\* A subscription that follows goes on, from the same start, and one that does
\* not still does not.
Kept(s) == (Following(s)' <=> Following(s)) /\ (Following(s) => start'[s] = start[s])

\* What a step leaves as it was for the readers.
LEMMA KeptMaps ==
    ASSUME \A s \in Subscribers : Kept(s)
    PROVE  Followers' = Followers /\ \A s \in Subscribers : From(s)' = From(s)
  BY DEF Kept, Followers, From

\* A step that no reader sees.
LEMMA FeedStutter ==
    ASSUME UNCHANGED <<broker, log>>, Failed' = Failed,
           \A s \in Subscribers : Kept(s),
           \A s \in Followers : /\ queue'[s] = queue[s]
                                /\ \A n : OnItsWay(s, n)' <=> OnItsWay(s, n)
    PROVE  UNCHANGED Feed!vars
  <1>1. ASSUME NEW s \in Subscribers PROVE Owing(s)' = Owing(s) /\ Fed(s)' = Fed(s)
    <2>1. CASE Following(s)
      <3>1. /\ Following(s)' /\ queue'[s] = queue[s]
            /\ \A n : OnItsWay(s, n)' <=> OnItsWay(s, n)
        BY <2>1 DEF Kept, Followers
      <3>2. \A n : Got(s, n)' <=> Got(s, n)
        BY <3>1 DEF Got
      <3>3. \A n : n \in Owing(s)' <=> n \in Owing(s)
        BY <2>1, <3>1, <3>2, OwingIs
      <3> QED BY <2>1, <3>1, <3>3 DEF Fed, Owing
    <2>2. CASE ~Following(s)
      BY <2>2 DEF Kept, Owing, Fed
    <2> QED BY <2>1, <2>2
  <1> QED BY <1>1, KeptMaps DEF Feed!vars

\* What a reader is owed but the version that is put, for any reader.
LEMMA OthersOwed ==
    ASSUME TypeOK, NEW receivers \in SUBSET Subscribers, NEW m \in Messages, Put(receivers, m),
           NEW s \in Followers, Kept(s),
           \A n : n # m.version => (OnItsWay(s, n)' <=> OnItsWay(s, n))
    PROVE  /\ Following(s) /\ Following(s)'
           /\ \A n : n # m.version => (n \in Owing(s)' <=> n \in Owing(s))
  <1>1. s \in Subscribers /\ Following(s) /\ Following(s)'
    BY DEF Followers, Kept
  <1>2. \A n : Got(s, n)' <=> Got(s, n) \/ (s \in receivers /\ n = m.version)
    BY <1>1, PutBrings
  <1> QED BY <1>1, <1>2, OwingIs

\* A put brings a version to the readers among its receivers ...
LEMMA Given ==
    ASSUME TypeOK, NEW receivers \in SUBSET Subscribers, NEW m \in Messages, Put(receivers, m),
           NEW s \in receivers \cap Followers, Kept(s),
           \A n : n # m.version => (OnItsWay(s, n)' <=> OnItsWay(s, n))
    PROVE  Fed(s)' = Append(Fed(s), m.version) /\ Owing(s)' = Owing(s) \ {m.version}
  <1>1. /\ s \in Subscribers /\ Following(s) /\ Following(s)'
        /\ \A n : n # m.version => (n \in Owing(s)' <=> n \in Owing(s))
    BY OthersOwed
  <1>2. Got(s, m.version)'
    BY <1>1, PutBrings
  <1>3. m.version \notin Owing(s)'
    BY <1>1, <1>2, OwingIs
  <1>4. Owing(s)' = Owing(s) \ {m.version}
    BY <1>1, <1>3 DEF Owing
  <1>5. Fed(s)' = Append(Fed(s), m.version)
    BY <1>1, PutQueues, FedMore
  <1> QED BY <1>4, <1>5

\* ... and nothing to anybody else.
LEMMA NotGiven ==
    ASSUME TypeOK, NEW receivers \in SUBSET Subscribers, NEW m \in Messages, Put(receivers, m),
           NEW s \in Subscribers, s \notin receivers \/ s \notin Followers, Kept(s),
           s \in Followers => \A n : n # m.version => (OnItsWay(s, n)' <=> OnItsWay(s, n))
    PROVE  /\ Fed(s)' = Fed(s)
           /\ Owing(s)' \ {m.version} = Owing(s) \ {m.version}
           /\ (s \in Followers => (OnItsWay(s, m.version)' <=> OnItsWay(s, m.version)))
                 => Owing(s)' = Owing(s)
  <1>1. CASE s \notin Followers
    BY <1>1 DEF Kept, Owing, Fed, Followers
  <1>2. CASE s \in Followers
    <2>1. /\ Following(s) /\ Following(s)'
          /\ \A n : n # m.version => (n \in Owing(s)' <=> n \in Owing(s))
      BY <1>2, OthersOwed
    <2>2. queue'[s] = queue[s]
      BY <1>2, PutQueues
    <2>3. Fed(s)' = Fed(s)
      BY <2>1, <2>2 DEF Fed
    <2>4. Owing(s)' \ {m.version} = Owing(s) \ {m.version}
      BY <2>1
    <2>5. ASSUME OnItsWay(s, m.version)' <=> OnItsWay(s, m.version)
          PROVE  Owing(s)' = Owing(s)
      <3>1. Got(s, m.version)' <=> Got(s, m.version)
        BY <2>2 DEF Got
      <3>2. m.version \in Owing(s)' <=> m.version \in Owing(s)
        BY <2>1, <2>5, <3>1, OwingIs
      <3> QED BY <2>1, <3>2 DEF Owing
    <2> QED BY <1>2, <2>3, <2>4, <2>5
  <1> QED BY <1>1, <1>2

\* A put by which no writer fails is a delivery ...
LEMMA DeliverMaps ==
    ASSUME TypeOK, NEW receivers \in SUBSET Subscribers, NEW m \in Messages, Put(receivers, m),
           \A s \in Subscribers : Kept(s),
           \A s \in Followers : \A n : n # m.version => (OnItsWay(s, n)' <=> OnItsWay(s, n)),
           UNCHANGED <<broker, log>>, Failed' = Failed, m.version \in 1 .. Len(log),
           \A s \in Followers \ receivers : OnItsWay(s, m.version)' <=> OnItsWay(s, m.version),
           broker = "redis" => \A s \in receivers \cap Followers : m.version \in Owing(s)
    PROVE  Feed!Next
  <1> DEFINE R == receivers \cap Followers
  <1>1. \A s \in Subscribers :
          /\ s \in R => Fed(s)' = Append(Fed(s), m.version) /\ Owing(s)' = Owing(s) \ {m.version}
          /\ s \notin R => Fed(s)' = Fed(s) /\ Owing(s)' = Owing(s)
    <2> SUFFICES ASSUME NEW s \in Subscribers
                 PROVE  /\ s \in R => /\ Fed(s)' = Append(Fed(s), m.version)
                                     /\ Owing(s)' = Owing(s) \ {m.version}
                        /\ s \notin R => Fed(s)' = Fed(s) /\ Owing(s)' = Owing(s)
      OBVIOUS
    <2>1. CASE s \in R
      BY <2>1, Given
    <2>2. CASE s \notin R
      <3>1. s \notin receivers \/ s \notin Followers
        BY <2>2
      <3>2. s \in Followers =>
              /\ OnItsWay(s, m.version)' <=> OnItsWay(s, m.version)
              /\ \A n : n # m.version => (OnItsWay(s, n)' <=> OnItsWay(s, n))
        BY <3>1
      <3>3. Fed(s)' = Fed(s) /\ Owing(s)' = Owing(s)
        BY <3>1, <3>2, NotGiven
      <3> QED BY <2>2, <3>3
    <2> QED BY <2>1, <2>2
  <1>2. R \subseteq Followers /\ R \subseteq Subscribers
    BY DEF Followers
  <1>3. broker = "redis" => \A s \in R : m.version \in Owing(s)
    OBVIOUS
  <1>4. Followers' = Followers /\ \A s \in Subscribers : From(s)' = From(s)
    BY KeptMaps
  <1> HIDE DEF R
  <1>5. Feed!Give(m.version, R)
    BY <1>1, <1>2, <1>3 DEF Feed!Give
  <1>6. Feed!Deliver(m.version, R)
    BY <1>1, <1>4, <1>5 DEF Feed!Deliver
  <1> QED BY <1>2, <1>6 DEF Feed!Next

\* ... and one by which a writer fails takes the version from what is owed.
LEMMA AbortMaps ==
    ASSUME TypeOK, NEW receivers \in SUBSET Subscribers, NEW m \in Messages, Put(receivers, m),
           \A s \in Subscribers : Kept(s),
           \A s \in Followers : \A n : n # m.version => (OnItsWay(s, n)' <=> OnItsWay(s, n)),
           UNCHANGED <<broker, log>>, Failed' = Failed \cup {m.version},
           m.version \in 1 .. Len(log),
           \A s \in Followers : ~OnItsWay(s, m.version)',
           broker = "redis" => \A s \in receivers \cap Followers : m.version \in Owing(s)
    PROVE  Feed!Next
  <1> DEFINE R == receivers \cap Followers
  <1>1. \A s \in Subscribers :
          /\ s \in R => Fed(s)' = Append(Fed(s), m.version)
          /\ s \notin R => Fed(s)' = Fed(s)
    BY Given, NotGiven
  <1>2. \A s \in Subscribers : Owing(s)' = Owing(s) \ {m.version}
    <2> SUFFICES ASSUME NEW s \in Subscribers PROVE Owing(s)' = Owing(s) \ {m.version}
      OBVIOUS
    <2>1. Owing(s)' \ {m.version} = Owing(s) \ {m.version}
      <3>1. CASE s \in R
        <4>1. Owing(s)' = Owing(s) \ {m.version}
          BY <3>1, Given
        <4> QED BY <4>1
      <3>2. CASE s \notin R
        BY <3>2, NotGiven
      <3> QED BY <3>1, <3>2
    <2>2. m.version \notin Owing(s)'
      BY OwingIs DEF Followers, Kept
    <2> QED BY <2>1, <2>2
  <1>3. R \subseteq Followers /\ R \subseteq Subscribers
    BY DEF Followers
  <1>4. broker = "redis" => \A s \in R : m.version \in Owing(s)
    OBVIOUS
  <1>5. Followers' = Followers /\ \A s \in Subscribers : From(s)' = From(s)
    BY KeptMaps
  <1> HIDE DEF R
  <1>6. Feed!Give(m.version, R)
    BY <1>1, <1>3, <1>4 DEF Feed!Give
  <1>7. Feed!Abort(m.version, R)
    BY <1>2, <1>5, <1>6 DEF Feed!Abort
  <1> QED BY <1>3, <1>7 DEF Feed!Next

\* A version that is stored is owed to every reader.
LEMMA StoreMaps ==
    ASSUME UNCHANGED <<broker, queue>>, Failed' = Failed, NEW kind \in {"put", "delete"},
           kind = "delete" => log # <<>> /\ log[Len(log)] = "put",
           log' = Append(log, kind), NEW k, k = Len(log'),
           \A s \in Subscribers : Kept(s),
           \A s \in Followers : /\ ~Got(s, k) /\ OnItsWay(s, k)'
                                /\ \A n : n # k => (OnItsWay(s, n)' <=> OnItsWay(s, n))
    PROVE  Feed!Next
  <1>1. ASSUME NEW s \in Subscribers
        PROVE  /\ Owing(s)' = IF s \in Followers THEN Owing(s) \cup {k} ELSE Owing(s)
               /\ Fed(s)' = Fed(s)
    <2>1. CASE s \in Followers
      <3>1. Following(s) /\ Following(s)'
        BY <2>1 DEF Kept, Followers
      <3>2. \A n : Got(s, n)' <=> Got(s, n)
        BY DEF Got
      <3>3. \A n : n \in Owing(s)' <=> n \in Owing(s) \/ n = k
        BY <2>1, <3>1, <3>2, OwingIs
      <3> QED BY <2>1, <3>1, <3>3 DEF Owing, Fed
    <2>2. CASE s \notin Followers
      BY <2>2 DEF Kept, Owing, Fed, Followers
    <2> QED BY <2>1, <2>2
  <1>2. Feed!Store(kind)
    BY <1>1, KeptMaps DEF Feed!Store
  <1> QED BY <1>2 DEF Feed!Next

\* A subscription that ends or fails leaves the feed.
LEMMA LeaveMaps ==
    ASSUME UNCHANGED <<broker, log, wire, writer, version>>, NEW s \in Subscribers,
           ~Following(s)',
           \A r \in Subscribers \ {s} :
               /\ Following(r)' <=> Following(r)
               /\ UNCHANGED <<start[r], queue[r], unsent[r]>>
    PROVE  Feed!Next
  <1>1. Failed' = Failed
    BY DEF Failed
  <1>2. Followers' = Followers \ {s}
    BY DEF Followers
  <1>3. From(s)' = 0 /\ Owing(s)' = {} /\ Fed(s)' = <<>>
    BY DEF From, Owing, Fed
  <1>4. ASSUME NEW r \in Subscribers, r # s
        PROVE  From(r)' = From(r) /\ Owing(r)' = Owing(r) /\ Fed(r)' = Fed(r)
    BY <1>4 DEF From, Owing, Fed, Underway, Received
  <1>5. Feed!Leave(s)
    BY <1>1, <1>2, <1>3, <1>4 DEF Feed!Leave
  <1> QED BY <1>5 DEF Feed!Next

\* The listing of the stored versions is the beginning of a feed.
LEMMA FollowMaps ==
    ASSUME UNCHANGED <<broker, log, wire, writer, version, start, queue>>, NEW s \in Subscribers,
           TypeOK, ~Following(s), Following(s)', start[s] \in Starts,
           \A r \in Subscribers \ {s} :
               /\ Following(r)' <=> Following(r)
               /\ unsent'[r] = unsent[r],
           unsent'[s] = OldVersions(s),
           broker = "redis" => /\ queue[s] = <<>> /\ wire = {}
                               /\ \A w \in Writers : ~Pending(w)
    PROVE  Feed!Next
  <1> DEFINE t == start[s]
  <1>1. Failed' = Failed
    BY DEF Failed
  <1>2. Followers' = Followers \cup {s} /\ s \notin Followers
    BY DEF Followers
  <1>3. From(s)' = t
    BY DEF From
  <1>4. ASSUME NEW r \in Subscribers, r # s
        PROVE  From(r)' = From(r) /\ Owing(r)' = Owing(r) /\ Fed(r)' = Fed(r)
    BY <1>4 DEF From, Owing, Fed, Underway, Received
  <1>5. Feed!Old(t) = OldVersions(s)
    BY DEF Feed!Old, OldVersions
  <1>6. OldVersions(s) \subseteq Owing(s)' \cup Received(s)'
    BY DEF Owing, Underway
  <1>7. Received(s)' = {Fed(s)'[i] : i \in 1 .. Len(Fed(s)')}
    <2>1. queue'[s] \in Seq(Messages) /\ Len(queue'[s]) \in Nat
      BY DEF TypeOK
    <2>2. Fed(s)' = [i \in 1 .. Len(queue'[s]) |-> queue'[s][i].version]
      BY DEF Fed
    <2>3. Len(Fed(s)') = Len(queue'[s])
      BY <2>1, <2>2
    <2> QED BY <2>2, <2>3 DEF Received
  <1>8. broker = "redis" => Owing(s)' = OldVersions(s) /\ Fed(s)' = <<>>
    <2> SUFFICES ASSUME broker = "redis" PROVE Owing(s)' = OldVersions(s) /\ Fed(s)' = <<>>
      OBVIOUS
    <2>1. \A n : ~Got(s, n)' /\ ~Coming(s, n)' /\ ~InHand(n)'
      BY DEF Got, Coming, InHand, Pending
    <2>2. \A n : n \in Owing(s)' <=> n \in OldVersions(s)
      BY <2>1, OwingIs DEF OnItsWay
    <2>3. Owing(s)' = OldVersions(s)
      BY <2>2 DEF Owing, OldVersions
    <2>4. Fed(s)' = <<>>
      BY DEF Fed
    <2> QED BY <2>3, <2>4
  <1>9. Feed!Follow(s, t)
    BY <1>1, <1>2, <1>3, <1>4, <1>5, <1>6, <1>7, <1>8 DEF Feed!Follow, Feed!Got
  <1> QED BY <1>9 DEF Feed!Next

FeedInv == TypeInv /\ CountInv /\ CoverInv /\ RedisInv /\ FreshInv

\* Who follows is bound, and is owed nothing by its own call once that is over.
LEMMA FollowersKnown ==
    ASSUME FeedInv, NEW s \in Followers
    PROVE  /\ s \in Subscribers /\ s \in bound /\ s \in queues
           /\ (\E w \in Writers : Pending(w)) => unsent[s] = {}
  <1>1. s \in Subscribers /\ Listening(s) /\ (sub[s] = "replay" \/ Active(s))
    BY DEF Followers, Following, Listening
  <1>2. s \in bound /\ s \in queues
    BY <1>1 DEF FeedInv, CoverInv, BoundOK
  <1>3. ASSUME NEW w \in Writers, Pending(w) PROVE unsent[s] = {}
    <2>1. sub[s] # "replay"
      BY <1>1, <1>3 DEF FeedInv, CoverInv, LockOK, Locks, NoReader, Pending
    <2> QED BY <1>1, <2>1 DEF FeedInv, CoverInv, HeldOK
  <1> QED BY <1>1, <1>2, <1>3

\* What a writer is about to publish, no reader has or is on its way to get.
LEMMA OnlyInHand ==
    ASSUME FeedInv, NEW w \in Writers, Pending(w), NEW s \in Followers
    PROVE  ~Got(s, version[w]) /\ ~Coming(s, version[w]) /\ version[w] \notin unsent[s]
  BY FollowersKnown DEF FeedInv, FreshInv, Coming

\* Who follows is decided by the subscriptions alone.
LEMMA KeptPhases ==
    ASSUME UNCHANGED <<sub, start>>
    PROVE  \A s \in Subscribers : Kept(s)
  BY DEF Kept, Following, Active

\* One more message on the wire comes to whom it names.
LEMMA WireMore ==
    ASSUME NEW s, NEW m, NEW to, wire' = wire \cup {[message |-> m, to |-> to]}
    PROVE  \A n : Coming(s, n)' <=> Coming(s, n) \/ (to \in {"key", s} /\ n = m.version)
  <1>1. PICK x : x = [message |-> m, to |-> to]
    OBVIOUS
  <1>2. x.message = m /\ x.to = to /\ wire' = wire \cup {x}
    BY <1>1
  <1> QED BY <1>2 DEF Coming

\* A write is a version that is stored.
LEMMA FeedWrite ==
    ASSUME FeedInv, NEW w \in Writers, NEW kind \in {"put", "delete"}, Write(w, kind)
    PROVE  Feed!Next
  <1>0. TypeOK /\ WritersKnow /\ FreshInv
    BY DEF FeedInv, TypeInv
  <1>1. /\ UNCHANGED <<broker, queue, wire, sub, start, unsent>>
        /\ kind = "delete" => log # <<>> /\ log[Len(log)] = "put"
        /\ log' = Append(log, kind) /\ Len(log) < MaxVersions
        /\ version' = [version EXCEPT ![w] = Len(log')]
        /\ writer[w] = "idle" /\ writer' = [writer EXCEPT ![w] = "check"]
    BY <1>0 DEF Write, routing, config
  <1>2. PICK k : k = Len(log')
    OBVIOUS
  <1>3. k = Len(log) + 1 /\ k \in Versions /\ Len(log) \in Nat
    BY <1>0, <1>1, <1>2, BoundAssumption DEF TypeOK, Versions
  <1>4. /\ version'[w] = k /\ writer'[w] = "check" /\ writer[w] = "idle"
        /\ \A v \in Writers : v # w => version'[v] = version[v] /\ writer'[v] = writer[v]
    BY <1>0, <1>1, <1>2 DEF TypeOK
  <1>5. Failed' = Failed
    BY <1>4 DEF Failed
  <1>6. \A s \in Followers : ~Got(s, k)
    BY <1>0, <1>3 DEF FreshInv, Followers
  <1>7. InHand(k)'
    BY <1>4 DEF InHand, Pending
  <1>8. \A n : n # k => (InHand(n)' <=> InHand(n))
    BY <1>4 DEF InHand, Pending
  <1>9. \A s \in Followers : /\ OnItsWay(s, k)'
                             /\ \A n : n # k => (OnItsWay(s, n)' <=> OnItsWay(s, n))
    BY <1>1, <1>7, <1>8 DEF OnItsWay, Coming
  <1> QED BY <1>1, <1>2, <1>5, <1>6, <1>9, KeptPhases, StoreMaps

\* The writer that finds nobody subscribed is no loss to a reader.
LEMMA FeedCheck ==
    ASSUME FeedInv, NEW w \in Writers, Check(w)
    PROVE  UNCHANGED Feed!vars
  <1>0. TypeOK
    BY DEF FeedInv, TypeInv
  <1>1. /\ UNCHANGED <<broker, log, queue, wire, sub, start, unsent, version>>
        /\ writer[w] = "check"
        /\ writer' = [writer EXCEPT ![w] = IF count > 0 THEN "send" ELSE "idle"]
    BY DEF Check, routing, config
  <1>2. Failed' = Failed
    BY <1>0, <1>1 DEF Failed, TypeOK
  <1>3. CASE count > 0
    <2>1. \A v \in Writers : Pending(v)' <=> Pending(v)
      BY <1>0, <1>1, <1>3 DEF Pending, TypeOK
    <2>2. \A n : InHand(n)' <=> InHand(n)
      BY <1>1, <2>1 DEF InHand
    <2>3. \A s \in Followers : \A n : OnItsWay(s, n)' <=> OnItsWay(s, n)
      BY <1>1, <2>2 DEF OnItsWay, Coming
    <2> QED BY <1>1, <1>2, <2>3, KeptPhases, FeedStutter
  <1>4. CASE ~(count > 0)
    <2>1. \A s \in Subscribers : ~Active(s)
      BY <1>0, <1>4, ActiveCounted DEF FeedInv
    <2>2. ~NoReader
      BY <1>1 DEF NoReader
    <2>3. Followers = {}
      BY <2>1, <2>2 DEF Followers, Following, FeedInv, CoverInv, LockOK, Locks
    <2> QED BY <1>1, <1>2, <2>3, KeptPhases, FeedStutter
  <1> QED BY <1>3, <1>4

\* Over Redis a change reaches all readers at once, or some of them and the
\* writer fails; over RabbitMQ it is still to be routed, or lost.
LEMMA FeedSend ==
    ASSUME FeedInv, NEW w \in Writers, Send(w) \/ SendFails(w)
    PROVE  Feed!Next \/ UNCHANGED Feed!vars
  <1>0. TypeOK /\ WritersKnow /\ FreshInv
    BY DEF FeedInv, TypeInv
  <1>1. PICK m : m = Change(w)
    OBVIOUS
  <1>2. /\ UNCHANGED <<broker, log, sub, start, unsent, version>> /\ writer[w] = "send"
        /\ \/ Publish("key", m) /\ writer' = [writer EXCEPT ![w] = "idle"]
           \/ PublishFails("key", m) /\ writer' = [writer EXCEPT ![w] = "failed"]
    BY <1>1 DEF Send, SendFails, config
  <1>3. Pending(w) /\ m \in Messages /\ m.version = version[w]
    BY <1>1, <1>2, <1>0, ChangeType DEF FeedInv, Pending, Change
  <1>4. m.version \in 1 .. Len(log)
    BY <1>0, <1>2, <1>3 DEF TypeOK, WritersKnow, Messages, Versions
  <1>5. \A v \in Writers : Pending(v)' <=> Pending(v) /\ v # w
    BY <1>0, <1>2, <1>3 DEF Pending, TypeOK
  <1>6. \A n : InHand(n)' <=> InHand(n) /\ n # m.version
    BY <1>0, <1>2, <1>3, <1>5 DEF InHand, FreshInv
  <1>7. \A s \in Followers : /\ ~Got(s, m.version) /\ ~Coming(s, m.version)
                             /\ m.version \notin unsent[s] /\ m.version \in Owing(s)
    <2> SUFFICES ASSUME NEW s \in Followers
                 PROVE  /\ ~Got(s, m.version) /\ ~Coming(s, m.version)
                        /\ m.version \notin unsent[s] /\ m.version \in Owing(s)
      OBVIOUS
    <2>1. ~Got(s, m.version) /\ ~Coming(s, m.version) /\ m.version \notin unsent[s]
      BY <1>3, OnlyInHand
    <2>2. InHand(m.version)
      BY <1>3 DEF InHand
    <2> QED BY <2>1, <2>2, OwingIs DEF OnItsWay, Followers
  <1>8. \A s \in Subscribers : Kept(s)
    BY <1>2, KeptPhases
  <1>9. ASSUME wire' = wire
        PROVE  \A s \in Followers : /\ ~OnItsWay(s, m.version)'
                                    /\ \A n : n # m.version => (OnItsWay(s, n)' <=> OnItsWay(s, n))
    BY <1>2, <1>6, <1>7, <1>9 DEF OnItsWay, Coming
  <1>10. CASE Publish("key", m) /\ writer' = [writer EXCEPT ![w] = "idle"] /\ broker = "redis"
    <2>1. Put(bound, m) /\ wire' = wire /\ bound \subseteq Subscribers
      BY <1>0, <1>10 DEF Publish, Receivers, TypeOK
    <2>2. Followers \ bound = {}
      BY FollowersKnown
    <2>3. Failed' = Failed
      BY <1>0, <1>2, <1>10 DEF Failed, TypeOK
    <2> QED BY <1>0, <1>2, <1>3, <1>4, <1>7, <1>8, <1>9, <2>1, <2>2, <2>3, DeliverMaps
  <1>11. CASE Publish("key", m) /\ writer' = [writer EXCEPT ![w] = "idle"] /\ broker # "redis"
    <2>1. queue' = queue /\ wire' = wire \cup {[message |-> m, to |-> "key"]}
      BY <1>11 DEF Publish
    <2>2. Failed' = Failed
      BY <1>0, <1>2, <1>11 DEF Failed, TypeOK
    <2>3. \A s \in Followers : \A n : Coming(s, n)' <=> Coming(s, n) \/ n = m.version
      BY <2>1, WireMore
    <2>4. \A s \in Followers : \A n : OnItsWay(s, n)' <=> OnItsWay(s, n)
      <3>1. InHand(m.version)
        BY <1>3 DEF InHand
      <3> QED BY <1>2, <1>6, <2>3, <3>1 DEF OnItsWay
    <2> QED BY <1>2, <1>8, <2>1, <2>2, <2>4, FeedStutter
  <1>12. CASE PublishFails("key", m) /\ writer' = [writer EXCEPT ![w] = "failed"]
    <2>1. PICK r \in SUBSET Subscribers : Put(r, m) /\ wire' = wire
      BY <1>0, <1>12, ReceiversType DEF PublishFails
    <2>2. Failed' = Failed \cup {m.version}
      BY <1>0, <1>2, <1>3, <1>12 DEF Failed, TypeOK
    <2> QED BY <1>0, <1>2, <1>3, <1>4, <1>7, <1>8, <1>9, <2>1, <2>2, AbortMaps
  <1> QED BY <1>2, <1>10, <1>11, <1>12

\* A stored version reaches its reader at once over Redis; RabbitMQ is still to
\* route it.
LEMMA FeedReplay ==
    ASSUME FeedInv, NEW s \in Subscribers, NEW k \in unsent[s], Replay(s, k)
    PROVE  Feed!Next \/ UNCHANGED Feed!vars
  <1>0. TypeOK /\ FreshInv
    BY DEF FeedInv, TypeInv
  <1>1. PICK m : m = [kind |-> "in-storage", version |-> k]
    OBVIOUS
  <1>2. /\ m \in Messages /\ m.version = k /\ k \in 1 .. Len(log)
        /\ UNCHANGED <<broker, log, sub, start, version, writer>>
        /\ Publish(s, m)
        /\ unsent' = [unsent EXCEPT ![s] = @ \ {k}]
        /\ s \in Followers
    <2>1. k \in Versions /\ k <= Len(log)
      BY <1>0 DEF TypeOK, FreshInv
    <2>2. m \in Messages /\ m.version = k
      BY <1>1, <2>1 DEF Messages
    <2>3. k \in 1 .. Len(log)
      BY <1>0, <2>1 DEF Versions, TypeOK
    <2>4. s \in Followers
      BY DEF Replay, Followers, Following
    <2> QED BY <1>1, <2>2, <2>3, <2>4 DEF Replay, config
  <1>3. /\ unsent'[s] = unsent[s] \ {k}
        /\ \A r \in Subscribers : r # s => unsent'[r] = unsent[r]
    BY <1>0, <1>2 DEF TypeOK
  <1>4. \A n : InHand(n)' <=> InHand(n)
    BY <1>2 DEF InHand, Pending
  <1>5. Failed' = Failed /\ \A r \in Subscribers : Kept(r)
    BY <1>2, KeptPhases DEF Failed
  <1>6. OnItsWay(s, k) /\ Followers \subseteq Subscribers
    BY DEF OnItsWay, Followers
  <1>7. CASE broker = "redis"
    <2>1. Put({s}, m) /\ wire' = wire
      BY <1>2, <1>7, SubscribersAssumption DEF Publish, Receivers
    <2>2. \A r \in Followers : \A n : n # k => (OnItsWay(r, n)' <=> OnItsWay(r, n))
      BY <1>3, <1>4, <1>6, <2>1 DEF OnItsWay, Coming
    <2>3. \A r \in Followers \ {s} : OnItsWay(r, k)' <=> OnItsWay(r, k)
      BY <1>3, <1>4, <1>6, <2>1 DEF OnItsWay, Coming
    <2>4. k \in Owing(s)
      <3>1. ~Got(s, k)
        BY <1>7 DEF FeedInv, RedisInv, QueueOK, Replaying, Replay
      <3> QED BY <1>2, <1>6, <3>1, OwingIs DEF Followers
    <2>5. \A r \in {s} \cap Followers : m.version \in Owing(r)
      BY <1>2, <2>4
    <2> QED BY <1>0, <1>2, <1>5, <2>1, <2>2, <2>3, <2>5, DeliverMaps
  <1>8. CASE broker # "redis"
    <2>1. queue' = queue /\ wire' = wire \cup {[message |-> m, to |-> s]}
      BY <1>2, <1>8 DEF Publish
    <2>2. /\ \A n : Coming(s, n)' <=> Coming(s, n) \/ n = k
          /\ \A r \in Subscribers \ {s} : \A n : Coming(r, n)' <=> Coming(r, n)
      <3>1. \A r : \A n : Coming(r, n)' <=> Coming(r, n) \/ (s \in {"key", r} /\ n = m.version)
        BY <2>1, WireMore
      <3>2. s # "key" /\ m.version = k
        BY <1>2, SubscribersAssumption
      <3> QED BY <3>1, <3>2
    <2>3. \A r \in Followers : \A n : OnItsWay(r, n)' <=> OnItsWay(r, n)
      BY <1>3, <1>4, <1>6, <2>2 DEF OnItsWay
    <2> QED BY <1>2, <1>5, <2>1, <2>3, FeedStutter
  <1> QED BY <1>7, <1>8

\* A step of a subscription that no reader sees.
LEMMA FeedQuiet ==
    ASSUME UNCHANGED <<broker, log, wire, writer, version>>, NEW s \in Subscribers,
           \A r \in Subscribers \ {s} : UNCHANGED <<sub[r], start[r], queue[r], unsent[r]>>,
           Following(s)' <=> Following(s),
           Following(s) => UNCHANGED <<start[s], queue[s], unsent[s]>>
    PROVE  UNCHANGED Feed!vars
  <1>1. Failed' = Failed
    BY DEF Failed
  <1>2. \A r \in Subscribers : Kept(r)
    BY DEF Kept, Following, Active
  <1>3. \A n : InHand(n)' <=> InHand(n)
    BY DEF InHand, Pending
  <1>4. \A r \in Followers : /\ queue'[r] = queue[r]
                             /\ \A n : OnItsWay(r, n)' <=> OnItsWay(r, n)
    BY <1>3 DEF Followers, OnItsWay, Coming
  <1> QED BY <1>1, <1>2, <1>4, FeedStutter

\* A subscription begins to follow with the listing, and leaves when it fails or
\* its entry is removed; its other steps no reader sees.
LEMMA FeedSubscriber ==
    ASSUME FeedInv, NEW s \in Subscribers, Subscribing(s) \/ Unsubscribing(s)
    PROVE  Feed!Next \/ UNCHANGED Feed!vars
  <1>0. TypeOK /\ FreshInv
    BY DEF FeedInv, TypeInv
  <1> USE DEF routing, config
  <1>1. ASSUME NEW t \in Starts, CreateQueue(s, t) PROVE UNCHANGED Feed!vars
    BY <1>0, <1>1, FeedQuiet DEF CreateQueue, TypeOK, Following, Active
  <1>2. CASE Lock(s)
    BY <1>0, <1>2, FeedQuiet DEF Lock, TypeOK, Following, Active
  <1>3. CASE Bind(s)
    BY <1>0, <1>3, FeedQuiet DEF Bind, TypeOK, Following, Active
  <1>4. CASE List(s)
    <2>1. CASE sub' = [sub EXCEPT ![s] = "failed"] /\ unsent' = unsent
      BY <1>0, <1>4, <2>1, FeedQuiet DEF List, TypeOK, Following, Active
    <2>2. CASE /\ sub' = [sub EXCEPT ![s] = "replay"]
               /\ unsent' = [unsent EXCEPT ![s] = OldVersions(s)]
      <3>1. /\ sub[s] = "bound"
            /\ UNCHANGED <<broker, log, wire, writer, version, start, queue>>
        BY <1>4 DEF List
      <3>2. ~Following(s) /\ Following(s)' /\ start[s] \in Starts
        BY <1>0, <2>2, <3>1 DEF Following, Active, TypeOK, FreshInv
      <3>3. /\ unsent'[s] = OldVersions(s)
            /\ \A r \in Subscribers \ {s} : (Following(r)' <=> Following(r)) /\ unsent'[r] = unsent[r]
        BY <1>0, <2>2 DEF Following, Active, TypeOK
      <3>4. broker = "redis" => queue[s] = <<>> /\ wire = {}
        BY <3>1 DEF FeedInv, RedisInv, QueueOK, Empty
      <3>5. \A w \in Writers : ~Pending(w)
        BY <3>1 DEF FeedInv, CoverInv, LockOK, Locks, NoReader, Pending
      <3> QED BY <1>0, <3>1, <3>2, <3>3, <3>4, <3>5, FollowMaps
    <2> QED BY <1>4, <2>1, <2>2 DEF List
  <1>5. CASE Subscribed(s)
    BY <1>0, <1>5, FeedQuiet DEF Subscribed, TypeOK, Following, Active
  <1>6. ASSUME UNCHANGED <<broker, log, wire, writer, version, start, queue, unsent>>,
               NEW phase \in {"failed", "unlisted"}, sub' = [sub EXCEPT ![s] = phase]
        PROVE  Feed!Next
    <2>1. ~Following(s)'
      BY <1>0, <1>6 DEF Following, Active, TypeOK
    <2>2. \A r \in Subscribers \ {s} : Following(r)' <=> Following(r)
      BY <1>0, <1>6 DEF Following, Active, TypeOK
    <2> QED BY <1>6, <2>1, <2>2, LeaveMaps
  <1>7. CASE SubscribeFails(s)
    BY <1>6, <1>7 DEF SubscribeFails
  <1>8. CASE Unregister(s)
    <2>1. CASE sub' = [sub EXCEPT ![s] = "unlisted"]
      BY <1>6, <1>8, <2>1 DEF Unregister
    <2>2. CASE sub' = [sub EXCEPT ![s] = "denied"]
      BY <1>0, <1>8, <2>2, FeedQuiet DEF Unregister, TypeOK, Following, Active
    <2> QED BY <1>8, <2>1, <2>2 DEF Unregister
  <1>9. CASE Uncount(s)
    BY <1>0, <1>9, FeedQuiet DEF Uncount, TypeOK, Following, Active
  <1>10. CASE DeleteQueue(s)
    BY <1>0, <1>10, FeedQuiet DEF DeleteQueue, TypeOK, Following, Active
  <1> QED BY <1>1, <1>2, <1>3, <1>4, <1>5, <1>7, <1>8, <1>9, <1>10, FeedReplay
          DEF Subscribing, Unsubscribing

\* What RabbitMQ routes it delivers, perhaps once more.
LEMMA FeedRoute ==
    ASSUME FeedInv, NEW x \in wire, Route(x)
    PROVE  Feed!Next
  <1>0. TypeOK /\ FreshInv
    BY DEF FeedInv, TypeInv
  <1>1. PICK m : m = x.message
    OBVIOUS
  <1>2. /\ m \in Messages /\ x.to \in {"key"} \cup Subscribers
        /\ Put(Receivers(x.to), m) /\ wire' = wire \ {x}
        /\ UNCHANGED <<broker, log, sub, start, unsent, version, writer>>
        /\ Receivers(x.to) \in SUBSET Subscribers
    BY <1>0, <1>1, ReceiversType DEF Route, TypeOK, config
  <1>3. m.version \in 1 .. Len(log)
    BY <1>0, <1>1, <1>2 DEF Messages, Versions, FreshInv, TypeOK
  <1>4. broker # "redis"
    BY DEF FeedInv, RedisInv
  <1>5. Failed' = Failed /\ \A r \in Subscribers : Kept(r)
    BY <1>2, KeptPhases DEF Failed
  <1>6. \A n : InHand(n)' <=> InHand(n)
    BY <1>2 DEF InHand, Pending
  <1>7. ASSUME NEW s \in Followers PROVE s \notin Receivers(x.to) => x.to \notin {"key", s}
    BY <1>7, FollowersKnown, SubscribersAssumption DEF Receivers
  <1>8. ASSUME NEW s \in Followers, NEW n, n # m.version \/ s \notin Receivers(x.to)
        PROVE  OnItsWay(s, n)' <=> OnItsWay(s, n)
    <2>1. Coming(s, n)' <=> Coming(s, n)
      BY <1>1, <1>2, <1>7, <1>8 DEF Coming
    <2> QED BY <1>2, <1>6, <2>1 DEF OnItsWay
  <1>9. PICK R : R = Receivers(x.to)
    OBVIOUS
  <1> QED BY <1>0, <1>2, <1>3, <1>4, <1>5, <1>8, <1>9, DeliverMaps

\* The subscriptions of a key are a feed of its versions: each version from the
\* start on reaches each reader or its writer fails, whatever the order of the
\* steps, and over Redis nothing else does.
THEOREM FeedImplemented == Spec => ImplementsFeed
  <1>1. Init => Feed!Init
    <2> SUFFICES ASSUME Init PROVE Feed!Init
      OBVIOUS
    <2>1. \A s \in Subscribers : ~Following(s)
      BY DEF Init, Following, Active
    <2>2. Followers = {} /\ Failed = {}
      BY <2>1 DEF Init, Followers, Failed
    <2>3. \A s \in Subscribers : From(s) = 0 /\ Owing(s) = {} /\ Fed(s) = <<>>
      BY <2>1 DEF From, Owing, Fed
    <2> QED BY <2>2, <2>3 DEF Init, Feed!Init
  <1>2. UNCHANGED vars => UNCHANGED Feed!vars
    BY DEF vars, Feed!vars, Failed, Followers, Following, Active, From, Owing, Fed, Underway, Received
  <1>3. FeedInv /\ [Next]_vars => [Feed!Next]_(Feed!vars)
    BY <1>2, FeedWrite, FeedCheck, FeedSend, FeedSubscriber, FeedRoute DEF Next, WriterStep
  <1>4. TypeInv /\ CountInv /\ CoverInv /\ RedisInv /\ FreshInv => FeedInv
    BY DEF FeedInv
  <1> QED BY <1>1, <1>3, <1>4, CoverInvariant, RedisInvariant, FreshInvariant, PTL
          DEF Spec, ImplementsFeed, Feed!Spec
===============================================================================
