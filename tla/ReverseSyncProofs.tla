--------------------------- MODULE ReverseSyncProofs ---------------------------
(***************************************************************************)
(* Proofs about ReverseSync, for any requests, channels of any capacity,   *)
(* with or without failures.                                               *)
(***************************************************************************)
EXTENDS ReverseSync, TLAPS

Placed(acc, s) == \E i \in 1 .. Len(acc) : acc[i][1] = s

Precedes(acc, s, t) == \E i, j \in 1 .. Len(acc) : i < j /\ acc[i][1] = s /\ acc[j][1] = t

\* How far requests, streams and their readers have come.
Control ==
    /\ \A c \in Creates :
         /\ stream[c] # None => at[c] \in {"opening", "ok", "failed"}
         /\ stream[c] \notin {"open", "closed"} => queue[c] = <<>>
         /\ loop[c] # None => at[c] = "ok"
         /\ loop[c] = "handling" => reading[c] \in Sends
    /\ \A s \in Sends : at[s] \in {"lock", "sending"} => entry \in Creates

\* The mutex of the handlers has one holder, who opens a stream only when no
\* other is read; the map names the one that is read.
Readers ==
    /\ \A c, d \in Creates :
         {at[c], at[d]} \subseteq {"calling", "opening"} => c = d
    /\ \A c \in Creates : loop[c] \in {"waiting", "handling"} => handler = c
    /\ \A c \in Creates : at[c] = "opening" => ~Alive

\* A send is accepted once.
AcceptedOnce ==
    /\ \A i \in 1 .. Len(accepted) : at[accepted[i][1]] = "ok"
    /\ \A i, j \in 1 .. Len(accepted) : accepted[i][1] = accepted[j][1] => i = j

\* The channels, and what is taken from them, are in the order of acceptance.
ChannelsInOrder ==
    \A c \in Creates :
        /\ \A k \in 1 .. Len(queue[c]) : Placed(accepted, queue[c][k])
        /\ \A k, l \in 1 .. Len(queue[c]) : k < l => Precedes(accepted, queue[c][k], queue[c][l])
        /\ loop[c] = "handling" =>
             /\ Placed(accepted, reading[c])
             /\ \A k \in 1 .. Len(queue[c]) : Precedes(accepted, reading[c], queue[c][k])

\* What has been handled comes before what may still be read.
HandledFirst ==
    /\ \A i \in 1 .. Len(handled) : Placed(accepted, handled[i])
    /\ \A i, j \in 1 .. Len(handled) : i < j => Precedes(accepted, handled[i], handled[j])
    /\ \A c \in Creates :
         /\ at[c] = "opening" \/ loop[c] \in {"waiting", "handling"} =>
              \A i \in 1 .. Len(handled), k \in 1 .. Len(queue[c]) :
                  Precedes(accepted, handled[i], queue[c][k])
         /\ loop[c] = "handling" =>
              \A i \in 1 .. Len(handled) : Precedes(accepted, handled[i], reading[c])

ReverseInv ==
    TypeOK /\ Control /\ Readers /\ AcceptedOnce /\ ChannelsInOrder /\ HandledFirst

-------------------------------------------------------------------------------
LEMMA ReverseInit == Init => ReverseInv
  <1> SUFFICES ASSUME Init PROVE ReverseInv
    OBVIOUS
  <1>1. TypeOK
    <2>1. faulty \in BOOLEAN /\ known \in BOOLEAN
      BY Zenon DEF Init
    <2>2. \A r \in {0} : r \in 0 .. Retries + 1
      BY BoundAssumption
    <2>3. polls \in [Requests -> 0 .. Retries + 1]
      BY <2>2 DEF Init
    <2>4. queue \in [Creates -> Seq(Sends)] /\ accepted \in Seq(Sends \X Creates)
          /\ handled \in Seq(Sends)
      BY DEF Init
    <2> QED BY <2>1, <2>3, <2>4 DEF Init, TypeOK, None
  <1>2. Control /\ Readers
    BY DEF Init, Control, Readers, None, Requests
  <1>3. AcceptedOnce /\ ChannelsInOrder /\ HandledFirst
    BY DEF Init, AcceptedOnce, ChannelsInOrder, HandledFirst, None
  <1> QED BY <1>1, <1>2, <1>3 DEF ReverseInv

\* What holds of the accepted sends does not depend on later ones.
LEMMA AppendKeeps ==
    ASSUME NEW acc \in Seq(Sends \X Creates), NEW s \in Sends, NEW c \in Creates
    PROVE  /\ \A t : Placed(acc, t) => /\ Placed(Append(acc, <<s, c>>), t)
                                     /\ Precedes(Append(acc, <<s, c>>), t, s)
           /\ \A t, u : Precedes(acc, t, u) => Precedes(Append(acc, <<s, c>>), t, u)
           /\ Placed(Append(acc, <<s, c>>), s)
  <1> DEFINE new == Append(acc, <<s, c>>)
  <1>1. /\ Len(new) = Len(acc) + 1 /\ Len(acc) \in Nat
        /\ new[Len(acc) + 1][1] = s
        /\ \A i \in 1 .. Len(acc) : new[i] = acc[i]
    OBVIOUS
  <1> HIDE DEF new
  <1>2. \A i \in 1 .. Len(acc) : i \in 1 .. Len(new) /\ i < Len(acc) + 1
    BY <1>1
  <1>3. Len(acc) + 1 \in 1 .. Len(new)
    BY <1>1
  <1>4. \A t : Placed(acc, t) => Placed(new, t) /\ Precedes(new, t, s)
    BY <1>1, <1>2, <1>3 DEF Placed, Precedes
  <1>5. \A t, u : Precedes(acc, t, u) => Precedes(new, t, u)
    BY <1>1, <1>2 DEF Precedes
  <1>6. Placed(new, s)
    BY <1>1, <1>3 DEF Placed
  <1> QED BY <1>4, <1>5, <1>6 DEF new

\* A request moves on, and nothing but it does.
LEMMA RequestMoves ==
    ASSUME ReverseInv, TypeOK', NEW x \in Requests, NEW v,
           at' = [at EXCEPT ![x] = v], at[x] \notin {"ok", "failed"},
           v \notin {"calling", "opening"},
           at[x] = "opening" => v \in {"ok", "failed"},
           v \in {"lock", "sending"} => entry \in Creates,
           UNCHANGED <<streams, maps, history>>
    PROVE  ReverseInv'
  <1>0. TypeOK /\ Control /\ Readers /\ AcceptedOnce /\ ChannelsInOrder /\ HandledFirst
    BY DEF ReverseInv
  <1>1. UNCHANGED <<stream, queue, loop, reading, entry, handler, accepted, handled>>
    BY DEF streams, maps, history
  <1>2. \A y \in Requests : at'[y] = IF y = x THEN v ELSE at[y]
    BY <1>0 DEF TypeOK
  <1>3. Creates \subseteq Requests /\ Sends \subseteq Requests
    BY DEF Requests
  <1>4. \A c \in Creates :
          /\ stream[c] # None => at'[c] \in {"opening", "ok", "failed"}
          /\ loop[c] # None => at'[c] = "ok"
    BY <1>0, <1>2, <1>3 DEF Control
  <1>5. \A s \in Sends : at'[s] \in {"lock", "sending"} => entry \in Creates
    BY <1>0, <1>2, <1>3 DEF Control
  <1>6. Control'
    BY <1>0, <1>1, <1>4, <1>5 DEF Control
  <1>7. Readers'
    BY <1>0, <1>1, <1>2, <1>3 DEF Readers, Alive
  <1>8. \A i \in 1 .. Len(accepted) : accepted[i][1] \in Requests
    <2>1. \A i \in 1 .. Len(accepted) : accepted[i] \in Sends \X Creates
      BY <1>0 DEF TypeOK
    <2> QED BY <2>1, <1>3
  <1>9. AcceptedOnce'
    BY <1>0, <1>1, <1>2, <1>8 DEF AcceptedOnce
  <1>10. ChannelsInOrder'
    BY <1>0, <1>1 DEF ChannelsInOrder, Placed, Precedes
  <1>11. HandledFirst'
    <2>1. \A c \in Creates : at'[c] = "opening" => at[c] = "opening"
      BY <1>2, <1>3
    <2>2. \A c \in Creates :
            /\ at'[c] = "opening" \/ loop'[c] \in {"waiting", "handling"} =>
                 at[c] = "opening" \/ loop[c] \in {"waiting", "handling"}
            /\ queue'[c] = queue[c] /\ reading'[c] = reading[c] /\ loop'[c] = loop[c]
      BY <1>1, <2>1
    <2> QED BY <1>0, <1>1, <2>2 DEF HandledFirst, Placed, Precedes
  <1> QED BY <1>6, <1>7, <1>9, <1>10, <1>11 DEF ReverseInv

\* While a stream is read, no other is, and none is being opened.
LEMMA ReadAlone ==
    ASSUME Readers, NEW c \in Creates, loop[c] \in {"waiting", "handling"}
    PROVE  /\ handler = c
           /\ \A d \in Creates : at[d] # "opening"
           /\ \A d \in Creates : loop[d] \in {"waiting", "handling"} => d = c
  <1>1. handler = c
    BY DEF Readers
  <1>2. \A d \in Creates : loop[d] \in {"waiting", "handling"} => d = c
    BY <1>1 DEF Readers
  <1>3. \A d \in Creates : at[d] # "opening"
    <2>1. c # None
      BY NoneAssumption DEF Requests
    <2> QED BY <1>1, <2>1 DEF Readers, Alive
  <1> QED BY <1>1, <1>2, <1>3

-------------------------------------------------------------------------------
\* The requests whose steps change only where they stand.
LEMMA QueryStep ==
    ASSUME ReverseInv, NEW x \in Requests,
           Query(x) \/ Drop(x) \/ Answer
    PROVE  ReverseInv'
  <1>0. TypeOK
    BY DEF ReverseInv
  <1>1. UNCHANGED <<faulty, streams, maps, history>>
    BY Zenon DEF Query, Found, Poll, NotFound, Drop, Answer, registry
  <1>2. \/ UNCHANGED at
        \/ /\ at[x] \notin {"ok", "failed"}
           /\ \/ at' = [at EXCEPT ![x] = "failed"]
              \/ at[x] = "query" /\ at' = [at EXCEPT ![x] = "ready"]
    <2>1. CASE Found(x) \/ Drop(x)
      BY <2>1 DEF Found, Drop, Goes
    <2>2. CASE NotFound(x)
      BY <2>2 DEF NotFound, Goes
    <2>3. CASE Poll(x) \/ Answer
      BY <2>3 DEF Poll, Answer
    <2> QED BY <2>1, <2>2, <2>3 DEF Query
  <1>3. TypeOK'
    <2>1. known' \in BOOLEAN
      BY <1>0, Zenon DEF TypeOK, Query, Found, Poll, NotFound, Drop, Answer, registry
    <2>2. asked' \subseteq Requests
      BY <1>0 DEF TypeOK, Query, Found, Poll, NotFound, Drop, Answer, registry
    <2>3. polls' \in [Requests -> 0 .. Retries + 1]
      <3>1. polls' = polls \/ (polls[x] <= Retries /\ polls' = [polls EXCEPT ![x] = @ + 1])
        BY DEF Query, Found, Poll, NotFound, Drop, Answer, registry, Retrying
      <3>2. CASE polls[x] <= Retries /\ polls' = [polls EXCEPT ![x] = @ + 1]
        <4>1. polls[x] + 1 \in 0 .. Retries + 1
          BY <1>0, <3>2, BoundAssumption DEF TypeOK
        <4> QED BY <1>0, <3>2, <4>1 DEF TypeOK
      <3> QED BY <1>0, <3>1, <3>2 DEF TypeOK
    <2>4. at' \in [Requests -> {"idle", "query", "ready", "calling", "opening", "lookup",
                               "lock", "sending", "ok", "failed"}]
      BY <1>0, <1>2 DEF TypeOK
    <2> QED BY <1>0, <1>1, <2>1, <2>2, <2>3, <2>4 DEF TypeOK, streams, maps, history
  <1>4. CASE UNCHANGED at
    BY <1>1, <1>3, <1>4 DEF ReverseInv, streams, maps, history, Control, Readers, Alive,
            AcceptedOnce, ChannelsInOrder, HandledFirst, Placed, Precedes
  <1>5. CASE ~UNCHANGED at
    <2>1. at[x] \notin {"ok", "failed"}
      BY <1>2, <1>5
    <2>2. CASE at' = [at EXCEPT ![x] = "failed"]
      BY <1>1, <1>3, <2>1, <2>2, RequestMoves
    <2>3. CASE at[x] = "query" /\ at' = [at EXCEPT ![x] = "ready"]
      BY <1>1, <1>3, <2>1, <2>3, RequestMoves
    <2> QED BY <1>2, <1>5, <2>2, <2>3
  <1> QED BY <1>4, <1>5

LEMMA MoveStep ==
    ASSUME ReverseInv, NEW x \in Requests,
           \/ x \in Creates /\ (StartCreate(x) \/ PlainCall(x) \/ Refused(x))
           \/ x \in Sends /\ \/ StartSend(x) \/ LookUp(x) \/ LockSenders(x) \/ PutFails(x)
                             \/ DirectCall(x)
    PROVE  ReverseInv'
  <1>0. TypeOK /\ Control
    BY DEF ReverseInv
  <1>1. UNCHANGED <<registry, streams, maps, history>>
    BY Zenon DEF StartCreate, PlainCall, Refused, StartSend, LookUp, LockSenders, PutFails,
                 DirectCall
  <1>2. PICK v \in {"query", "ok", "failed", "lookup", "lock", "sending"} :
          /\ at' = [at EXCEPT ![x] = v]
          /\ at[x] \notin {"ok", "failed"}
          /\ at[x] = "opening" => v = "failed"
          /\ v = "lock" => entry # None
          /\ v = "sending" => x \in Sends /\ at[x] = "lock"
    BY DEF StartCreate, PlainCall, Refused, StartSend, LookUp, LockSenders, PutFails,
           DirectCall, Goes
  <1>3. TypeOK'
    <2>1. at' \in [Requests -> {"idle", "query", "ready", "calling", "opening", "lookup",
                               "lock", "sending", "ok", "failed"}]
      BY <1>0, <1>2 DEF TypeOK
    <2> QED BY <1>0, <1>1, <2>1 DEF TypeOK, registry, streams, maps, history
  <1>4. v \in {"lock", "sending"} => entry \in Creates
    BY <1>0, <1>2 DEF TypeOK, Control
  <1> QED BY <1>1, <1>2, <1>3, <1>4, RequestMoves

\* A stream is opened when none is read, and nothing is in its channel.
LEMMA CallStep ==
    ASSUME ReverseInv, NEW c \in Creates, CallB(c)
    PROVE  ReverseInv'
  <1>0. TypeOK /\ Control /\ Readers /\ AcceptedOnce /\ ChannelsInOrder /\ HandledFirst
    BY DEF ReverseInv
  <1>1. /\ at[c] = "ready"
        /\ UNCHANGED <<faulty, known, asked, polls, queue, loop, reading, entry, handler,
                       accepted, handled>>
        /\ \A d \in Creates : at[d] \notin {"calling", "opening"}
    BY DEF CallB, registry, maps, history, HandlersFree
  <1>2. \/ Alive /\ at' = [at EXCEPT ![c] = "calling"] /\ stream' = stream
        \/ ~Alive /\ at' = [at EXCEPT ![c] = "opening"] /\ stream' = [stream EXCEPT ![c] = "sync"]
    BY DEF CallB, Goes
  <1>3. Creates \subseteq Requests /\ Sends \subseteq Requests /\ c \notin Sends
    BY SendsAssumption DEF Requests
  <1>4. at'[c] \in {"calling", "opening"} /\ \A y \in Requests : y # c => at'[y] = at[y]
    BY <1>0, <1>2, <1>3 DEF TypeOK
  <1>5. \A d \in Creates : stream'[d] = stream[d] \/ (d = c /\ stream'[d] = "sync" /\ at'[d] = "opening")
    BY <1>0, <1>2, <1>3 DEF TypeOK
  <1>6. stream[c] = None /\ queue[c] = <<>> /\ loop[c] = None
    BY <1>0, <1>1 DEF Control, None
  <1>7. TypeOK'
    BY <1>0, <1>1, <1>2 DEF TypeOK
  <1>8. Control'
    BY <1>0, <1>1, <1>3, <1>4, <1>5, <1>6 DEF Control
  <1>9. Readers'
    <2>1. Alive' <=> Alive
      BY <1>1 DEF Alive
    <2>2. at'[c] = "opening" => ~Alive
      BY <1>0, <1>2, <1>3 DEF TypeOK
    <2> QED BY <1>0, <1>1, <1>3, <1>4, <2>1, <2>2 DEF Readers
  <1>10. AcceptedOnce'
    <2>1. \A i \in 1 .. Len(accepted) : accepted[i] \in Sends \X Creates
      BY <1>0 DEF TypeOK
    <2> QED BY <1>0, <1>1, <1>3, <1>4, <2>1 DEF AcceptedOnce
  <1>11. ChannelsInOrder'
    BY <1>0, <1>1 DEF ChannelsInOrder, Placed, Precedes
  <1>12. HandledFirst'
    <2>1. \A d \in Creates : at'[d] = "opening" => at[d] = "opening" \/ d = c
      BY <1>3, <1>4
    <2>2. Len(queue[c]) = 0
      BY <1>6
    <2> QED BY <1>0, <1>1, <2>1, <2>2 DEF HandledFirst, Placed, Precedes
  <1> QED BY <1>7, <1>8, <1>9, <1>10, <1>11, <1>12 DEF ReverseInv

LEMMA SpawnStep ==
    ASSUME ReverseInv, NEW c \in Creates, Spawn(c)
    PROVE  ReverseInv'
  <1>0. TypeOK /\ Control /\ Readers /\ AcceptedOnce /\ ChannelsInOrder /\ HandledFirst
    BY DEF ReverseInv
  <1>1. /\ at[c] = "opening" /\ at' = [at EXCEPT ![c] = "ok"]
        /\ loop' = [loop EXCEPT ![c] = "waiting"] /\ handler' = c
        /\ UNCHANGED <<faulty, known, asked, polls, stream, queue, reading, entry,
                       accepted, handled>>
    BY DEF Spawn, registry, history, Goes
  <1>2. Creates \subseteq Requests /\ Sends \subseteq Requests /\ c \notin Sends
    BY SendsAssumption DEF Requests
  <1>3. /\ at'[c] = "ok" /\ \A y \in Requests : y # c => at'[y] = at[y]
        /\ loop'[c] = "waiting" /\ \A d \in Creates : d # c => loop'[d] = loop[d]
    BY <1>0, <1>1, <1>2 DEF TypeOK
  <1>4. \A d \in Creates : loop[d] \notin {"waiting", "handling"} /\ (at[d] = "opening" => d = c)
    BY <1>0, <1>1, ReadAlone DEF Readers
  <1>5. TypeOK'
    BY <1>0, <1>1 DEF TypeOK
  <1>6. Control'
    BY <1>0, <1>1, <1>2, <1>3 DEF Control, None
  <1>7. Readers'
    <2>1. \A d \in Creates : loop'[d] \in {"waiting", "handling"} => d = c
      BY <1>3, <1>4
    <2>2. \A d \in Creates : at'[d] # "opening"
      BY <1>2, <1>3, <1>4
    <2>3. \A d \in Creates : at'[d] = "calling" => at[d] = "calling"
      BY <1>2, <1>3
    <2> QED BY <1>0, <1>1, <2>1, <2>2, <2>3 DEF Readers
  <1>8. AcceptedOnce'
    <2>1. \A i \in 1 .. Len(accepted) : accepted[i] \in Sends \X Creates
      BY <1>0 DEF TypeOK
    <2> QED BY <1>0, <1>1, <1>2, <1>3, <2>1 DEF AcceptedOnce
  <1>9. ChannelsInOrder'
    BY <1>0, <1>1, <1>3 DEF ChannelsInOrder, Placed, Precedes
  <1>10. HandledFirst'
    <2>1. \A d \in Creates :
            /\ at'[d] = "opening" \/ loop'[d] \in {"waiting", "handling"} =>
                 at[d] = "opening" \/ loop[d] \in {"waiting", "handling"}
            /\ loop'[d] # "handling"
      BY <1>1, <1>2, <1>3, <1>4
    <2> QED BY <1>0, <1>1, <2>1 DEF HandledFirst, Placed, Precedes
  <1> QED BY <1>5, <1>6, <1>7, <1>8, <1>9, <1>10 DEF ReverseInv

\* B serves the stream.
LEMMA ServingStep ==
    ASSUME ReverseInv, NEW c \in Creates, Serving(c)
    PROVE  ReverseInv'
  <1>0. TypeOK /\ Control /\ Readers /\ AcceptedOnce /\ ChannelsInOrder /\ HandledFirst
    BY DEF ReverseInv
  <1>1. /\ UNCHANGED <<faulty, known, asked, polls, at, queue, loop, reading, handler,
                       accepted, handled>>
        /\ entry' = entry \/ entry' = c
    BY DEF Serving, SyncAtB, Insert, Close, registry, maps, history
  <1>2. /\ stream[c] # None
        /\ \/ stream' = [stream EXCEPT ![c] = "insert"]
           \/ stream' = [stream EXCEPT ![c] = "refused"]
           \/ stream' = [stream EXCEPT ![c] = "open"]
           \/ stream' = [stream EXCEPT ![c] = "closed"]
        /\ \/ stream[c] \in {"open", "closed"}
           \/ stream' # [stream EXCEPT ![c] = "closed"]
        /\ stream[c] \in {"open", "closed"} => stream' = [stream EXCEPT ![c] = "closed"]
    BY <1>0 DEF Serving, SyncAtB, Insert, Close, None, TypeOK
  <1>3. TypeOK'
    BY <1>0, <1>1, <1>2 DEF TypeOK
  <1>4. Control'
    BY <1>0, <1>1, <1>2 DEF Control, TypeOK
  <1>5. Readers' /\ AcceptedOnce'
    BY <1>0, <1>1 DEF Readers, Alive, AcceptedOnce
  <1>6. ChannelsInOrder' /\ HandledFirst'
    BY <1>0, <1>1 DEF ChannelsInOrder, HandledFirst, Placed, Precedes
  <1> QED BY <1>3, <1>4, <1>5, <1>6 DEF ReverseInv

\* B puts a send into the channel of its map: it is the last that is accepted.
LEMMA PutStep ==
    ASSUME ReverseInv, NEW s \in Sends, Put(s)
    PROVE  ReverseInv'
  <1>0. TypeOK /\ Control /\ Readers /\ AcceptedOnce /\ ChannelsInOrder /\ HandledFirst
    BY DEF ReverseInv
  <1>1. Creates \subseteq Requests /\ Sends \subseteq Requests /\ s \notin Creates
    BY SendsAssumption DEF Requests
  <1>2. /\ at[s] = "sending" /\ entry \in Creates /\ stream[entry] = "open"
        /\ queue' = [queue EXCEPT ![entry] = Append(@, s)]
        /\ accepted' = Append(accepted, <<s, entry>>)
        /\ at' = [at EXCEPT ![s] = "ok"]
        /\ UNCHANGED <<faulty, known, asked, polls, stream, loop, reading, entry, handler, handled>>
    BY <1>0 DEF Put, registry, maps, Goes, Control
  <1>3. at'[s] = "ok" /\ \A y \in Requests : y # s => at'[y] = at[y]
    BY <1>0, <1>1, <1>2 DEF TypeOK
  <1>4. /\ \A t : Placed(accepted, t) => Placed(accepted', t) /\ Precedes(accepted', t, s)
        /\ \A t, u : Precedes(accepted, t, u) => Precedes(accepted', t, u)
        /\ Placed(accepted', s)
    BY <1>0, <1>2, AppendKeeps DEF TypeOK
  <1>5. /\ queue'[entry] = Append(queue[entry], s) /\ queue[entry] \in Seq(Sends)
        /\ \A c \in Creates : c # entry => queue'[c] = queue[c]
    BY <1>0, <1>2 DEF TypeOK
  <1>6. /\ Len(queue'[entry]) = Len(queue[entry]) + 1 /\ Len(queue[entry]) \in Nat
        /\ queue'[entry][Len(queue[entry]) + 1] = s
        /\ \A k \in 1 .. Len(queue[entry]) : queue'[entry][k] = queue[entry][k]
    BY <1>5
  <1>7. TypeOK'
    <2>1. queue' \in [Creates -> Seq(Sends)]
      <3>1. Append(queue[entry], s) \in Seq(Sends)
        BY <1>5
      <3> QED BY <1>0, <1>2, <3>1 DEF TypeOK
    <2>2. accepted' \in Seq(Sends \X Creates)
      BY <1>0, <1>2 DEF TypeOK
    <2>3. at' \in [Requests -> {"idle", "query", "ready", "calling", "opening", "lookup",
                               "lock", "sending", "ok", "failed"}]
      BY <1>0, <1>2 DEF TypeOK
    <2> QED BY <1>0, <1>2, <2>1, <2>2, <2>3 DEF TypeOK
  <1>8. Control'
    BY <1>0, <1>1, <1>2, <1>3, <1>5 DEF Control
  <1>9. Readers'
    BY <1>0, <1>1, <1>2, <1>3 DEF Readers, Alive
  <1>10. AcceptedOnce'
    <2>1. /\ Len(accepted') = Len(accepted) + 1 /\ Len(accepted) \in Nat
          /\ accepted'[Len(accepted) + 1] = <<s, entry>>
          /\ \A i \in 1 .. Len(accepted) : accepted'[i] = accepted[i]
      BY <1>0, <1>2 DEF TypeOK
    <2>2. \A i \in 1 .. Len(accepted) : accepted[i][1] \in Requests /\ accepted[i][1] # s
      <3>1. \A i \in 1 .. Len(accepted) : accepted[i] \in Sends \X Creates
        BY <1>0 DEF TypeOK
      <3> QED BY <1>0, <1>1, <1>2, <3>1 DEF AcceptedOnce
    <2>3. \A i \in 1 .. Len(accepted') : i \in 1 .. Len(accepted) \/ i = Len(accepted) + 1
      BY <2>1
    <2>4. \A i \in 1 .. Len(accepted') : at'[accepted'[i][1]] = "ok"
      BY <1>0, <1>3, <2>1, <2>2, <2>3 DEF AcceptedOnce
    <2>5. \A i, j \in 1 .. Len(accepted') : accepted'[i][1] = accepted'[j][1] => i = j
      BY <1>0, <2>1, <2>2, <2>3 DEF AcceptedOnce
    <2> QED BY <2>4, <2>5 DEF AcceptedOnce
  <1>11. \A c \in Creates : \A k \in 1 .. Len(queue'[c]) :
           \/ k \in 1 .. Len(queue[c]) /\ queue'[c][k] = queue[c][k]
           \/ c = entry /\ k = Len(queue[c]) + 1 /\ queue'[c][k] = s
    BY <1>5, <1>6
  <1>12. ChannelsInOrder'
    <2> SUFFICES ASSUME NEW c \in Creates
                 PROVE  /\ \A k \in 1 .. Len(queue'[c]) : Placed(accepted', queue'[c][k])
                        /\ \A k, l \in 1 .. Len(queue'[c]) :
                             k < l => Precedes(accepted', queue'[c][k], queue'[c][l])
                        /\ loop'[c] = "handling" =>
                             /\ Placed(accepted', reading'[c])
                             /\ \A k \in 1 .. Len(queue'[c]) : Precedes(accepted', reading'[c], queue'[c][k])
      BY DEF ChannelsInOrder
    <2>0. Len(queue[c]) \in Nat
      BY <1>0 DEF TypeOK
    <2>1. \A k \in 1 .. Len(queue'[c]) : Placed(accepted', queue'[c][k])
      BY <1>0, <1>4, <1>11 DEF ChannelsInOrder
    <2>2. ASSUME NEW k \in 1 .. Len(queue'[c]), NEW l \in 1 .. Len(queue'[c]), k < l
          PROVE  Precedes(accepted', queue'[c][k], queue'[c][l])
      <3>1. k \in 1 .. Len(queue[c]) /\ queue'[c][k] = queue[c][k]
        BY <1>11, <1>5, <1>6, <2>0, <2>2
      <3>2. CASE l \in 1 .. Len(queue[c]) /\ queue'[c][l] = queue[c][l]
        BY <1>0, <1>4, <2>2, <3>1, <3>2 DEF ChannelsInOrder
      <3>3. CASE queue'[c][l] = s
        <4>1. Placed(accepted, queue[c][k])
          BY <1>0, <3>1 DEF ChannelsInOrder
        <4>2. Precedes(accepted', queue'[c][k], s)
          BY <1>2, <1>4, <3>1, <4>1
        <4> QED BY <3>1, <3>3, <4>2
      <3> QED BY <1>11, <3>2, <3>3
    <2>3. CASE loop[c] = "handling"
      <3>1. Placed(accepted, reading[c]) /\ \A k \in 1 .. Len(queue[c]) : Precedes(accepted, reading[c], queue[c][k])
        BY <1>0, <2>3 DEF ChannelsInOrder
      <3>2. Placed(accepted', reading'[c]) /\ \A k \in 1 .. Len(queue'[c]) : Precedes(accepted', reading'[c], queue'[c][k])
        BY <1>2, <1>4, <1>11, <3>1
      <3> QED BY <2>1, <2>2, <3>2
    <2> QED BY <1>2, <2>1, <2>2, <2>3
  <1>13. HandledFirst'
    <2>1. \A i \in 1 .. Len(handled) : Placed(accepted', handled'[i])
      BY <1>0, <1>2, <1>4 DEF HandledFirst
    <2>2. \A i, j \in 1 .. Len(handled) : i < j => Precedes(accepted', handled'[i], handled'[j])
      BY <1>0, <1>2, <1>4 DEF HandledFirst
    <2>3. ASSUME NEW c \in Creates, at'[c] = "opening" \/ loop'[c] \in {"waiting", "handling"},
                 NEW i \in 1 .. Len(handled), NEW k \in 1 .. Len(queue'[c])
          PROVE  Precedes(accepted', handled'[i], queue'[c][k])
      <3>1. at[c] = "opening" \/ loop[c] \in {"waiting", "handling"}
        BY <1>1, <1>2, <1>3, <2>3
      <3>2. CASE k \in 1 .. Len(queue[c]) /\ queue'[c][k] = queue[c][k]
        BY <1>0, <1>2, <1>4, <3>1, <3>2 DEF HandledFirst
      <3>3. CASE queue'[c][k] = s
        <4>1. Placed(accepted, handled[i])
          BY <1>0 DEF HandledFirst
        <4> QED BY <1>2, <1>4, <3>3, <4>1
      <3> QED BY <1>11, <3>2, <3>3
    <2>4. \A c \in Creates : loop[c] = "handling" =>
            \A i \in 1 .. Len(handled) : Precedes(accepted', handled'[i], reading'[c])
      BY <1>0, <1>2, <1>4 DEF HandledFirst
    <2> QED BY <1>2, <2>1, <2>2, <2>3, <2>4 DEF HandledFirst
  <1> QED BY <1>7, <1>8, <1>9, <1>10, <1>12, <1>13 DEF ReverseInv

\* A takes the first task from the channel of the stream it reads.
LEMMA TakeStep ==
    ASSUME ReverseInv, NEW c \in Creates, Take(c)
    PROVE  ReverseInv'
  <1>0. TypeOK /\ Control /\ Readers /\ AcceptedOnce /\ ChannelsInOrder /\ HandledFirst
    BY DEF ReverseInv
  <1>1. /\ loop[c] = "waiting" /\ queue[c] # <<>>
        /\ reading' = [reading EXCEPT ![c] = Head(queue[c])]
        /\ queue' = [queue EXCEPT ![c] = Tail(@)]
        /\ loop' = [loop EXCEPT ![c] = "handling"]
        /\ UNCHANGED <<faulty, known, asked, polls, at, stream, entry, handler, accepted, handled>>
    BY DEF Take, registry, maps, history
  <1>2. /\ queue[c] \in Seq(Sends) /\ Len(queue[c]) \in Nat \ {0}
        /\ reading'[c] = queue[c][1] /\ queue[c][1] \in Sends
        /\ queue'[c] \in Seq(Sends) /\ Len(queue'[c]) = Len(queue[c]) - 1
        /\ \A k \in 1 .. Len(queue'[c]) :
             k + 1 \in 1 .. Len(queue[c]) /\ queue'[c][k] = queue[c][k + 1]
    <2>1. queue[c] \in Seq(Sends)
      BY <1>0 DEF TypeOK
    <2>2. reading'[c] = Head(queue[c]) /\ queue'[c] = Tail(queue[c])
      BY <1>0, <1>1 DEF TypeOK
    <2>3. Len(queue[c]) \in Nat \ {0} /\ Head(queue[c]) = queue[c][1] /\ queue[c][1] \in Sends
      BY <1>1, <2>1
    <2>4. /\ Tail(queue[c]) \in Seq(Sends) /\ Len(Tail(queue[c])) = Len(queue[c]) - 1
          /\ \A k \in 1 .. Len(queue[c]) - 1 : Tail(queue[c])[k] = queue[c][k + 1]
      BY <1>1, <2>1
    <2>5. \A k \in 1 .. Len(queue[c]) - 1 : k + 1 \in 1 .. Len(queue[c])
      BY <2>3
    <2> QED BY <2>1, <2>2, <2>3, <2>4, <2>5
  <1>3. /\ loop'[c] = "handling"
        /\ \A d \in Creates : d # c =>
             queue'[d] = queue[d] /\ reading'[d] = reading[d] /\ loop'[d] = loop[d]
    BY <1>0, <1>1 DEF TypeOK
  <1>4. handler = c /\ \A d \in Creates : at[d] # "opening" /\
          (loop[d] \in {"waiting", "handling"} => d = c)
    BY <1>0, <1>1, ReadAlone
  <1>5. TypeOK'
    <2>1. queue' \in [Creates -> Seq(Sends)]
      BY <1>0, <1>1, <1>2, <1>3 DEF TypeOK
    <2>2. reading' \in [Creates -> Sends \cup {None}]
      BY <1>0, <1>1, <1>2, <1>3 DEF TypeOK
    <2> QED BY <1>0, <1>1, <2>1, <2>2 DEF TypeOK
  <1>6. Control'
    <2>1. stream[c] \in {"open", "closed"}
      BY <1>0, <1>1 DEF Control
    <2>2. at[c] = "ok"
      BY <1>0, <1>1 DEF Control, None
    <2> QED BY <1>0, <1>1, <1>2, <1>3, <2>1, <2>2 DEF Control
  <1>7. Readers'
    BY <1>0, <1>1, <1>3, <1>4 DEF Readers
  <1>8. AcceptedOnce'
    BY <1>0, <1>1 DEF AcceptedOnce
  <1>9. ChannelsInOrder'
    <2> SUFFICES ASSUME NEW d \in Creates
                 PROVE  /\ \A k \in 1 .. Len(queue'[d]) : Placed(accepted, queue'[d][k])
                        /\ \A k, l \in 1 .. Len(queue'[d]) :
                             k < l => Precedes(accepted, queue'[d][k], queue'[d][l])
                        /\ loop'[d] = "handling" =>
                             /\ Placed(accepted, reading'[d])
                             /\ \A k \in 1 .. Len(queue'[d]) :
                                  Precedes(accepted, reading'[d], queue'[d][k])
      BY <1>1 DEF ChannelsInOrder
    <2>1. CASE d # c
      BY <1>0, <1>3, <2>1 DEF ChannelsInOrder
    <2>2. CASE d = c
      <3>1. /\ \A k \in 1 .. Len(queue[c]) : Placed(accepted, queue[c][k])
            /\ \A k, l \in 1 .. Len(queue[c]) :
                 k < l => Precedes(accepted, queue[c][k], queue[c][l])
        BY <1>0 DEF ChannelsInOrder
      <3>2. 1 \in 1 .. Len(queue[c]) /\ \A k \in 1 .. Len(queue'[c]) : 1 < k + 1
        BY <1>2
      <3>3. \A k, l \in 1 .. Len(queue'[c]) : k < l => k + 1 < l + 1
        BY <1>2
      <3> QED BY <1>2, <2>2, <3>1, <3>2, <3>3
    <2> QED BY <2>1, <2>2
  <1>10. HandledFirst'
    <2>1. \A i \in 1 .. Len(handled), k \in 1 .. Len(queue[c]) :
            Precedes(accepted, handled[i], queue[c][k])
      BY <1>0, <1>1 DEF HandledFirst
    <2>2. \A i \in 1 .. Len(handled) :
            /\ Precedes(accepted, handled[i], reading'[c])
            /\ \A k \in 1 .. Len(queue'[c]) : Precedes(accepted, handled[i], queue'[c][k])
      BY <1>2, <2>1
    <2>3. \A d \in Creates :
            at'[d] = "opening" \/ loop'[d] \in {"waiting", "handling"} => d = c
      BY <1>1, <1>3, <1>4
    <2> QED BY <1>0, <1>1, <2>2, <2>3 DEF HandledFirst
  <1> QED BY <1>5, <1>6, <1>7, <1>8, <1>9, <1>10 DEF ReverseInv

\* What is handled comes before what is left in the channel.
LEMMA HandleStep ==
    ASSUME ReverseInv, NEW c \in Creates, Handle(c)
    PROVE  ReverseInv'
  <1>0. TypeOK /\ Control /\ Readers /\ AcceptedOnce /\ ChannelsInOrder /\ HandledFirst
    BY DEF ReverseInv
  <1>1. /\ loop[c] = "handling" /\ handled' = Append(handled, reading[c])
        /\ reading' = [reading EXCEPT ![c] = None]
        /\ \/ loop' = [loop EXCEPT ![c] = "waiting"]
           \/ loop' = [loop EXCEPT ![c] = "broken"]
        /\ UNCHANGED <<faulty, known, asked, polls, at, stream, queue, entry, handler, accepted>>
    BY DEF Handle, registry, maps
  <1>2. /\ loop'[c] \in {"waiting", "broken"}
        /\ \A d \in Creates : d # c => loop'[d] = loop[d] /\ reading'[d] = reading[d]
    BY <1>0, <1>1 DEF TypeOK
  <1>3. reading[c] \in Sends /\ Placed(accepted, reading[c])
    BY <1>0, <1>1 DEF Control, ChannelsInOrder
  <1>4. /\ Len(handled') = Len(handled) + 1 /\ Len(handled) \in Nat
        /\ handled'[Len(handled) + 1] = reading[c]
        /\ \A i \in 1 .. Len(handled) : handled'[i] = handled[i]
    BY <1>0, <1>1, <1>3 DEF TypeOK
  <1>5. \A i \in 1 .. Len(handled') :
          \/ i \in 1 .. Len(handled) /\ handled'[i] = handled[i]
          \/ i = Len(handled) + 1 /\ handled'[i] = reading[c]
    BY <1>4
  <1>6. handler = c /\ \A d \in Creates : at[d] # "opening" /\
          (loop[d] \in {"waiting", "handling"} => d = c)
    BY <1>0, <1>1, ReadAlone
  <1>7. TypeOK'
    <2>1. handled' \in Seq(Sends)
      BY <1>0, <1>1, <1>3 DEF TypeOK
    <2> QED BY <1>0, <1>1, <2>1 DEF TypeOK
  <1>8. Control'
    BY <1>0, <1>1, <1>2 DEF Control, None
  <1>9. Readers'
    BY <1>0, <1>1, <1>2, <1>6 DEF Readers
  <1>10. AcceptedOnce'
    BY <1>0, <1>1 DEF AcceptedOnce
  <1>11. ChannelsInOrder'
    <2>1. \A d \in Creates : loop'[d] # "handling"
      BY <1>1, <1>2, <1>6
    <2> QED BY <1>0, <1>1, <2>1 DEF ChannelsInOrder
  <1>12. HandledFirst'
    <2>1. \A i \in 1 .. Len(handled) : Precedes(accepted, handled[i], reading[c])
      BY <1>0, <1>1 DEF HandledFirst
    <2>2. \A i \in 1 .. Len(handled') : Placed(accepted, handled'[i])
      BY <1>0, <1>3, <1>5 DEF HandledFirst
    <2>3. \A i, j \in 1 .. Len(handled') : i < j => Precedes(accepted, handled'[i], handled'[j])
      <3> SUFFICES ASSUME NEW i \in 1 .. Len(handled'), NEW j \in 1 .. Len(handled'), i < j
                   PROVE  Precedes(accepted, handled'[i], handled'[j])
        OBVIOUS
      <3>1. i \in 1 .. Len(handled) /\ handled'[i] = handled[i]
        BY <1>4, <1>5
      <3> QED BY <1>0, <1>5, <2>1, <3>1 DEF HandledFirst
    <2>4. \A i \in 1 .. Len(handled'), k \in 1 .. Len(queue[c]) :
            Precedes(accepted, handled'[i], queue[c][k])
      <3>1. /\ \A k \in 1 .. Len(queue[c]) : Precedes(accepted, reading[c], queue[c][k])
            /\ \A i \in 1 .. Len(handled), k \in 1 .. Len(queue[c]) :
                 Precedes(accepted, handled[i], queue[c][k])
        BY <1>0, <1>1 DEF ChannelsInOrder, HandledFirst
      <3> QED BY <1>5, <3>1
    <2>5. \A d \in Creates :
            /\ at'[d] = "opening" \/ loop'[d] \in {"waiting", "handling"} => d = c
            /\ loop'[d] # "handling"
      BY <1>1, <1>2, <1>6
    <2> QED BY <1>1, <2>2, <2>3, <2>4, <2>5 DEF HandledFirst
  <1> QED BY <1>7, <1>8, <1>9, <1>10, <1>11, <1>12 DEF ReverseInv

\* A stream ends.
LEMMA EndStep ==
    ASSUME ReverseInv, NEW c \in Creates, EndOfStream(c) \/ Break(c)
    PROVE  ReverseInv'
  <1>0. TypeOK /\ Control /\ Readers /\ AcceptedOnce /\ ChannelsInOrder /\ HandledFirst
    BY DEF ReverseInv
  <1>1. /\ loop[c] = "waiting"
        /\ \/ loop' = [loop EXCEPT ![c] = "ended"]
           \/ loop' = [loop EXCEPT ![c] = "broken"]
        /\ UNCHANGED <<faulty, known, asked, polls, at, stream, queue, reading, entry, handler,
                       accepted, handled>>
    BY DEF EndOfStream, Break, registry, maps, history
  <1>2. loop'[c] \in {"ended", "broken"} /\ \A d \in Creates : d # c => loop'[d] = loop[d]
    BY <1>0, <1>1 DEF TypeOK
  <1>3. handler = c /\ \A d \in Creates : at[d] # "opening" /\
          (loop[d] \in {"waiting", "handling"} => d = c)
    BY <1>0, <1>1, ReadAlone
  <1>4. TypeOK'
    BY <1>0, <1>1 DEF TypeOK
  <1>5. Control'
    BY <1>0, <1>1, <1>2 DEF Control, None
  <1>6. Readers'
    BY <1>0, <1>1, <1>2, <1>3 DEF Readers
  <1>7. AcceptedOnce'
    BY <1>0, <1>1 DEF AcceptedOnce
  <1>8. ChannelsInOrder' /\ HandledFirst'
    <2>1. \A d \in Creates : at'[d] # "opening" /\ loop'[d] \notin {"waiting", "handling"}
      BY <1>1, <1>2, <1>3
    <2>2. ChannelsInOrder'
      BY <1>0, <1>1, <2>1 DEF ChannelsInOrder
    <2>3. HandledFirst'
      BY <1>0, <1>1, <2>1 DEF HandledFirst
    <2> QED BY <2>2, <2>3
  <1> QED BY <1>4, <1>5, <1>6, <1>7, <1>8 DEF ReverseInv

-------------------------------------------------------------------------------
\* The inductive invariant of the streams and of the order of what they carry.
THEOREM ReverseInvariant == Spec => []ReverseInv
  <1>1. ReverseInv /\ [Next]_vars => ReverseInv'
    <2> SUFFICES ASSUME ReverseInv, [Next]_vars PROVE ReverseInv'
      OBVIOUS
    <2> Creates \subseteq Requests /\ Sends \subseteq Requests
      BY DEF Requests
    <2>1. CASE UNCHANGED vars
      BY <2>1 DEF vars, ReverseInv, TypeOK, Control, Readers, Alive, AcceptedOnce,
                  ChannelsInOrder, HandledFirst
    <2>2. ASSUME NEW c \in Creates,
                 StartCreate(c) \/ Creating(c) \/ Serving(c) \/ Reading(c) \/ Break(c)
          PROVE  ReverseInv'
      <3>1. CASE StartCreate(c) \/ PlainCall(c) \/ Refused(c)
        BY <3>1, MoveStep
      <3>2. CASE Query(c)
        BY <3>2, QueryStep
      <3>3. CASE CallB(c) \/ Spawn(c) \/ Serving(c)
        BY <3>3, CallStep, SpawnStep, ServingStep
      <3>4. CASE Take(c) \/ Handle(c) \/ EndOfStream(c) \/ Break(c)
        BY <3>4, TakeStep, HandleStep, EndStep
      <3> QED BY <2>2, <3>1, <3>2, <3>3, <3>4 DEF Creating, Reading
    <2>3. ASSUME NEW s \in Sends, StartSend(s) \/ Sending(s) PROVE ReverseInv'
      BY <2>3, QueryStep, MoveStep, PutStep DEF Sending
    <2>4. ASSUME NEW x \in Requests, Drop(x) PROVE ReverseInv'
      BY <2>4, QueryStep
    <2>5. CASE Answer
      <3>1. \A x \in Requests : ReverseInv'
        BY <2>5, QueryStep
      <3>2. asked # {} => Requests # {}
        BY DEF ReverseInv, TypeOK
      <3> QED BY <2>5, <3>1, <3>2 DEF Answer
    <2> QED BY <2>1, <2>2, <2>3, <2>4, <2>5 DEF Next
  <1> QED BY <1>1, ReverseInit, PTL DEF Spec

\* The state of both cores has its type.
THEOREM ReverseTypeCorrect == Spec => []TypeOK
  <1>1. ReverseInv => TypeOK
    BY DEF ReverseInv
  <1> QED BY <1>1, ReverseInvariant, PTL

\* At most one stream is read at any time.
THEOREM OneReaderCorrect == Spec => []OneReader
  <1>1. ReverseInv => OneReader
    BY DEF ReverseInv, Readers, OneReader
  <1> QED BY <1>1, ReverseInvariant, PTL

\* What A handles, it handles once and in the order in which B accepted it.
THEOREM OrderCorrect == Spec => []HandledInOrder
  <1>1. ReverseInv => HandledInOrder
    <2> SUFFICES ASSUME ReverseInv PROVE HandledInOrder
      OBVIOUS
    <2>0. AcceptedOnce /\ HandledFirst
      BY DEF ReverseInv
    <2>1. \A i \in 1 .. Len(accepted) : Position(accepted[i][1]) = i
      BY <2>0 DEF AcceptedOnce, Position
    <2>2. \A i \in 1 .. Len(handled) : \E j \in 1 .. Len(accepted) : accepted[j][1] = handled[i]
      BY <2>0 DEF HandledFirst, Placed
    <2>3. \A i, j \in 1 .. Len(handled) : i < j => Position(handled[i]) < Position(handled[j])
      <3> SUFFICES ASSUME NEW i \in 1 .. Len(handled), NEW j \in 1 .. Len(handled), i < j
                   PROVE  Position(handled[i]) < Position(handled[j])
        OBVIOUS
      <3>1. Precedes(accepted, handled[i], handled[j])
        BY <2>0 DEF HandledFirst
      <3>2. PICK k \in 1 .. Len(accepted), l \in 1 .. Len(accepted) :
              k < l /\ accepted[k][1] = handled[i] /\ accepted[l][1] = handled[j]
        BY <3>1 DEF Precedes
      <3>3. Position(handled[i]) = k /\ Position(handled[j]) = l
        BY <2>1, <3>2
      <3> QED BY <3>2, <3>3
    <2> QED BY <2>2, <2>3 DEF HandledInOrder
  <1> QED BY <1>1, ReverseInvariant, PTL
===============================================================================
