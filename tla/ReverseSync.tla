----------------------------- MODULE ReverseSync -----------------------------
(***************************************************************************)
(* Tasks between two cores of which one cannot be called: core A runs in   *)
(* reverse mode and opens streams to core B; B sends its tasks for A's     *)
(* user down the stream that its map of senders names                      *)
(* (src/src/service/task.rs).  One user of A, one of B.                    *)
(*                                                                         *)
(* A "create" is A sending a new task to B; the stream that it may open    *)
(* bears its name.  A "send" is B sending decisions to A.  What the flow   *)
(* control of the connection buffers beyond the channel is not modelled:   *)
(* it only adds room.                                                      *)
(***************************************************************************)
EXTENDS Naturals, Sequences, FiniteSets

CONSTANTS Creates,   \* tasks that A's user creates with B's user
          Sends,     \* tasks that B sends to A's user
          Forwards,  \* those of them that B forwards for a third core
          Capacity,  \* of the channel of a stream: 64
          Retries    \* polls of query_user_record after the first: 60

ASSUME SendsAssumption == Forwards \subseteq Sends /\ Creates \cap Sends = {}
ASSUME BoundAssumption == Capacity \in Nat \ {0} /\ Retries \in Nat

VARIABLES
    faulty,    \* whether anything fails in this behaviour; it never changes
    known,     \* whether both cores hold the record of the other's user
    asked,     \* requests that have started a task of the registry
    polls,     \* [requests -> polls made since]
    at,        \* [requests -> where the request stands]
    stream,    \* [Creates -> the stream at B: its handler, then its receiver]
    queue,     \* [Creates -> the tasks in the channel]
    loop,      \* [Creates -> the task that reads the stream at A]
    reading,   \* [Creates -> the send being handled by that task]
    entry,     \* the stream in B's inter_core_reverse_senders
    handler,   \* the stream in A's inter_core_reverse_handlers
    accepted,  \* the sends put into a channel, and which, in that order
    handled    \* the sends A has handled, in that order

vars == <<faulty, known, asked, polls, at, stream, queue, loop, reading, entry,
          handler, accepted, handled>>

registry == <<faulty, known, asked, polls>>
streams == <<stream, queue, loop, reading>>
maps == <<entry, handler>>
history == <<accepted, handled>>

None == "none"
Requests == Creates \cup Sends

ASSUME NoneAssumption == None \notin Requests

TypeOK ==
    /\ faulty \in BOOLEAN /\ known \in BOOLEAN
    /\ asked \subseteq Requests
    /\ polls \in [Requests -> 0 .. Retries + 1]
    /\ at \in [Requests -> {"idle", "query", "ready", "calling", "opening", "lookup",
                            "lock", "sending", "ok", "failed"}]
    /\ stream \in [Creates -> {None, "sync", "insert", "refused", "open", "closed"}]
    /\ queue \in [Creates -> Seq(Sends)]
    /\ loop \in [Creates -> {None, "waiting", "handling", "ended", "broken"}]
    /\ reading \in [Creates -> Sends \cup {None}]
    /\ entry \in Creates \cup {None} /\ handler \in Creates \cup {None}
    /\ accepted \in Seq(Sends \X Creates) /\ handled \in Seq(Sends)

Init ==
    /\ faulty \in BOOLEAN /\ known \in BOOLEAN
    /\ asked = {} /\ polls = [x \in Requests |-> 0]
    /\ at = [x \in Requests |-> "idle"]
    /\ stream = [c \in Creates |-> None] /\ queue = [c \in Creates |-> <<>>]
    /\ loop = [c \in Creates |-> None] /\ reading = [c \in Creates |-> None]
    /\ entry = None /\ handler = None
    /\ accepted = <<>> /\ handled = <<>>

Goes(x, place) == at' = [at EXCEPT ![x] = place]

\* A connection or a remote call fails, or whoever made the request goes away;
\* what the other core does of it need not end at once.
Drop(x) ==
    /\ faulty
    /\ at[x] \notin {"idle", "ok", "failed"}
    /\ Goes(x, "failed")
    /\ UNCHANGED <<registry, streams, maps, history>>

-------------------------------------------------------------------------------
(* query_user_record, on the way to a remote call                          *)

\* The request reads the record: at once, between two polls, or after the last.
Found(x) ==
    /\ at[x] = "query"
    /\ known
    /\ Goes(x, "ready")
    /\ UNCHANGED <<registry, streams, maps, history>>

Retrying(x) == polls[x] <= Retries

\* At the first miss the registry's operator is given a task.
Poll(x) ==
    /\ at[x] = "query"
    /\ ~known
    /\ Retrying(x)
    /\ polls' = [polls EXCEPT ![x] = @ + 1]
    /\ asked' = asked \cup {x}
    /\ UNCHANGED <<faulty, known, at, streams, maps, history>>

NotFound(x) ==
    /\ at[x] = "query"
    /\ ~known
    /\ ~Retrying(x)
    /\ Goes(x, "failed")
    /\ UNCHANGED <<registry, streams, maps, history>>

\* The operator of the registry stores the record, at any time or never.
Answer ==
    /\ asked # {}
    /\ ~known
    /\ known' = TRUE
    /\ UNCHANGED <<faulty, asked, polls, at, streams, maps, history>>

-------------------------------------------------------------------------------
(* send_inter_core_sync_task_with_reverse_connection, on A                 *)

StartCreate(c) ==
    /\ at[c] = "idle"
    /\ Goes(c, "query")
    /\ UNCHANGED <<registry, streams, maps, history>>

\* Mutant: the mutex is given up before the remote call.
HandlersFreeAlways == TRUE

\* The mutex of the handlers is held from the test to the end of the call.
HandlersFree == \A c \in Creates : at[c] \notin {"calling", "opening"}

\* Mutant: whatever handler is in the map is taken for a dead one.
AliveNever == FALSE

\* The map has a handler that is not finished.
Alive == handler # None /\ loop[handler] \notin {"ended", "broken"}

\* A reads the map and calls: a plain call, or the call that opens a stream.
CallB(c) ==
    /\ at[c] = "ready"
    /\ HandlersFree
    /\ IF Alive
       THEN Goes(c, "calling") /\ UNCHANGED stream
       ELSE /\ Goes(c, "opening")
            /\ stream' = [stream EXCEPT ![c] = "sync"]
    /\ UNCHANGED <<registry, queue, loop, reading, maps, history>>

PlainCall(c) ==
    /\ at[c] = "calling"
    /\ Goes(c, "ok")
    /\ UNCHANGED <<registry, streams, maps, history>>

\* The stream is there: its reader is spawned and entered into the map.
Spawn(c) ==
    /\ at[c] = "opening"
    /\ stream[c] = "open"
    /\ loop' = [loop EXCEPT ![c] = "waiting"]
    /\ handler' = c
    /\ Goes(c, "ok")
    /\ UNCHANGED <<registry, stream, queue, reading, entry, history>>

\* B's handler has ended with an error.
Refused(c) ==
    /\ at[c] = "opening"
    /\ stream[c] = "refused"
    /\ Goes(c, "failed")
    /\ UNCHANGED <<registry, streams, maps, history>>

-------------------------------------------------------------------------------
(* _inter_core_sync_task_with_reverse_connection, on B                     *)

\* The task is handled as by a plain call; an error ends the call.
SyncAtB(c) ==
    /\ stream[c] = "sync"
    /\ \E r \in {"insert"} \cup (IF faulty THEN {"refused"} ELSE {}) :
         stream' = [stream EXCEPT ![c] = r]
    /\ UNCHANGED <<registry, at, queue, loop, reading, maps, history>>

\* Nobody holds the mutex of the senders.
SendersFree == \A s \in Sends : at[s] # "sending"

\* A new channel; an earlier sender is dropped with its entry.
Insert(c) ==
    /\ stream[c] = "insert"
    /\ SendersFree
    /\ stream' = [stream EXCEPT ![c] = "open"]
    /\ entry' = c
    /\ UNCHANGED <<registry, at, queue, loop, reading, handler, history>>

\* B notices that nobody reads, or will read, the stream: its handler or the
\* receiver of the channel is dropped.
Abandoned(c) == loop[c] = None /\ at[c] = "failed"

Deserted(c) == loop[c] \in {"ended", "broken"} \/ Abandoned(c)

Close(c) ==
    /\ Deserted(c)
    /\ stream[c] \in {"sync", "insert", "open"}
    /\ stream' = [stream EXCEPT ![c] = IF @ = "open" THEN "closed" ELSE "refused"]
    /\ UNCHANGED <<registry, at, queue, loop, reading, maps, history>>

-------------------------------------------------------------------------------
(* send_inter_core_sync_task and forward_inter_core_sync_task, on B        *)

StartSend(s) ==
    /\ at[s] = "idle"
    /\ Goes(s, "lookup")
    /\ UNCHANGED <<registry, streams, maps, history>>

\* contains_key, under the mutex: the stream is used, or else the address.
LookUp(s) ==
    /\ at[s] = "lookup"
    /\ SendersFree
    /\ Goes(s, IF entry # None THEN "lock"
               ELSE IF s \in Forwards THEN "failed" ELSE "query")
    /\ UNCHANGED <<registry, streams, maps, history>>

\* The mutex is taken again and held until the channel has room.
LockSenders(s) ==
    /\ at[s] = "lock"
    /\ SendersFree
    /\ Goes(s, "sending")
    /\ UNCHANGED <<registry, streams, maps, history>>

Put(s) ==
    /\ at[s] = "sending"
    /\ stream[entry] = "open"
    /\ Len(queue[entry]) < Capacity
    /\ queue' = [queue EXCEPT ![entry] = Append(@, s)]
    /\ accepted' = Append(accepted, <<s, entry>>)
    /\ Goes(s, "ok")
    /\ UNCHANGED <<registry, stream, loop, reading, maps, handled>>

\* Mutant: a sender goes on waiting for room in a channel that is closed.
FullOrClosed(c) == stream[c] = "closed" /\ Len(queue[c]) < Capacity

ChannelClosed(c) == stream[c] = "closed"

PutFails(s) ==
    /\ at[s] = "sending"
    /\ ChannelClosed(entry)
    /\ Goes(s, "failed")
    /\ UNCHANGED <<registry, streams, maps, history>>

\* The plain call to the address of A's user.
DirectCall(s) ==
    /\ at[s] = "ready"
    /\ Goes(s, "ok")
    /\ UNCHANGED <<registry, streams, maps, history>>

-------------------------------------------------------------------------------
(* The spawned task that reads a stream, on A                              *)

Take(c) ==
    /\ loop[c] = "waiting"
    /\ queue[c] # <<>>
    /\ reading' = [reading EXCEPT ![c] = Head(queue[c])]
    /\ queue' = [queue EXCEPT ![c] = Tail(@)]
    /\ loop' = [loop EXCEPT ![c] = "handling"]
    /\ UNCHANGED <<registry, at, stream, maps, history>>

\* _inter_core_sync_task; its error ends the loop, and drops the stream.
Handle(c) ==
    /\ loop[c] = "handling"
    /\ handled' = Append(handled, reading[c])
    /\ reading' = [reading EXCEPT ![c] = None]
    /\ \E r \in {"waiting"} \cup (IF faulty THEN {"broken"} ELSE {}) :
         loop' = [loop EXCEPT ![c] = r]
    /\ UNCHANGED <<registry, at, stream, queue, maps, accepted>>

\* Mutant: the stream ends with its sender, whatever the channel holds.
DrainedOrNot(c) == stream[c] = "open" /\ entry # c

\* The sender of the channel is gone and the channel empty.
Drained(c) == stream[c] = "open" /\ entry # c /\ queue[c] = <<>>

EndOfStream(c) ==
    /\ loop[c] = "waiting"
    /\ Drained(c)
    /\ loop' = [loop EXCEPT ![c] = "ended"]
    /\ UNCHANGED <<registry, at, stream, queue, reading, maps, history>>

\* The connection breaks.
Break(c) ==
    /\ faulty
    /\ loop[c] = "waiting"
    /\ loop' = [loop EXCEPT ![c] = "broken"]
    /\ UNCHANGED <<registry, at, stream, queue, reading, maps, history>>

-------------------------------------------------------------------------------
Query(x) == Found(x) \/ Poll(x) \/ NotFound(x)

Creating(c) == Query(c) \/ CallB(c) \/ PlainCall(c) \/ Spawn(c) \/ Refused(c)

Serving(c) == SyncAtB(c) \/ Insert(c) \/ Close(c)

Sending(s) == Query(s) \/ LookUp(s) \/ LockSenders(s) \/ Put(s) \/ PutFails(s) \/ DirectCall(s)

Reading(c) == Take(c) \/ Handle(c) \/ EndOfStream(c)

Next ==
    \/ Answer
    \/ \E c \in Creates : StartCreate(c) \/ Creating(c) \/ Serving(c) \/ Reading(c) \/ Break(c)
    \/ \E s \in Sends : StartSend(s) \/ Sending(s)
    \/ \E x \in Requests : Drop(x)

Spec == Init /\ [][Next]_vars

\* The runtimes of both cores go on with what is begun; what fails need not.
Fairness ==
    /\ \A c \in Creates : WF_vars(Creating(c)) /\ WF_vars(Serving(c)) /\ WF_vars(Reading(c))
    /\ \A s \in Sends : WF_vars(Sending(s))

FairSpec == Spec /\ Fairness

-------------------------------------------------------------------------------
(* What has to hold.                                                       *)

\* Two reads of the map, and two remote calls, never overlap so as to open two
\* streams: at any time at most one task of A reads tasks from B.
OneReader ==
    \A c, d \in Creates :
        {loop[c], loop[d]} \subseteq {"waiting", "handling"} => c = d

Position(s) == CHOOSE i \in 1 .. Len(accepted) : accepted[i][1] = s

\* Through lost streams, new ones and abandoned calls that replace the sender
\* late, A handles what B has put into channels once, and in that order.
HandledInOrder ==
    /\ \A i \in 1 .. Len(handled) : \E j \in 1 .. Len(accepted) : accepted[j][1] = handled[i]
    /\ \A i, j \in 1 .. Len(handled) : i < j => Position(handled[i]) < Position(handled[j])

\* What is put into a channel is handled, unless A has lost or refused the
\* stream: a sender that is replaced leaves nothing behind in its channel.
AcceptedHandled ==
    \A s \in Sends, c \in Creates :
        (\E i \in 1 .. Len(accepted) : accepted[i] = <<s, c>>)
          ~> \/ \E i \in 1 .. Len(handled) : handled[i] = s
             \/ loop[c] = "broken" \/ Abandoned(c)

\* Although a mutex is held over a remote call on one core, and over a send to
\* a bounded channel on the other, no request waits for ever, whatever fails.
RequestsEnd == \A x \in Requests : at[x] # "idle" ~> at[x] \in {"ok", "failed"}
===============================================================================
