----------------------------- MODULE MqAccounts -----------------------------
(***************************************************************************)
(* The accounts of a core's users at the message broker: get_mq_uri of     *)
(* StorageWithMQSubscription (src/src/subscription/mq.rs), which creates   *)
(* the account of a user on the first request that needs it and keeps its  *)
(* URI in the storage, and delete_all_accounts (src/src/mq), by which a    *)
(* core that starts removes what its earlier runs have left.               *)
(*                                                                         *)
(* A request creates at most one account, with a name drawn at random, so  *)
(* the account bears the request's name.  An account is the set of its     *)
(* parts the broker has: for RabbitMQ four, created by a call each.        *)
(***************************************************************************)
EXTENDS Integers

CONSTANTS Requests,   \* requests that need the URI: subscribe, unsubscribe, publish
          Users,
          UserOf,     \* [Requests -> the user of each]
          MaxFaults,  \* bound on crashes, failed calls and dropped requests
          None

ASSUME UserOfAssumption == UserOf \in [Requests -> Users] /\ None \notin Requests
ASSUME BoundAssumption == MaxFaults \in Nat

VARIABLES
    broker,   \* the broker of this core; it never changes
    faults,   \* how many faults there may still be
    core,     \* the process: not running, deleting old accounts, or serving
    doomed,   \* accounts that delete_all_accounts has listed and has to delete
    current,  \* the account whose user it has deleted, and not yet the vhost
    has,      \* [Requests -> the parts of the account at the broker]
    stored,   \* [Users -> the account in _internal:mq_uri]
    req,      \* [Requests -> where get_mq_uri stands]
    uri       \* [Requests -> the account it has returned]

vars == <<broker, faults, core, doomed, current, has, stored, req, uri>>

deletion == <<doomed, current>>

AllParts == {"user", "vhost", "permission", "exchange"}

TypeOK ==
    /\ broker \in {"redis", "rabbitmq"} /\ faults \in 0 .. MaxFaults
    /\ core \in {"down", "cleaning", "serving"}
    /\ doomed \subseteq Requests /\ current \in doomed \cup {None}
    /\ doomed # {} => core = "cleaning"
    /\ has \in [Requests -> SUBSET AllParts]
    /\ stored \in [Users -> Requests \cup {None}]
    /\ req \in [Requests -> {"idle", "waiting", "creating", "done", "failed", "refused",
                             "gone"}]
    /\ uri \in [Requests -> Requests \cup {None}]

Init ==
    /\ broker \in {"redis", "rabbitmq"} /\ faults \in 0 .. MaxFaults
    /\ core = "down" /\ doomed = {} /\ current = None
    /\ has = [r \in Requests |-> {}]
    /\ stored = [u \in Users |-> None]
    /\ req = [r \in Requests |-> "idle"]
    /\ uri = [r \in Requests |-> None]

-------------------------------------------------------------------------------
(* get_mq_uri                                                              *)

\* What create_user_account makes: Redis has one rule for a user.
Parts == IF broker = "redis" THEN {"user"} ELSE AllParts

\* What it has made before.
Earlier(part) ==
    CASE part = "user" -> {}
      [] part = "vhost" -> {"user"}
      [] part = "permission" -> {"user", "vhost"}
      [] part = "exchange" -> {"user", "vhost", "permission"}

\* Mutant: a new account of RabbitMQ is stored before its exchange is declared.
MadeButExchange(r) == Parts \ {"exchange"} \subseteq has[r]

\* create_user_account has come to its end.
Made(r) == Parts \subseteq has[r]

\* Mutant: one mutex for each request.
MutexFreeAlways == TRUE

\* get_mq_uri_mutex, which all users share, is held until the call returns.
MutexFree == \A r \in Requests : req[r] # "creating"

Call(r) ==
    /\ core = "serving" /\ req[r] = "idle"
    /\ req' = [req EXCEPT ![r] = "waiting"]
    /\ UNCHANGED <<broker, faults, core, deletion, has, stored, uri>>

\* The mutex is taken and the stored URI, if there is one, returned.
Look(r) ==
    /\ req[r] = "waiting"
    /\ MutexFree
    /\ IF stored[UserOf[r]] = None
       THEN /\ req' = [req EXCEPT ![r] = "creating"]
            /\ UNCHANGED uri
       ELSE /\ req' = [req EXCEPT ![r] = "done"]
            /\ uri' = [uri EXCEPT ![r] = stored[UserOf[r]]]
    /\ UNCHANGED <<broker, faults, core, deletion, has, stored>>

Makes(r, part) ==
    /\ part \in Parts \ has[r]
    /\ Earlier(part) \subseteq has[r]
    /\ has' = [has EXCEPT ![r] = @ \cup {part}]

\* One call to the broker.
Create(r) ==
    /\ req[r] = "creating"
    /\ \E part \in Parts : Makes(r, part)
    /\ UNCHANGED <<broker, faults, core, deletion, stored, req, uri>>

\* storage.create, which refuses a key that exists.
Store(r) ==
    /\ req[r] = "creating"
    /\ Made(r)
    /\ IF stored[UserOf[r]] = None
       THEN /\ stored' = [stored EXCEPT ![UserOf[r]] = r]
            /\ uri' = [uri EXCEPT ![r] = r]
            /\ req' = [req EXCEPT ![r] = "done"]
       ELSE /\ req' = [req EXCEPT ![r] = "refused"]
            /\ UNCHANGED <<stored, uri>>
    /\ UNCHANGED <<broker, faults, core, deletion, has>>

\* A call to the broker fails, or the client has gone and the handler is
\* dropped at an await; what the broker was asked for it may have done.
Fail(r) ==
    /\ faults > 0 /\ faults' = faults - 1
    /\ req[r] \in {"waiting", "creating"}
    /\ req' = [req EXCEPT ![r] = "failed"]
    /\ \/ UNCHANGED has
       \/ req[r] = "creating" /\ \E part \in Parts : Makes(r, part)
    /\ UNCHANGED <<broker, core, deletion, stored, uri>>

-------------------------------------------------------------------------------
(* run_server, which serves once delete_all_accounts has returned          *)

\* The storage is new, and the accounts under the core's prefix are listed
\* by their users.
Start ==
    /\ core = "down"
    /\ core' = "cleaning"
    /\ doomed' = {a \in Requests : "user" \in has[a]}
    /\ UNCHANGED <<broker, faults, current, has, stored, req, uri>>

\* Redis deletes all of them with one command.
DeleteAtOnce ==
    /\ core = "cleaning" /\ broker = "redis"
    /\ doomed # {}
    /\ has' = [a \in Requests |-> IF a \in doomed THEN {} ELSE has[a]]
    /\ doomed' = {}
    /\ UNCHANGED <<broker, faults, core, current, stored, req, uri>>

\* Mutant: the vhost is deleted before the user.
OrderReversed == [first |-> "vhost", second |-> "user"]

\* What is deleted first of an account of RabbitMQ, and what then.
Order == [first |-> "user", second |-> "vhost"]

\* A user takes its permissions with it, a vhost them and the exchange.
With(part) == IF part = "user" THEN {"user", "permission"}
                               ELSE {"vhost", "permission", "exchange"}

\* Mutant: an error of delete_all_accounts is not handed on.
FailedStartIgnored == "serving"

\* run_server returns the error, and the process ends.
FailedStart == "down"

GivesUp == core' = FailedStart /\ doomed' = {} /\ current' = None

\* The broker refuses to delete what it does not have, and then the core does
\* not start.  What is half made is half deleted: a creation that stopped
\* before the vhost fails the next start.
DeleteFirst(a) ==
    /\ core = "cleaning" /\ broker = "rabbitmq" /\ current = None
    /\ a \in doomed
    /\ IF Order.first \in has[a]
       THEN /\ has' = [has EXCEPT ![a] = @ \ With(Order.first)]
            /\ current' = a
            /\ UNCHANGED <<core, doomed>>
       ELSE GivesUp /\ UNCHANGED has
    /\ UNCHANGED <<broker, faults, stored, req, uri>>

DeleteSecond ==
    /\ core = "cleaning" /\ current # None
    /\ IF Order.second \in has[current]
       THEN /\ has' = [has EXCEPT ![current] = @ \ With(Order.second)]
            /\ doomed' = doomed \ {current}
            /\ current' = None
            /\ UNCHANGED core
       ELSE GivesUp /\ UNCHANGED has
    /\ UNCHANGED <<broker, faults, stored, req, uri>>

\* A call of delete_all_accounts fails; the broker may have carried it out.
StartFails ==
    /\ faults > 0 /\ faults' = faults - 1
    /\ core = "cleaning"
    /\ GivesUp
    /\ \/ UNCHANGED has
       \/ /\ broker = "redis"
          /\ has' = [a \in Requests |-> IF a \in doomed THEN {} ELSE has[a]]
       \/ /\ broker = "rabbitmq" /\ current = None
          /\ \E a \in doomed : has' = [has EXCEPT ![a] = @ \ With(Order.first)]
       \/ /\ current # None
          /\ has' = [has EXCEPT ![current] = @ \ With(Order.second)]
    /\ UNCHANGED <<broker, stored, req, uri>>

Serve ==
    /\ core = "cleaning" /\ doomed = {}
    /\ core' = "serving"
    /\ UNCHANGED <<broker, faults, deletion, has, stored, req, uri>>

\* The process stops, and with it its storage and its requests; of a call
\* under way the broker may have done its part.
Crash ==
    /\ faults > 0 /\ faults' = faults - 1
    /\ core = "serving"
    /\ core' = "down"
    /\ stored' = [u \in Users |-> None]
    /\ req' = [r \in Requests |-> IF req[r] = "idle" THEN "idle" ELSE "gone"]
    /\ uri' = [r \in Requests |-> None]
    /\ \/ UNCHANGED has
       \/ \E r \in Requests, part \in Parts : req[r] = "creating" /\ Makes(r, part)
    /\ UNCHANGED <<broker, deletion>>

-------------------------------------------------------------------------------
Answer(r) == Look(r) \/ Create(r) \/ Store(r)

Starting == Start \/ DeleteAtOnce \/ DeleteSecond \/ Serve \/ \E a \in Requests : DeleteFirst(a)

Next == \/ \E r \in Requests : Call(r) \/ Answer(r) \/ Fail(r)
        \/ Starting \/ StartFails \/ Crash

\* Whoever runs the core starts it again when it has ended.
Fairness == WF_vars(Starting)

Spec == Init /\ [][Next]_vars /\ Fairness

-------------------------------------------------------------------------------
(* What has to hold.                                                       *)

Complete(a) == has[a] = IF broker = "redis" THEN {"user"} ELSE AllParts

\* A URI that get_mq_uri has returned, or will return to the next request, is
\* that of one complete account of the user, the same for all requests of the
\* run: what one subscription is bound in, another request publishes to.
UrisUsable ==
    /\ \A r \in Requests : req[r] = "done" =>
          uri[r] # None /\ uri[r] = stored[UserOf[r]]
    /\ \A u \in Users : stored[u] # None => Complete(stored[u]) /\ UserOf[stored[u]] = u

\* get_mq_uri wastes no account: what the broker has of this run is stored,
\* is being made, or was left by a fault.  In particular storage.create never
\* finds the URI of another request that has overtaken this one.
NothingWasted ==
    core = "serving" => \A a \in Requests :
        ("user" \in has[a] /\ req[a] # "gone") =>
            stored[UserOf[a]] = a \/ req[a] \in {"creating", "failed"}

\* While the core serves, no account of an earlier run opens the broker.
OldAccountsGone ==
    core = "serving" => \A a \in Requests : req[a] = "gone" => "user" \notin has[a]

\* However a creation or a deletion stopped half-way, a core that is started
\* again and again serves in the end: a start that fails leaves less to delete.
ServesInTheEnd == <>[](core = "serving")
===============================================================================
