------------------------------- MODULE TaskSync -------------------------------
(***************************************************************************)
(* The life of ONE task across the cores of its participants               *)
(* (src/src/service/task.rs).  Participant 0 is the initiator; the others  *)
(* receive the task from it, confirm it, and send their decision back.     *)
(* When the initiator's core holds every decision, or one rejection, it    *)
(* settles the task and, with more than two participants, broadcasts it.   *)
(*                                                                         *)
(* Every inter-core call is served by a handler of its own on the          *)
(* receiving core.  A section that holds task_storage_mutex is one action; *)
(* a handler is split where the code gives the mutex up, works without it  *)
(* or awaits another core, so that handlers, users and the sequential send *)
(* loops interleave as the tasks of the tokio runtime do.  A call that is  *)
(* dropped inside a section, or fails there, leaves it half done: the      *)
(* actions whose names end in Cut.                                         *)
(***************************************************************************)
EXTENDS Naturals

CONSTANTS N,                 \* task.participants.len()
          RequireAgreement,  \* task.require_agreement
          Lossy,             \* calls may be cut off and replies lost
          Expiring,          \* the clocks may pass task.expiration_time
          Prefilling         \* the create request may carry decisions

ASSUME NAssumption == N \in Nat \ {0}
ASSUME FlagAssumption == {RequireAgreement, Lossy, Expiring, Prefilling} \subseteq BOOLEAN

Parts == 0 .. N - 1
Others == 1 .. N - 1

\* Task.status; "absent" when the core holds no tasks:{id}.
Statuses == {"waiting", "approved", "rejected", "ignored", "started", "finished"}

\* A Decision is Default::default(), here "none", or it was signed by the core
\* of its participant, or whoever made the create request wrote it there.  As
\* the signature covers the new task_id, no such decision passes a check.
Signable == {"approve", "reject", "ignore"}
Unsigned == {"unsigned_approve", "unsigned_reject", "unsigned_ignore"}
Decisions == {"none"} \cup Signable \cup Unsigned

(***************************************************************************)
(* The inter-core calls of the task: the initiator's create loop, the call *)
(* at the end of each confirm, and the broadcast made by the handler of    *)
(* p's confirm call.  A call is <<kind, p, receiver>>.                     *)
(***************************************************************************)
CreateCall(i) == <<"create", 0, i>>
ConfirmCall(p) == <<"confirm", p, 0>>
BcastCall(p, i) == <<"bcast", p, i>>

Calls == {CreateCall(i) : i \in Others} \cup {ConfirmCall(p) : p \in Others}
           \cup {BcastCall(p, i) : p \in Others, i \in Others}

To(c) == c[3]

Phases == {"none", "sent", "listing", "decide", "bcast", "ok", "failed"}

VARIABLES
    status,      \* [Parts -> status in tasks:{id}]
    decisions,   \* [Parts -> decisions in tasks:{id}]
    listed,      \* [Parts -> [Statuses -> entries in both lists of that status]]
    announced,   \* [Parts -> [Statuses -> updates of the lists' ":latest" key]]
    creating,    \* where _create_task stands
    phase,       \* [Calls -> where the call, and its handler, stand]
    payload,     \* [Calls -> the decisions it carries]
    verdict,     \* [Calls -> anyone_rejected, computed in the first section]
    expired,     \* [Parts -> now > expiration_time on that core's clock]
    filled,      \* the decisions the create request carries for the others
    cut          \* cores on which a section that writes lists was cut off

vars == <<status, decisions, listed, announced, creating, phase, payload,
          verdict, expired, filled, cut>>

task == <<status, decisions, listed, announced, cut>>

NoDecisions == [i \in Parts |-> "none"]
NoEntries == [s \in Statuses |-> 0]

\* _create_task overwrites the decision of the initiator, and no other.
Requests == {f \in [Parts -> {"none"} \cup Unsigned] :
               f[0] = "none" /\ (~Prefilling => f = NoDecisions)}

TypeOK ==
    /\ status \in [Parts -> Statuses \cup {"absent"}]
    /\ decisions \in [Parts -> [Parts -> Decisions]]
    /\ listed \in [Parts -> [Statuses -> Nat]]
    /\ announced \in [Parts -> [Statuses -> Nat]]
    /\ creating \in {"idle", "sending", "done", "failed"}
    /\ phase \in [Calls -> Phases]
    /\ payload \in [Calls -> [Parts -> Decisions]]
    /\ verdict \in [Calls -> BOOLEAN]
    /\ expired \in [Parts -> BOOLEAN]
    /\ filled \in Requests
    /\ cut \subseteq Parts

Init ==
    /\ status = [p \in Parts |-> "absent"]
    /\ decisions = [p \in Parts |-> NoDecisions]
    /\ listed = [p \in Parts |-> NoEntries]
    /\ announced = [p \in Parts |-> NoEntries]
    /\ creating = "idle"
    /\ phase = [c \in Calls |-> "none"]
    /\ payload = [c \in Calls |-> NoDecisions]
    /\ verdict = [c \in Calls |-> FALSE]
    /\ expired = [p \in Parts |-> FALSE]
    /\ filled \in Requests
    /\ cut = {}

-------------------------------------------------------------------------------
(* The counts the handlers take over the decisions of a task.              *)

Approves(v) == v \in {"approve", "unsigned_approve"}
Rejects(v) == v \in {"reject", "unsigned_reject"}

AllApprove(d) == \A i \in Parts : Approves(d[i])

\* Mutant: a decision that is not rejected counts as valid, given or not.
AllValidOrUnset(d) == \A i \in Parts : Approves(d[i]) \/ Rejects(d[i]) \/ d[i] = "none"

AllValid(d) == \A i \in Parts : Approves(d[i]) \/ Rejects(d[i])
AnyReject(d) == \E i \in Parts : Rejects(d[i])

(* The two status lists, protocols:{name}:{s} and tasks:status:{s}, are    *)
(* changed one after the other, always under the mutex.  An entry counts   *)
(* here if it is in both.                                                  *)

\* add_task_new_status: one more entry, and the ":latest" key is written.
Add(p, s) ==
    /\ listed' = [listed EXCEPT ![p][s] = @ + 1]
    /\ announced' = [announced EXCEPT ![p][s] = @ + 1]

\* Mutant: a missing entry is not an error.
RemovableOrNot(p) == status[p] \in Statuses

\* remove_task_old_status finds the entry it looks for, or fails.
Removable(p) == status[p] \in Statuses /\ listed[p][status[p]] > 0

\* remove_task_old_status, the update of tasks:{id}, add_task_new_status.
ChangeStatus(p, s) ==
    /\ Removable(p)
    /\ listed' = [listed EXCEPT ![p] =
                    [t \in Statuses |-> (@[t] - (IF t = status[p] THEN 1 ELSE 0))
                                          + (IF t = s THEN 1 ELSE 0)]]
    /\ announced' = [announced EXCEPT ![p][s] = @ + 1]
    /\ status' = [status EXCEPT ![p] = s]

\* The section of ChangeStatus when it ends at one of its awaits, or in an
\* error of the storage: the entry of the old status is gone from one list at
\* least; the new status, with the decisions d, may be stored, and perhaps even
\* announced.  Only on a core that has been cut off before may a list have
\* held a spare entry.
CutStatus(p, s, d) ==
    /\ Lossy
    /\ Removable(p)
    /\ cut' = cut \cup {p}
    /\ \/ listed' = [listed EXCEPT ![p][status[p]] = @ - 1]
       \/ p \in cut /\ UNCHANGED listed
    /\ \/ UNCHANGED <<status, decisions, announced>>
       \/ /\ status' = [status EXCEPT ![p] = s]
          /\ decisions' = [decisions EXCEPT ![p] = d]
          /\ \/ UNCHANGED announced
             \/ announced' = [announced EXCEPT ![p][s] = @ + 1]

\* The same for add_task_new_status alone: the ":latest" key is written, and
\* the entry is in one list at most.
CutAdd(p, s) ==
    /\ Lossy
    /\ cut' = cut \cup {p}
    /\ announced' = [announced EXCEPT ![p][s] = @ + 1]
    /\ UNCHANGED listed

\* The handler of c is done; the caller sees the reply unless it is lost.
Outcomes == IF Lossy THEN {"ok", "failed"} ELSE {"ok"}
Reply(c) == \E r \in Outcomes : phase' = [phase EXCEPT ![c] = r]

-------------------------------------------------------------------------------
(* _create_task                                                            *)

FirstStatus == IF RequireAgreement /\ N > 1 THEN "approved" ELSE "started"
FirstDecisions == [filled EXCEPT ![0] = "approve"]

\* The initiator's core stores tasks:{id}, without the mutex.
CreateTask ==
    /\ creating = "idle"
    /\ creating' = "sending"
    /\ status' = [status EXCEPT ![0] = FirstStatus]
    /\ decisions' = [decisions EXCEPT ![0] = FirstDecisions]
    /\ UNCHANGED <<listed, announced, phase, payload, verdict, expired, filled, cut>>

\* The loop sends the local task to one participant after the other.
CreateSend(i) ==
    /\ creating = "sending"
    /\ phase[CreateCall(i)] = "none"
    /\ \A j \in 1 .. i - 1 : phase[CreateCall(j)] = "ok"
    /\ phase' = [phase EXCEPT ![CreateCall(i)] = "sent"]
    /\ payload' = [payload EXCEPT ![CreateCall(i)] = FirstDecisions]
    /\ UNCHANGED <<task, creating, verdict, expired, filled>>

\* The `?` of the loop, or the client of the call goes away.
CreateFail ==
    /\ creating = "sending"
    /\ Lossy \/ \E i \in Others : phase[CreateCall(i)] = "failed"
    /\ creating' = "failed"
    /\ UNCHANGED <<task, phase, payload, verdict, expired, filled>>

\* After the last reply, the local task is listed under its first status.
CreateList ==
    /\ creating = "sending"
    /\ \A i \in Others : phase[CreateCall(i)] = "ok"
    /\ creating' = "done"
    /\ Add(0, FirstStatus)
    /\ UNCHANGED <<status, decisions, phase, payload, verdict, expired, filled, cut>>

CreateListCut ==
    /\ creating = "sending"
    /\ \A i \in Others : phase[CreateCall(i)] = "ok"
    /\ creating' = "failed"
    /\ CutAdd(0, FirstStatus)
    /\ UNCHANGED <<status, decisions, phase, payload, verdict, expired, filled>>

-------------------------------------------------------------------------------
(* _confirm_task and _finish_task, called by the user of participant p.    *)
(* The initiator's status is never "waiting".                              *)

\* Mutant: a decision that is no approval counts as a rejection.
StatusOfRefusal(d) == IF d = "approve" THEN "approved" ELSE "rejected"

StatusOf(d) == CASE d = "approve" -> "approved"
                 [] d = "reject" -> "rejected"
                 [] d = "ignore" -> "ignored"

\* Mutant: an approval may be taken back.
ConfirmableTwice(p) == status[p] \in {"waiting", "approved"} /\ ~expired[p]

\* Mutant: whatever has not started may be confirmed.
ConfirmableLate(p) == status[p] \notin {"absent", "started", "finished"} /\ ~expired[p]

Confirmable(p) == status[p] = "waiting" /\ ~expired[p]

Mine(p, d) == [decisions[p] EXCEPT ![p] = d]

\* The approvals are counted as they stand, signed or not.
ConfirmedAs(p, d) ==
    IF (IF RequireAgreement THEN AllApprove(Mine(p, d)) ELSE d = "approve")
    THEN "started" ELSE StatusOf(d)

ConfirmTask(p, d) ==
    /\ Confirmable(p)
    /\ ChangeStatus(p, ConfirmedAs(p, d))
    /\ decisions' = [decisions EXCEPT ![p] = Mine(p, d)]
    /\ IF RequireAgreement /\ d # "ignore"
       THEN /\ phase' = [phase EXCEPT ![ConfirmCall(p)] = "sent"]
            /\ payload' = [payload EXCEPT ![ConfirmCall(p)] = Mine(p, d)]
       ELSE UNCHANGED <<phase, payload>>
    /\ UNCHANGED <<creating, verdict, expired, filled, cut>>

ConfirmCut(p, d) ==
    /\ Confirmable(p)
    /\ CutStatus(p, ConfirmedAs(p, d), Mine(p, d))
    /\ UNCHANGED <<creating, phase, payload, verdict, expired, filled>>

FinishTask(p) ==
    /\ status[p] = "started"
    /\ ChangeStatus(p, "finished")
    /\ UNCHANGED <<decisions, creating, phase, payload, verdict, expired, filled, cut>>

FinishCut(p) ==
    /\ status[p] = "started"
    /\ CutStatus(p, "finished", decisions[p])
    /\ UNCHANGED <<creating, phase, payload, verdict, expired, filled>>

-------------------------------------------------------------------------------
(* _inter_core_sync_task, the handler of call c on the core of To(c).      *)

\* The task is new here: it is stored as "waiting", without the mutex ...
SyncNew(c) ==
    /\ phase[c] = "sent"
    /\ status[To(c)] = "absent"
    /\ payload[c][0] = "approve"
    /\ phase' = [phase EXCEPT ![c] = "listing"]
    /\ status' = [status EXCEPT ![To(c)] = "waiting"]
    /\ decisions' = [decisions EXCEPT ![To(c)] = payload[c]]
    /\ UNCHANGED <<listed, announced, creating, payload, verdict, expired, filled, cut>>

\* ... and then listed, under the mutex.
SyncList(c) ==
    /\ phase[c] = "listing"
    /\ Add(To(c), "waiting")
    /\ Reply(c)
    /\ UNCHANGED <<status, decisions, creating, payload, verdict, expired, filled, cut>>

SyncListCut(c) ==
    /\ phase[c] = "listing"
    /\ CutAdd(To(c), "waiting")
    /\ phase' = [phase EXCEPT ![c] = "failed"]
    /\ UNCHANGED <<status, decisions, creating, payload, verdict, expired, filled>>

\* Mutant: only the initiator's decision is checked, as for a new task.
CheckedFirst(c) == payload[c][0] \notin Unsigned

\* check_decision, on every decision that the call brings of the others.
Checked(c) == \A i \in Parts \ {To(c)} : payload[c][i] \notin Unsigned

\* The decisions of the others replace the stored ones, the own one stays.
Merged(c) ==
    [i \in Parts |-> IF i # To(c) /\ payload[c][i] # "none"
                     THEN payload[c][i] ELSE decisions[To(c)][i]]

\* Mutant: a task confirmed here is taken for a settled one.
SettlesUnlessConfirmed(c) ==
    /\ status[To(c)] \in {"waiting", "ignored"}
    /\ AllValid(Merged(c)) \/ AnyReject(Merged(c))

\* The test on the task as the first section left it.
Settles(c) ==
    /\ status[To(c)] \notin {"started", "rejected"}
    /\ AllValid(Merged(c)) \/ AnyReject(Merged(c))

\* First critical section, and the tests made after the mutex is dropped.
SyncMerge(c) ==
    /\ phase[c] = "sent"
    /\ status[To(c)] # "absent"
    /\ RequireAgreement
    /\ ~expired[To(c)]
    /\ Checked(c)
    /\ decisions' = [decisions EXCEPT ![To(c)] = Merged(c)]
    /\ IF Settles(c)
       THEN /\ phase' = [phase EXCEPT ![c] = "decide"]
            /\ verdict' = [verdict EXCEPT ![c] = AnyReject(Merged(c))]
       ELSE Reply(c) /\ UNCHANGED verdict
    /\ UNCHANGED <<status, listed, announced, creating, payload, expired, filled, cut>>

\* The early errors of both branches.
SyncRefuse(c) ==
    /\ phase[c] = "sent"
    /\ IF status[To(c)] = "absent"
       THEN payload[c][0] # "approve"
       ELSE ~RequireAgreement \/ expired[To(c)] \/ ~Checked(c)
    /\ phase' = [phase EXCEPT ![c] = "failed"]
    /\ UNCHANGED <<task, creating, payload, verdict, expired, filled>>

\* Mutant: only the start of the task is broadcast.
BroadcastsStart(c) == To(c) = 0 /\ N > 2 /\ ~verdict[c]

Broadcasts(c) == To(c) = 0 /\ N > 2

SettledAs(c) == IF verdict[c] THEN "rejected" ELSE "started"

\* Second critical section: the task is read again, but the verdict is the
\* one of the first.  The initiator then goes on to broadcast.
Decide(c) ==
    /\ phase[c] = "decide"
    /\ ChangeStatus(To(c), SettledAs(c))
    /\ IF Broadcasts(c)
       THEN /\ phase' = [phase EXCEPT ![c] = "bcast"]
            /\ payload' = [x \in Calls |-> IF x[1] = "bcast" /\ x[2] = c[2]
                                           THEN decisions[0] ELSE payload[x]]
       ELSE Reply(c) /\ UNCHANGED payload
    /\ UNCHANGED <<decisions, creating, verdict, expired, filled, cut>>

DecideCut(c) ==
    /\ phase[c] = "decide"
    /\ CutStatus(To(c), SettledAs(c), decisions[To(c)])
    /\ phase' = [phase EXCEPT ![c] = "failed"]
    /\ UNCHANGED <<creating, payload, verdict, expired, filled>>

\* remove_task_old_status does not find the task in the list of its status.
DecideFail(c) ==
    /\ phase[c] = "decide"
    /\ ~Removable(To(c))
    /\ phase' = [phase EXCEPT ![c] = "failed"]
    /\ UNCHANGED <<task, creating, payload, verdict, expired, filled>>

\* The broadcast, one participant after the other.
BcastSend(p, i) ==
    /\ phase[ConfirmCall(p)] = "bcast"
    /\ phase[BcastCall(p, i)] = "none"
    /\ \A j \in 1 .. i - 1 : phase[BcastCall(p, j)] = "ok"
    /\ phase' = [phase EXCEPT ![BcastCall(p, i)] = "sent"]
    /\ UNCHANGED <<task, creating, payload, verdict, expired, filled>>

BcastDone(p) ==
    /\ phase[ConfirmCall(p)] = "bcast"
    /\ \A i \in Others : phase[BcastCall(p, i)] = "ok"
    /\ Reply(ConfirmCall(p))
    /\ UNCHANGED <<task, creating, payload, verdict, expired, filled>>

BcastFail(p) ==
    /\ phase[ConfirmCall(p)] = "bcast"
    /\ \E i \in Others : phase[BcastCall(p, i)] = "failed"
    /\ phase' = [phase EXCEPT ![ConfirmCall(p)] = "failed"]
    /\ UNCHANGED <<task, creating, payload, verdict, expired, filled>>

-------------------------------------------------------------------------------
(* The environment.                                                        *)

\* The connection of call c breaks: the message is lost, or its handler is
\* dropped at one of its awaits, here outside the sections.
Lose(c) ==
    /\ Lossy
    /\ phase[c] \in {"sent", "listing", "decide", "bcast"}
    /\ phase' = [phase EXCEPT ![c] = "failed"]
    /\ UNCHANGED <<task, creating, payload, verdict, expired, filled>>

\* The clock of p's core passes expiration_time.
Expire(p) ==
    /\ Expiring
    /\ ~expired[p]
    /\ expired' = [expired EXCEPT ![p] = TRUE]
    /\ UNCHANGED <<task, creating, phase, payload, verdict, filled>>

-------------------------------------------------------------------------------
Creation == CreateTask \/ CreateFail \/ CreateList \/ CreateListCut \/ \E i \in Others : CreateSend(i)

Handler(c) == \/ SyncNew(c) \/ SyncList(c) \/ SyncMerge(c) \/ SyncRefuse(c)
              \/ Decide(c) \/ DecideFail(c)

Broadcast(p) == BcastDone(p) \/ BcastFail(p) \/ \E i \in Others : BcastSend(p, i)

User(p) ==
    \/ FinishTask(p) \/ FinishCut(p)
    \/ p \in Others /\ \E d \in Signable : ConfirmTask(p, d) \/ ConfirmCut(p, d)

Next ==
    \/ Creation
    \/ \E c \in Calls : Handler(c) \/ SyncListCut(c) \/ DecideCut(c) \/ Lose(c)
    \/ \E p \in Others : Broadcast(p)
    \/ \E p \in Parts : User(p) \/ Expire(p)

Spec == Init /\ [][Next]_vars

\* The runtime keeps running what a core has begun; users owe nothing.
Fairness ==
    /\ WF_vars(Creation /\ creating # "idle")
    /\ \A c \in Calls : WF_vars(Handler(c))
    /\ \A p \in Others : WF_vars(Broadcast(p))

FairSpec == Spec /\ Fairness

-------------------------------------------------------------------------------
(* What has to hold.                                                       *)

\* The decision that p's core has signed.
Own(p) == IF decisions[p][p] \in Unsigned THEN "none" ELSE decisions[p][p]

AllOwnApprove == \A p \in Parts : Own(p) = "approve"

\* The create request leaves the decisions to those who take them.
Plain == filled = NoDecisions

\* A task that needs the agreement is started on some core only if every
\* participant's own core holds its approval, and is rejected only if some
\* participant rejected it: although a handler settles the task on what an
\* earlier section of it read (lines 263-290 of task.rs).  The one exception
\* is that _confirm_task counts an approval that the create request brought;
\* no handler that merges decisions, and so never the initiator, counts it.
Agreement ==
    RequireAgreement =>
        \A p \in Parts :
            /\ status[p] \in {"started", "finished"} =>
                 \A q \in Parts : \/ Own(q) = "approve"
                                  \/ p # 0 /\ q # p /\ filled[q] = "unsigned_approve"
            /\ status[p] = "rejected" => \E q \in Parts : Own(q) = "reject"

\* Whatever a core stores, or has sent, about participant i is the decision i
\* signed, or what the create request brought for it: merging never makes up,
\* mixes or takes back a decision.
DecisionsGenuine ==
    \A i \in Parts :
        /\ \A p \in Parts : decisions[p][i] \in {"none", Own(i), filled[i]}
        /\ \A c \in Calls : payload[c][i] \in {"none", Own(i), filled[i]}

Only(s) == [NoEntries EXCEPT ![s] = 1]

\* Whether _create_task or the handler of the create call got to listing the
\* task; a failure or cancellation before that leaves it unlisted for good.
MayBeListed(p) ==
    IF p = 0 THEN creating = "done" ELSE phase[CreateCall(p)] \in {"ok", "failed"}

MustBeListed(p) ==
    /\ p \notin cut
    /\ IF p = 0 THEN creating = "done" ELSE phase[CreateCall(p)] = "ok"

\* The lists of p agree with the status in tasks:{id}: the task is in the lists
\* of its status once and in no others, and it is in none at all as long as the
\* call that brought it has not got there.
ListedRight(p) ==
    /\ \/ listed[p] = NoEntries
       \/ MayBeListed(p) /\ \E s \in Statuses : s = status[p] /\ listed[p] = Only(s)
    /\ MustBeListed(p) => listed[p] # NoEntries

\* So they do on every core.  Where a section was cut off, the task may be
\* missing from a list of its status, and then it stays out of them; it is
\* never listed wrong.
ListsMatchStatus == \A p \in Parts : ListedRight(p)

\* The operators that wait for started tasks hear of this one once on each
\* core, however many handlers settle it there.  A rejection may be announced
\* more often: two handlers in flight can both apply it.
StartedOnce == \A p \in Parts : announced[p]["started"] <= 1

\* A settled task stays settled: no late call takes it back to a status it has
\* left.  Only a task that a core started on an approval that its participant
\* has not signed may still turn out rejected.
Withdrawn == IF RequireAgreement /\ ~AllOwnApprove THEN {"rejected"} ELSE {}

Settled(p) ==
    /\ status[p] = "rejected" => status'[p] = "rejected"
    /\ status[p] = "finished" => status'[p] \in {"finished"} \cup Withdrawn
    /\ status[p] = "started" => status'[p] \in {"started", "finished"} \cup Withdrawn

Finality == [][\A p \in Parts : Settled(p)]_vars

(***************************************************************************)
(* The cores implement the vote of TaskAgreement: what a participant       *)
(* signed, and what the status on its core tells its operators.            *)
(***************************************************************************)
Outcome(s) == CASE s \in {"started", "finished"} -> "started"
                [] s = "rejected" -> "rejected"
                [] OTHER -> "open"

Abstract == INSTANCE TaskAgreement WITH
    Participants <- Parts,
    claimed <- {q \in Parts : filled[q] = "unsigned_approve"},
    vote <- [p \in Parts |-> Own(p)],
    outcome <- [p \in Parts |-> Outcome(status[p])]

\* Each step of a handler or a user is a vote, a participant learning an
\* outcome that the votes justify, or a step nobody can see.
ImplementsAgreement == Abstract!Spec

AllStarted == \A p \in Parts : status[p] \in {"started", "finished"}
AllRejected == \A p \in Parts : status[p] = "rejected"

\* Some own decision has not reached the initiator's core yet.
Pending(d) == \E p \in Parts : Own(p) = d /\ decisions[0][p] = "none"

\* Once everybody approved, every core starts the task, provided that the last
\* approval reaches the initiator after _create_task has listed it there, and
\* that the create request carried no decisions.
ApprovalStarts ==
    (Plain /\ creating = "done" /\ AllOwnApprove /\ Pending("approve")) ~> AllStarted

\* A rejection that reaches the initiator after the task is listed there ends
\* the task on every core, whatever the others are deciding meanwhile.  Again
\* the create request carried no decisions: a handler refuses a call with one.
RejectionSpreads ==
    (Plain /\ creating = "done" /\ Pending("reject")) ~> AllRejected

\* Comment at line 276 of task.rs, on what follows when the stored decisions
\* are complete: "Change this task's status."  So an initiator that holds every
\* approval would come to start the task.
CompleteStarts ==
    (creating = "done" /\ AllApprove(decisions[0])) ~> status[0] \in {"started", "finished"}
===============================================================================
