----------------------------- MODULE TaskRestart -----------------------------
(***************************************************************************)
(* TaskSync with cores that restart.  The storage of a core is in memory   *)
(* only (src/src/storage/basic.rs): a restart forgets the task, and a      *)
(* later call brings it back as a new one, which its user may decide anew. *)
(*                                                                         *)
(* Without restarts only one call finds the task absent.  Now two may, so  *)
(* that the existence test and the storing of a new task, which no lock    *)
(* joins, are two steps here.                                              *)
(***************************************************************************)
EXTENDS TaskSync, FiniteSets

CONSTANT MaxRestarts   \* bound on the cores that restart, each once

ASSUME RestartsAssumption == MaxRestarts \in Nat

VARIABLES
    restarted,  \* the cores that have restarted
    absent,     \* calls whose handler has found no task and has stored none yet
    signed      \* [Parts -> the decisions the participant has ever signed]

allVars == <<vars, restarted, absent, signed>>

RestartTypeOK ==
    /\ TypeOK
    /\ restarted \subseteq Parts
    /\ absent \subseteq Calls
    /\ signed \in [Parts -> SUBSET Signable]

RestartInit ==
    /\ Init
    /\ restarted = {} /\ absent = {}
    /\ signed = [p \in Parts |-> {}]

SameRestarts == UNCHANGED <<restarted, absent, signed>>

-------------------------------------------------------------------------------
\* The process of p's core ends and starts again: what it stored is gone, and
\* the handlers and the create loop it ran are.  Calls on their way to it may
\* arrive after; those it has sent are handled on the other cores.
Forgotten(p) == {c \in Calls : To(c) = p /\ (phase[c] \in {"listing", "decide", "bcast"} \/ c \in absent)}

Restart(p) ==
    /\ p \notin restarted
    /\ Cardinality(restarted) < MaxRestarts
    /\ status[p] # "absent"
    /\ restarted' = restarted \cup {p}
    /\ status' = [status EXCEPT ![p] = "absent"]
    /\ decisions' = [decisions EXCEPT ![p] = NoDecisions]
    /\ listed' = [listed EXCEPT ![p] = NoEntries]
    /\ announced' = [announced EXCEPT ![p] = NoEntries]
    /\ creating' = IF p = 0 /\ creating = "sending" THEN "failed" ELSE creating
    /\ phase' = [c \in Calls |-> IF c \in Forgotten(p) THEN "failed" ELSE phase[c]]
    /\ absent' = absent \ Forgotten(p)
    /\ cut' = cut \ {p}
    /\ UNCHANGED <<payload, verdict, expired, filled, signed>>

(* _inter_core_sync_task, when it finds no task                            *)

\* What is sent to confirm names no participants: the handler panics when it
\* looks for the initiator, and with it the call fails.
Nameless(c) ==
    /\ phase[c] = "sent"
    /\ c[1] = "confirm"
    /\ status[To(c)] = "absent"
    /\ phase' = [phase EXCEPT ![c] = "failed"]
    /\ SameRestarts
    /\ UNCHANGED <<task, creating, payload, verdict, expired, filled>>

\* The existence test, and the check of the initiator's decision.
FindAbsent(c) ==
    /\ phase[c] = "sent"
    /\ c[1] # "confirm"
    /\ c \notin absent
    /\ status[To(c)] = "absent"
    /\ payload[c][0] = "approve"
    /\ absent' = absent \cup {c}
    /\ UNCHANGED <<vars, restarted, signed>>

\* The task is stored, whatever has been stored since the test.
StoreNew(c) ==
    /\ c \in absent
    /\ absent' = absent \ {c}
    /\ phase' = [phase EXCEPT ![c] = "listing"]
    /\ status' = [status EXCEPT ![To(c)] = "waiting"]
    /\ decisions' = [decisions EXCEPT ![To(c)] = payload[c]]
    /\ UNCHANGED <<listed, announced, creating, payload, verdict, expired, filled, cut>>
    /\ UNCHANGED <<restarted, signed>>

Known(c) == \/ SyncList(c) \/ SyncMerge(c) \/ SyncRefuse(c) \/ Decide(c) \/ DecideFail(c)
            \/ SyncListCut(c) \/ DecideCut(c)

(* The user of p decides, a second time if the core has forgotten the first.  *)

Confirmations(p) == {ConfirmCall(p)} \cup {BcastCall(p, i) : i \in Others}

Decided(p, d) ==
    /\ phase[ConfirmCall(p)] = "none"
    /\ ConfirmTask(p, d)
    /\ signed' = [signed EXCEPT ![p] = @ \cup {d}]
    /\ UNCHANGED <<restarted, absent>>

\* A decision counts as signed once it is stored.
DecidedCut(p, d) ==
    /\ phase[ConfirmCall(p)] = "none"
    /\ ConfirmCut(p, d)
    /\ signed' = IF decisions' = decisions THEN signed ELSE [signed EXCEPT ![p] = @ \cup {d}]
    /\ UNCHANGED <<restarted, absent>>

\* The names of p's confirm call and of its broadcasts are free for another
\* confirmation when the earlier calls have ended.
Reuse(p) ==
    /\ p \in restarted
    /\ status[p] = "waiting"
    /\ phase[ConfirmCall(p)] # "none"
    /\ \A c \in Confirmations(p) : phase[c] \in {"none", "ok", "failed"}
    /\ phase' = [c \in Calls |-> IF c \in Confirmations(p) THEN "none" ELSE phase[c]]
    /\ SameRestarts
    /\ UNCHANGED <<task, creating, payload, verdict, expired, filled>>

Created ==
    /\ CreateTask
    /\ signed' = [signed EXCEPT ![0] = {"approve"}]
    /\ UNCHANGED <<restarted, absent>>

Lost(c) == Lose(c) /\ absent' = absent \ {c} /\ UNCHANGED <<restarted, signed>>

-------------------------------------------------------------------------------
RestartNext ==
    \/ Created
    \/ SameRestarts /\ (CreateFail \/ CreateList \/ CreateListCut \/ \E i \in Others : CreateSend(i))
    \/ \E c \in Calls : \/ Nameless(c) \/ FindAbsent(c) \/ StoreNew(c) \/ Lost(c)
                        \/ c \notin absent /\ SameRestarts /\ Known(c)
    \/ \E p \in Others : \/ SameRestarts /\ Broadcast(p)
                         \/ Reuse(p)
                         \/ \E d \in Signable : Decided(p, d) \/ DecidedCut(p, d)
    \/ \E p \in Parts : \/ SameRestarts /\ (FinishTask(p) \/ FinishCut(p) \/ Expire(p))
                        \/ Restart(p)

RestartSpec == RestartInit /\ [][RestartNext]_allVars

-------------------------------------------------------------------------------
(* What has to hold.                                                       *)

\* Whatever the cores forget and learn again: a task that needs the agreement
\* is started on a core only if every participant has signed an approval at
\* some time, and rejected only if some participant has signed a rejection, or
\* the create request carried it.  Two cores that differ for good, although it
\* carried none, have a participant who decided twice.
ApprovedByAll ==
    RequireAgreement =>
        \A p \in Parts :
            /\ status[p] \in {"started", "finished"} =>
                  \A q \in Parts : "approve" \in signed[q] \/ filled[q] = "unsigned_approve"
            /\ status[p] = "rejected" =>
                  \E q \in Parts : "reject" \in signed[q] \/ filled[q] = "unsigned_reject"

\* A restart of others does not harm a core that has not restarted: calls about
\* a task that they have forgotten, or decide again, leave its lists in
\* agreement with its status.
IntactLists == \A p \in Parts \ restarted : ListedRight(p)

\* Nobody has decided otherwise than before.
Consistent == \A q \in Parts : Cardinality(signed[q]) <= 1

\* Nor do they change the outcome there, as long as nobody who is asked again
\* decides otherwise, and the create request carried no decisions.  They may
\* take a task from finished back to started: that status is not among those
\* the handler leaves alone (line 277 of task.rs).
IntactOutcome ==
    [][Plain /\ Consistent' =>
         \A p \in Parts \ restarted' :
             Outcome(status[p]) # "open" => Outcome(status'[p]) = Outcome(status[p])]_allVars
===============================================================================
