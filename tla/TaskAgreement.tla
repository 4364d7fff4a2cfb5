---------------------------- MODULE TaskAgreement ----------------------------
(***************************************************************************)
(* What the task service of a CoLink server promises the participants of  *)
(* one task, whatever the messages between their cores do: a participant   *)
(* votes once, learns one outcome and keeps it.  A task that requires the  *)
(* agreement starts only when every participant approved it, and is        *)
(* rejected only when some participant rejected it; a task that does not   *)
(* require it is settled by each participant alone.                        *)
(*                                                                         *)
(* The one weakness: whoever creates the task may claim the approval of    *)
(* another participant, and a participant who confirms takes the claim for *)
(* the vote.  It may then have to learn that the task was rejected.        *)
(***************************************************************************)
CONSTANTS Participants,      \* the users named by Task.participants
          RequireAgreement   \* Task.require_agreement

VARIABLES claimed,           \* those whose approval the create request claims
          vote,              \* the decision a participant signed, or "none"
          outcome            \* what it knows: "open", "started", "rejected"

vars == <<claimed, vote, outcome>>

Votes == {"approve", "reject", "ignore"}

Init == /\ claimed \in SUBSET Participants
        /\ vote = [p \in Participants |-> "none"]
        /\ outcome = [p \in Participants |-> "open"]

AllApproved(v) == \A q \in Participants : v[q] = "approve"

\* The evidence the votes v give participant p to start the task ...
MayStart(v, p) ==
    IF RequireAgreement
    THEN \A q \in Participants : v[q] = "approve" \/ (q # p /\ q \in claimed)
    ELSE v[p] = "approve"

\* ... and to give it up.
MayReject(v, p) ==
    IF RequireAgreement THEN \E q \in Participants : v[q] = "reject"
                        ELSE v[p] = "reject"

\* Whether p, who has started the task, may have to give it up all the same.
Revocable(v, o) == o = "started" /\ RequireAgreement /\ ~AllApproved(v)

\* The outcomes p may hold once the votes are v, when it held o before.
Outcomes(v, p, o) ==
    {o} \cup {r \in {"started", "rejected"} :
                /\ o = "open" \/ (Revocable(v, o) /\ r = "rejected")
                /\ r = "started" => MayStart(v, p)
                /\ r = "rejected" => MayReject(v, p)}

\* p signs its one decision; that alone may already settle the task for it.
Vote(p, d) ==
    /\ vote[p] = "none"
    /\ vote' = [vote EXCEPT ![p] = d]
    /\ \E o \in Outcomes(vote', p, outcome[p]) :
         outcome' = [outcome EXCEPT ![p] = o]
    /\ UNCHANGED claimed

\* p learns of the votes of the others.
Learn(p) ==
    /\ \E o \in Outcomes(vote, p, outcome[p]) :
         outcome' = [outcome EXCEPT ![p] = o]
    /\ UNCHANGED <<claimed, vote>>

Next == \E p \in Participants : Learn(p) \/ \E d \in Votes : Vote(p, d)

Spec == Init /\ [][Next]_vars
==============================================================================
