---------------------------- MODULE GateVerdicts ----------------------------
(***************************************************************************)
(* What the drift workflow promises, without how it does it: at any time   *)
(* one run at most is in progress; at some instant that run settles what   *)
(* it is about, one subject, and the verdict it gives later is that of the *)
(* reference gate on this subject.  It may give up before it has settled,  *)
(* and that counts as failed; the next run ends it without a verdict.      *)
(***************************************************************************)
CONSTANTS Runs,
          Subjects,     \* what a run can be about
          Valid,        \* the subjects that the reference gate accepts
          NoSubject

VARIABLES active,       \* the runs in progress
          subject,      \* run -> what it is about, NoSubject before it has settled
          verdict       \* run -> "none", "passed", "failed", "cancelled"

vars == <<active, subject, verdict>>

Init == /\ active = {}
        /\ subject = [i \in Runs |-> NoSubject]
        /\ verdict = [i \in Runs |-> "none"]

Start(i) == /\ verdict[i] = "none" /\ i \notin active
            /\ active' = {i}
            /\ subject' = [j \in Runs |-> IF j \in active THEN NoSubject ELSE subject[j]]
            /\ verdict' = [j \in Runs |-> IF j \in active THEN "cancelled" ELSE verdict[j]]

Settle(i) == /\ active = {i} /\ subject[i] = NoSubject
             /\ subject'[i] \in Subjects
             /\ subject' = [subject EXCEPT ![i] = subject'[i]]
             /\ UNCHANGED <<active, verdict>>

Judge(i) == /\ active = {i} /\ subject[i] # NoSubject
            /\ active' = {}
            /\ verdict' = [verdict EXCEPT ![i] = IF subject[i] \in Valid THEN "passed" ELSE "failed"]
            /\ UNCHANGED subject

GiveUp(i) == /\ active = {i} /\ subject[i] = NoSubject
             /\ active' = {}
             /\ verdict' = [verdict EXCEPT ![i] = "failed"]
             /\ UNCHANGED subject

Next == \E i \in Runs : Start(i) \/ Settle(i) \/ Judge(i) \/ GiveUp(i)

Spec == Init /\ [][Next]_vars
=============================================================================
