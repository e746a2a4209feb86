----------------------------- MODULE SchedulingLab -----------------------------
(***************************************************************************)
(* The strict-bands walkthrough of use-cases/shared-inference/scheduling.md *)
(* (steps 2 to 9) against the backend it is made for,                      *)
(* assets/shared-inference/fixtures/backend.py.  Three requests, "holder", *)
(* "batch" and "urgent", go through the Gateway; the backend counts what   *)
(* arrives under each name and holds it until it is released.  The         *)
(* walkthrough reads those counts to conclude that the Gateway sent the    *)
(* urgent request before the batch request that was queued first.          *)
(*                                                                         *)
(* The Gateway (external) is given no policy at all: it may send a request *)
(* whenever it likes, in any order, again, or after its client has left;   *)
(* it passes the X-Test headers on, and has no HTTP 200 of its own.        *)
(* What the walkthrough reads of the Gateway's own state (inflight,        *)
(* queued) is left out, so that the conclusion does not rest on it.  The   *)
(* walkthrough may be given up and begun again; names are the same then,   *)
(* and the backend remembers unless it is restarted.                       *)
(***************************************************************************)
EXTENDS Integers, Sequences, FiniteSets

CONSTANTS LabRuns,      \* bound: runs of the walkthrough
          LabArrivals   \* bound: requests that arrive at one backend process

ASSUME LabAssumption == LabRuns \in Nat \ {0} /\ LabArrivals \in Nat

LabNames == {"holder", "batch", "urgent"}

VARIABLES order,        \* backend: what arrived, as <<run, name>>
          released,     \* backend: names
          client,       \* per run and name: "none", "open", "200" or "000"
          labRun,       \* which run of the walkthrough
          heldTo,       \* history: names of which this run released a request that was held
          step          \* next entry of LabScript, Passed after the last, or Failed

labVars == <<order, released, client, labRun, heldTo, step>>

Do(op, name, n) == [op |-> op, name |-> name, n |-> n]

(* "poll" repeats a read until the count is n, "check" reads it once,      *)
(* "finish" waits for the client, then wants HTTP 200 and a count of 1.    *)
ScriptUnpolled ==
    << Do("send", "holder", 0),
       Do("send", "batch", 0),   Do("send", "urgent", 0),
       Do("check", "batch", 0),  Do("release", "holder", 0),
       Do("poll", "urgent", 1),  Do("check", "batch", 0),
       Do("release", "urgent", 0), Do("poll", "batch", 1), Do("release", "batch", 0),
       Do("finish", "holder", 1), Do("finish", "urgent", 1), Do("finish", "batch", 1) >>

LabScript ==
    << Do("send", "holder", 0),  Do("poll", "holder", 1),
       Do("send", "batch", 0),   Do("send", "urgent", 0),
       Do("check", "batch", 0),  Do("release", "holder", 0),
       Do("poll", "urgent", 1),  Do("check", "batch", 0),
       Do("release", "urgent", 0), Do("poll", "batch", 1), Do("release", "batch", 0),
       Do("finish", "holder", 1), Do("finish", "urgent", 1), Do("finish", "batch", 1) >>

LabInit ==
    /\ order = <<>> /\ released = {}
    /\ client = [r \in 1..LabRuns |-> [n \in LabNames |-> "none"]]
    /\ labRun = 1
    /\ heldTo = {}
    /\ step = 1

----------------------------------------------------------------------------
(* The backend. *)

ArrivalsOf(name) == {i \in DOMAIN order : order[i][2] = name}

(* GET /receipt/<name> *)
OnlyLatest(name) == IF ArrivalsOf(name) = {} THEN 0 ELSE 1
Count(name) == Cardinality(ArrivalsOf(name))

(* do_POST up to wait_for: the Gateway sends a request, for the first time *)
(* or again.                                                               *)
Arrive(r, n) ==
    /\ Len(order) < LabArrivals
    /\ client[r][n] # "none"
    /\ order' = Append(order, <<r, n>>)
    /\ UNCHANGED <<released, client, labRun, heldTo, step>>

(* Seconds after which wait_for gives up, and after which the client does, *)
(* which begins to count before its request arrives.                       *)
HoldSeconds == 60
ClientSeconds == 55

(* do_POST from there: the request was released, or it is answered anyway. *)
(* Of the answer to a client that has left nothing is seen.                *)
Reply(n) ==
    /\ \E i \in DOMAIN order : order[i] = <<labRun, n>>
    /\ n \in released \/ HoldSeconds < ClientSeconds
    /\ client[labRun][n] = "open"
    /\ client' = [client EXCEPT ![labRun][n] = "200"]
    /\ UNCHANGED <<order, released, labRun, heldTo, step>>

(* curl --max-time 55, or an answer of the Gateway's own. *)
ClientFails(n) ==
    /\ client[labRun][n] = "open"
    /\ client' = [client EXCEPT ![labRun][n] = "000"]
    /\ UNCHANGED <<order, released, labRun, heldTo, step>>

----------------------------------------------------------------------------
(* The walkthrough. *)

Failed == 0
Passed == Len(LabScript) + 1
Running == step \in 1..Len(LabScript)
Now == LabScript[step]
Advance == step' = step + 1

Send ==
    /\ Running /\ Now.op = "send"
    /\ client' = [client EXCEPT ![labRun][Now.name] = "open"]
    /\ Advance
    /\ UNCHANGED <<order, released, labRun, heldTo>>

(* A request is held from its arrival, unless its name was released, and   *)
(* until its client has an answer or leaves.                               *)
Held(n) ==
    /\ n \notin released
    /\ \E i \in DOMAIN order : order[i] = <<labRun, n>>
    /\ client[labRun][n] = "open"

Release ==
    /\ Running /\ Now.op = "release"
    /\ heldTo' = IF Held(Now.name) THEN heldTo \cup {Now.name} ELSE heldTo
    /\ released' = released \cup {Now.name}
    /\ Advance
    /\ UNCHANGED <<order, client, labRun>>

Read ==
    /\ Running /\ Now.op \in {"poll", "check", "finish"}
    /\ Count(Now.name) = Now.n
    /\ Now.op = "finish" => client[labRun][Now.name] = "200"
    /\ Advance
    /\ UNCHANGED <<order, released, client, labRun, heldTo>>

(* A read is not what it must be, a poll ends, or a curl fails: set -e     *)
(* ends the walkthrough; its clients in the background go on.              *)
LabFails ==
    /\ Running
    /\ step' = Failed
    /\ UNCHANGED <<order, released, client, labRun, heldTo>>

(* Begin again, with the backend as it is or restarted.  Requests of the   *)
(* run before may still arrive; what their clients get is not followed.    *)
BeginAgain ==
    /\ ~Running /\ labRun < LabRuns
    /\ labRun' = labRun + 1
    /\ heldTo' = {}
    /\ step' = 1
    /\ \/ UNCHANGED <<order, released>>
       \/ order' = <<>> /\ released' = {}
    /\ client' = [client EXCEPT ![labRun] =
                    [n \in LabNames |-> IF @[n] = "none" THEN "none" ELSE "000"]]

LabNext ==
    \/ \E r \in 1..LabRuns, n \in LabNames : Arrive(r, n)
    \/ \E n \in LabNames : Reply(n) \/ ClientFails(n)
    \/ Send \/ Release \/ Read \/ LabFails \/ BeginAgain

LabSpec == LabInit /\ [][LabNext]_labVars

----------------------------------------------------------------------------
LabTypeOK ==
    /\ order \in Seq((1..LabRuns) \X LabNames)
    /\ released \subseteq LabNames
    /\ client \in [1..LabRuns -> [LabNames -> {"none", "open", "200", "000"}]]
    /\ labRun \in 1..LabRuns
    /\ heldTo \subseteq LabNames
    /\ step \in Failed..Passed

(* First arrival of a name, which is of the run that is going on. *)
FirstOf(n, i) ==
    /\ i \in DOMAIN order
    /\ order[i] = <<labRun, n>>
    /\ \A j \in 1..(i - 1) : order[j][2] # n

(* "Confirm strict-urgent dispatches before strict-batch": a walkthrough   *)
(* that passes has shown it for the requests of this very run, also when   *)
(* the backend remembers an earlier run whose requests still arrive.       *)
PassedStrictIsOrdered ==
    step = Passed =>
        \E h, u, b \in DOMAIN order :
            /\ FirstOf("holder", h) /\ FirstOf("urgent", u) /\ FirstOf("batch", b)
            /\ h < u /\ u < b

(* "This experiment leaves one running request untouched", and releases    *)
(* it and the two after it by name: a walkthrough that passes had each of  *)
(* its requests held at the backend until it released that one itself.     *)
(* None had been let go by the 60 seconds after which the backend answers  *)
(* anyway, by its client's 55, by a release that the backend remembers of  *)
(* an earlier run, or by having come only after its own release.           *)
PassedWereHeld == step = Passed => heldTo = LabNames
=============================================================================
