------------------------------ MODULE CliProbe ------------------------------
(***************************************************************************)
(* tools/validate_cli_runtime.py: runs a CLI binary, one probe after the   *)
(* other, against a server in the same process, and attributes to a probe  *)
(* the requests that were captured while its CLI ran.  The server has a    *)
(* thread for each request, and handlers for GET, POST and DELETE alone.   *)
(* The CLI (external) does anything: it sends a request that the server    *)
(* captures, or one that it does not, waits for the answer or not, exits   *)
(* with any code or hangs.  The output directory may hold the files of an  *)
(* earlier run.                                                            *)
(***************************************************************************)
EXTENDS Integers, Sequences

CONSTANTS CliCases,     \* the probes: expected exit and number of requests
          CliRuns       \* bound: runs of the script

ASSUME CliAssumption ==
    /\ CliCases \in Seq([exit : Nat, requests : {0, 1}]) \ {<<>>}
    /\ CliRuns \in Nat

VARIABLES crun,         \* runs started so far; the present one
          cpc,          \* next step of the script
          case,         \* index of the present probe
          before,       \* captures when it started
          captures,     \* per captured request, the probe whose CLI sent it
          inflight,     \* requests sent and not yet captured, by sender
          cli,          \* the CLI process: "none", "running", "waiting", "exited"
          cliExit,      \* its exit code
          sentBy,       \* history: probes whose CLI sent a request that is captured
          strays,       \* history: probes whose CLI sent one that is not
          hasty,        \* history: probes whose CLI did not wait for the answer
          verdicts,     \* results: the verdict of each probe so far
          results,      \* results.json on disk: the run it is of, and verdicts
          summaryJson,  \* summary.json on disk: the run, and whether none failed
          exitCode      \* of the last run that ended

cliVars == <<crun, cpc, case, before, captures, inflight, cli, cliExit, sentBy, strays, hasty,
             verdicts, results, summaryJson, exitCode>>
serverVars == <<captures, inflight>>
outputVars == <<results, summaryJson, exitCode>>

CliExits == {0, 2, 7}

CliInit ==
    /\ crun = 0 /\ cpc = "off" /\ case = 0 /\ before = 0
    /\ captures = <<>> /\ inflight = {}
    /\ cli = "none" /\ cliExit = 0
    /\ sentBy = {} /\ strays = {} /\ hasty = {}
    /\ verdicts = <<>>
    /\ results = [run |-> 0, ok |-> FALSE]
    /\ summaryJson = [run |-> 0, ok |-> FALSE]
    /\ exitCode = 1

----------------------------------------------------------------------------
(* Mutated forms, to see that the properties can fail. *)

(* The requests that were captured are counted from the start. *)
RequestsFromStart == Len(captures)

(* A probe that timed out is skipped. *)
ProbeTimeoutSkips ==
    /\ cpc = "wait"
    /\ cli \in {"running", "waiting"}
    /\ cli' = "none"
    /\ IF case < Len(CliCases) THEN case' = case + 1 /\ cpc' = "probe"
                               ELSE UNCHANGED case /\ cpc' = "results"
    /\ UNCHANGED <<crun, before, serverVars, cliExit, sentBy, strays, hasty, verdicts, outputVars>>

StartScript ==
    /\ cpc = "off"
    /\ crun < CliRuns
    /\ crun' = crun + 1
    /\ cpc' = "probe"
    /\ case' = 1
    /\ captures' = <<>> /\ inflight' = {}
    /\ sentBy' = {} /\ strays' = {} /\ hasty' = {}
    /\ verdicts' = <<>>
    /\ exitCode' = 1
    /\ UNCHANGED <<before, cli, cliExit, results, summaryJson>>

(* probe: before = len(captures), and the CLI is started. *)
StartProbe ==
    /\ cpc = "probe"
    /\ before' = Len(captures)
    /\ cli' = "running"
    /\ cpc' = "wait"
    /\ UNCHANGED <<crun, case, serverVars, cliExit, sentBy, strays, hasty, verdicts, outputVars>>

(* row["requests"] = captures[before:] *)
ProbeRequests == Len(captures) - before

(* The CLI exited: the row and its verdict, which the checks of the body   *)
(* that was sent or printed may turn into a failure.                       *)
JudgeProbe ==
    /\ cpc = "wait"
    /\ cli = "exited"
    /\ LET pass == cliExit = CliCases[case].exit /\ ProbeRequests = CliCases[case].requests
       IN  \E v \in {pass, FALSE} : verdicts' = Append(verdicts, v)
    /\ cli' = "none"
    /\ IF case < Len(CliCases) THEN case' = case + 1 /\ cpc' = "probe"
                               ELSE UNCHANGED case /\ cpc' = "results"
    /\ UNCHANGED <<crun, before, serverVars, cliExit, sentBy, strays, hasty, outputVars>>

(* subprocess.run gives up after 20 seconds and kills the CLI: the         *)
(* exception leaves the script before anything is written.                 *)
ProbeTimeout ==
    /\ cpc = "wait"
    /\ cli \in {"running", "waiting"}
    /\ cli' = "none"
    /\ cpc' = "off"
    /\ UNCHANGED <<crun, case, before, serverVars, cliExit, sentBy, strays, hasty, verdicts, outputVars>>

AllPassed == \A i \in DOMAIN verdicts : verdicts[i]

WriteResults ==
    /\ cpc = "results"
    /\ results' = [run |-> crun, ok |-> AllPassed]
    /\ cpc' = "summary"
    /\ UNCHANGED <<crun, case, before, serverVars, cli, cliExit, sentBy, strays, hasty, verdicts,
                   summaryJson, exitCode>>

WriteSummary ==
    /\ cpc = "summary"
    /\ summaryJson' = [run |-> crun, ok |-> AllPassed]
    /\ cpc' = "exit"
    /\ UNCHANGED <<crun, case, before, serverVars, cli, cliExit, sentBy, strays, hasty, verdicts,
                   results, exitCode>>

(* The server is shut down; threads that are still at work are daemons.    *)
ExitScript ==
    /\ cpc = "exit"
    /\ exitCode' = IF summaryJson.ok THEN 0 ELSE 1
    /\ cpc' = "off"
    /\ UNCHANGED <<crun, case, before, serverVars, cli, cliExit, sentBy, strays, hasty, verdicts,
                   results, summaryJson>>

(* Ctrl-C, or a write that fails. *)
KillScript ==
    /\ cpc # "off"
    /\ cpc' = "off"
    /\ cli' = "none"
    /\ UNCHANGED <<crun, case, before, serverVars, cliExit, sentBy, strays, hasty, verdicts, outputVars>>

----------------------------------------------------------------------------
(* The CLI. *)
CliSends ==
    /\ cli = "running"
    /\ case \notin sentBy
    /\ sentBy' = sentBy \cup {case}
    /\ inflight' = inflight \cup {case}
    /\ \/ cli' = "waiting" /\ UNCHANGED hasty
       \/ UNCHANGED cli /\ hasty' = hasty \cup {case}
    /\ UNCHANGED <<crun, cpc, case, before, captures, cliExit, strays, verdicts, outputVars>>

(* A request of a method that the server has no handler for is answered    *)
(* 501, and the handler of one whose body is not JSON fails at the append: *)
(* neither is captured, and the CLI goes on.                               *)
CliStrays ==
    /\ cli = "running"
    /\ strays' = strays \cup {case}
    /\ UNCHANGED <<crun, cpc, case, before, serverVars, cli, cliExit, sentBy, hasty, verdicts,
                   outputVars>>

CliExitsNow ==
    /\ cli = "running"
    /\ cli' = "exited"
    /\ cliExit' \in CliExits
    /\ UNCHANGED <<crun, cpc, case, before, serverVars, sentBy, strays, hasty, verdicts, outputVars>>

(* handle_request of a GET, POST or DELETE with no body or a JSON one: the *)
(* request is captured, and then answered.                                 *)
HandleRequest ==
    /\ cpc # "off"
    /\ \E c \in inflight :
          /\ captures' = Append(captures, c)
          /\ inflight' = inflight \ {c}
          /\ cli' = IF cli = "waiting" /\ c = case THEN "running" ELSE cli
    /\ UNCHANGED <<crun, cpc, case, before, cliExit, sentBy, strays, hasty, verdicts, outputVars>>

CliNext ==
    \/ StartScript \/ StartProbe \/ JudgeProbe \/ ProbeTimeout
    \/ WriteResults \/ WriteSummary \/ ExitScript \/ KillScript
    \/ CliSends \/ CliStrays \/ CliExitsNow \/ HandleRequest

CliSpec == CliInit /\ [][CliNext]_cliVars

----------------------------------------------------------------------------
CliTypeOK ==
    /\ crun \in 0..CliRuns
    /\ cpc \in {"off", "probe", "wait", "results", "summary", "exit"}
    /\ case \in 0..Len(CliCases)
    /\ before \in 0..Len(CliCases)
    /\ captures \in Seq(1..Len(CliCases))
    /\ inflight \subseteq 1..Len(CliCases)
    /\ cli \in {"none", "running", "waiting", "exited"}
    /\ cliExit \in CliExits
    /\ sentBy \subseteq 1..Len(CliCases) /\ hasty \subseteq sentBy
    /\ strays \subseteq 1..Len(CliCases)
    /\ verdicts \in Seq(BOOLEAN)
    /\ results \in [run : 0..CliRuns, ok : BOOLEAN]
    /\ summaryJson \in [run : 0..CliRuns, ok : BOOLEAN]
    /\ exitCode \in {0, 1}

Sent(i) == {k \in {"captured", "stray"} : i \in IF k = "captured" THEN sentBy ELSE strays}

(* A request is attributed to the probe that sent it: as long as no CLI    *)
(* went on without its answer, a probe that passed with one request sent   *)
(* it itself, and a probe that passed with none sent none that the server  *)
(* captures, because it captures before it answers.  All that is left is a *)
(* stray: the comment above jwt-profile-missing requires rejection         *)
(* "without any management request", and of a PUT the verdict says         *)
(* nothing.  (A request that nobody waits for may be captured in the       *)
(* window of the next probe, or after the last.)                           *)
PassedProbeSentAsExpected ==
    \A i \in DOMAIN verdicts :
        verdicts[i] /\ (\A j \in hasty : j > i) =>
            IF CliCases[i].requests = 1 THEN "captured" \in Sent(i) ELSE Sent(i) \subseteq {"stray"}

(* A run that exits with 0 has left results and a summary of its own, in   *)
(* which every probe passed, however earlier runs ended; files that a run  *)
(* which hung or was killed finds are left there, and only its exit code   *)
(* tells.                                                                  *)
ExitZeroIsThisRun ==
    exitCode = 0 => /\ results = [run |-> crun, ok |-> TRUE]
                    /\ summaryJson = [run |-> crun, ok |-> TRUE]
                    /\ Len(verdicts) = Len(CliCases) /\ AllPassed
=============================================================================
