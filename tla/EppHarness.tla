----------------------------- MODULE EppHarness -----------------------------
(***************************************************************************)
(* docs/assets/endpoint-picker/repro/run.sh: the harness behind the        *)
(* endpoint picker (EPP) pages.  A command changes things that outlive it, *)
(* the rule on VIP:PORT, the log level of the EPP and its replica count,   *)
(* measures, and puts them back.  The script has no trap and looks at the  *)
(* status of hardly any call, so a command may be interrupted anywhere and *)
(* goes on after a call that failed.  manifests/rule.sh puts an operator's *)
(* own rule on the same VIP:PORT between two commands.                     *)
(*                                                                         *)
(* blame and now are history: what has gone wrong, so far and during the   *)
(* present command.  row is the last measurement, with what it was taken   *)
(* under.                                                                  *)
(***************************************************************************)
EXTENDS Integers, Sequences

CONSTANTS EppPlans,        \* the sequences of commands that are run
          EppReplicas,     \* replicas of the EPP before the harness is used
          EppLevel,        \* its log level before the harness is used
          MODES            \* config.env MODES, in order

EppModes  == {"epp", "chwbl", "rr"}
EppLevels == {"debug", "normal", "custom"}
EppRules  == EppModes \cup {"none", "FailClose", "FailOpen", "operator", "broken"}
EppPods   == {"up", "down", "lost"}
EppBlames == {"gateway", "kube", "slow", "interrupt"}
EppCmds   == {"path", "decides", "vllm", "failmode", "bench-cache", "bench-sweep"}

ASSUME EppAssumption ==
    /\ EppPlans \subseteq Seq(EppCmds) \ {<<>>}
    /\ EppReplicas \in Nat \ {0}
    /\ EppLevel \in EppLevels \ {"debug"}
    /\ MODES \in Seq(EppModes)

VARIABLES rule,         \* the rule on VIP:PORT
          replicas,     \* spec.replicas of the EPP
          epp,          \* an EPP pod serves, none does, or it is down by itself
          level,        \* --v in the EPP's Deployment
          plan,         \* commands still to run, the present one first
          pc,           \* next step of the present command
          saved,        \* REPL of verify-failmode, -1 when nothing was read
          modes,        \* modes the present benchmark has still to run
          hung,         \* a call of the present step does not return
          sender,       \* the background loop of verify-vllm runs
          orphan,       \* such a loop of an interrupted command runs
          row,          \* history: the last measurement
          blame,        \* history: what has gone wrong
          now           \* history: what has gone wrong in this command

clusterVars == <<rule, replicas, epp, level>>
shellVars   == <<plan, pc, hung, saved, modes, sender, orphan>>
eppVars     == <<clusterVars, shellVars, row, blame, now>>

NoRow == [cmd |-> "none", want |-> "none", rule |-> "none", epp |-> "up",
          alone |-> TRUE]

EppInit ==
    /\ rule \in {"none", "operator"}
    /\ replicas = EppReplicas
    /\ epp = "up"
    /\ level = EppLevel
    /\ plan = <<>>
    /\ pc = "idle"
    /\ hung = FALSE
    /\ saved = -1
    /\ modes = <<>>
    /\ sender = FALSE
    /\ orphan = FALSE
    /\ row = NoRow
    /\ blame = {}
    /\ now = {}

(* Something goes wrong that is worth remembering. *)
Blame(cause) ==
    /\ blame' = blame \cup {cause}
    /\ now' = now \cup {cause}

NoBlame == UNCHANGED <<blame, now>>

Step(from, to) == pc = from /\ pc' = to

----------------------------------------------------------------------------
(* The helper functions of run.sh.  Each is one step of a command; what a  *)
(* helper leaves alone is in Keep and the frame of the step.               *)

(* Mutated forms, to see that the properties can fail. *)
MkRuleKeepsOld(from, to, mode) ==
    /\ Step(from, to)
    /\ \/ rule' = (IF rule = "none" THEN mode ELSE rule) /\ NoBlame
       \/ Blame("gateway") /\ rule' \in {rule, "none"}
       \/ Blame("kube") /\ rule' \in {"broken", "none"}

DelRuleNotAtEnd(from, to) ==
    /\ Step(from, to)
    /\ rule' = rule
    /\ NoBlame

ScaleToEmpty(from, to, n) ==
    /\ Step(from, to)
    /\ \/ replicas' = n /\ NoBlame
       \/ UNCHANGED replicas /\ Blame("kube")

WaitDownNever(from, to) ==
    /\ Step(from, to)
    /\ NoBlame

WaitDownUnbounded(from, to) ==
    /\ Step(from, to)
    /\ epp # "up" /\ NoBlame

(* What the Deployment asks for. *)
Wanted == IF replicas > 0 THEN "up" ELSE "down"

(* need_pods: fewer than two Ready pods end the whole invocation. *)
NeedPods(from, to) ==
    /\ pc = from
    /\ \/ pc' = to /\ UNCHANGED plan
       \/ pc' = "idle" /\ plan' = <<>>
    /\ NoBlame

(* mkrule and mkrule_failmode: DELETE, then POST, no status of either is   *)
(* read.  Without an answer of the cluster the rule has no endpoints or no *)
(* picker, if the gateway takes it at all.                                 *)
MkRule(from, to, mode) ==
    /\ Step(from, to)
    /\ \/ rule' = mode /\ NoBlame
       \/ Blame("gateway") /\ rule' \in {rule, "none"}
       \/ Blame("kube") /\ rule' \in {"broken", "none"}

DelRule(from, to) ==
    /\ Step(from, to)
    /\ \/ rule' = "none" /\ NoBlame
       \/ Blame("gateway") /\ UNCHANGED rule

(* epp_set_v: patch the Deployment, which rolls the EPP, and wait 180 s for *)
(* the rollout.  The result is not read, so the command goes on while the   *)
(* EPP that is being replaced may be down.                                  *)
SetLevel(from, to, v) ==
    /\ Step(from, to)
    /\ \/ level' = v /\ epp' = Wanted /\ NoBlame
       \/ level' = v /\ epp' \in {epp, "down"} /\ Blame("slow")
       \/ UNCHANGED <<level, epp>> /\ Blame("kube")

Measure(from, to, cmd, want) ==
    /\ Step(from, to)
    /\ row' = [cmd |-> cmd, want |-> want, rule |-> rule, epp |-> epp,
               alone |-> ~orphan]

(* epp_replicas and epp_scale. *)
ReadReplicas(from, to) ==
    /\ Step(from, to)
    /\ \/ saved' = replicas /\ NoBlame
       \/ saved' = -1 /\ Blame("kube")

ScaleTo(from, to, n) ==
    /\ Step(from, to)
    /\ \/ replicas' = (IF n = -1 THEN replicas ELSE n) /\ NoBlame
       \/ UNCHANGED replicas /\ Blame("kube")

(* epp_wait_down confirms that the EPP is down, or warns after 180 s; the  *)
(* command goes on either way.                                             *)
WaitDown(from, to) ==
    /\ Step(from, to)
    /\ \/ epp # "up" /\ NoBlame
       \/ epp = "up" /\ Blame("slow")

WaitUp(from, to) ==
    /\ Step(from, to)
    /\ \/ epp = "up" /\ NoBlame
       \/ epp # "up" /\ Blame("slow")

----------------------------------------------------------------------------
(* The commands. *)

KeepEpp   == UNCHANGED <<replicas, epp, level, saved>>
KeepLoops == UNCHANGED <<sender, orphan>>
KeepShell == UNCHANGED <<plan, modes>> /\ KeepLoops

Running(cmd) == plan # <<>> /\ Head(plan) = cmd

(* A rule, and a measurement under it. *)
RuleStep(from, to, mode) ==
    MkRule(from, to, mode) /\ KeepEpp /\ KeepShell /\ UNCHANGED row

RowStep(from, to, cmd, want) ==
    Measure(from, to, cmd, want) /\ NoBlame /\ UNCHANGED rule /\ KeepEpp /\ KeepShell

(* The end of a command: the rule is deleted. *)
EndStep(from) ==
    DelRule(from, "end") /\ KeepEpp /\ KeepShell /\ UNCHANGED row

PodsStep(to) ==
    /\ NeedPods("begin", to)
    /\ modes' = (CASE to = "bench" /\ Running("bench-cache") -> MODES \o MODES
                   [] to = "bench" /\ Running("bench-sweep") -> MODES
                   [] OTHER -> <<>>)
    /\ UNCHANGED <<rule, row>> /\ KeepEpp /\ KeepLoops

LevelStep(from, to, v) ==
    SetLevel(from, to, v) /\ KeepShell /\ UNCHANGED <<rule, replicas, saved, row>>

VerifyPath ==
    /\ Running("path")
    /\ \/ PodsStep("path-debug")
       \/ LevelStep("path-debug", "path-rule", "debug")
       \/ RuleStep("path-rule", "path-send", "epp")
       \/ RowStep("path-send", "path-normal", "path", "epp")
       \/ LevelStep("path-normal", "path-del", "normal")
       \/ EndStep("path-del")

VerifyDecides ==
    /\ Running("decides")
    /\ \/ PodsStep("decides-rr")
       \/ RuleStep("decides-rr", "decides-send-rr", "rr")
       \/ RowStep("decides-send-rr", "decides-epp", "decides", "rr")
       \/ RuleStep("decides-epp", "decides-send-epp", "epp")
       \/ RowStep("decides-send-epp", "decides-del", "decides", "epp")
       \/ EndStep("decides-del")

(* The loop in the background runs until $OUT/.q5stop exists; OUT is a new  *)
(* directory for each invocation unless it is given.                       *)
LoopStep(from, to, runs) ==
    /\ Step(from, to)
    /\ sender' = runs
    /\ UNCHANGED orphan \/ (~runs /\ orphan' = FALSE)
    /\ UNCHANGED <<rule, plan, modes, row>> /\ KeepEpp /\ NoBlame

VerifyVllm ==
    /\ Running("vllm")
    /\ \/ PodsStep("vllm-rule")
       \/ RuleStep("vllm-rule", "vllm-load", "FailOpen")
       \/ LoopStep("vllm-load", "vllm-send", TRUE)
       \/ RowStep("vllm-send", "vllm-stop", "vllm", "FailOpen")
       \/ LoopStep("vllm-stop", "vllm-del", FALSE)
       \/ EndStep("vllm-del")

ScaleStep(from, to, n) ==
    ScaleTo(from, to, n) /\ KeepShell /\ UNCHANGED <<rule, epp, level, saved, row>>

WaitStep == KeepShell /\ KeepEpp /\ UNCHANGED <<rule, row>>

VerifyFailmode ==
    /\ Running("failmode")
    /\ \/ PodsStep("fail-read")
       \/ /\ ReadReplicas("fail-read", "fail-scale")
          /\ KeepShell /\ UNCHANGED <<rule, replicas, epp, level, row>>
       \/ ScaleStep("fail-scale", "fail-down", 0)
       \/ WaitDown("fail-down", "fail-close") /\ WaitStep
       \/ RuleStep("fail-close", "fail-send-close", "FailClose")
       \/ RowStep("fail-send-close", "fail-open", "failmode", "FailClose")
       \/ RuleStep("fail-open", "fail-send-open", "FailOpen")
       \/ RowStep("fail-send-open", "fail-back", "failmode", "FailOpen")
       \/ ScaleStep("fail-back", "fail-up", saved)
       \/ WaitUp("fail-up", "fail-del") /\ WaitStep
       \/ EndStep("fail-del")

(* bench-cache goes through MODES for long and again for short             *)
(* conversations, bench-sweep and bench-singleshot once.                   *)
Bench ==
    /\ Running("bench-cache") \/ Running("bench-sweep")
    /\ \/ PodsStep("bench")
       \/ modes # <<>> /\ RuleStep("bench", "bench-send", Head(modes))
       \/ /\ Measure("bench-send", "bench", Head(plan), Head(modes))
          /\ modes' = Tail(modes)
          /\ NoBlame /\ KeepEpp /\ KeepLoops /\ UNCHANGED <<rule, plan>>
       \/ modes = <<>> /\ EndStep("bench")

Command == VerifyPath \/ VerifyDecides \/ VerifyVllm \/ VerifyFailmode \/ Bench

(* The local variables of a command, and what is remembered of it. *)
Fresh == saved' = -1 /\ row' = NoRow /\ now' = {}

(* bash run.sh <command>; the next command of verify-all, bench-all, all.  *)
Invoke ==
    /\ pc = "idle"
    /\ plan' \in EppPlans
    /\ pc' = "begin"
    /\ UNCHANGED hung
    /\ Fresh
    /\ UNCHANGED <<clusterVars, modes, sender, orphan, blame>>

NextCommand ==
    /\ pc = "end"
    /\ plan' = Tail(plan)
    /\ pc' = (IF plan' = <<>> THEN "idle" ELSE "begin")
    /\ Fresh
    /\ UNCHANGED <<clusterVars, modes, sender, orphan, blame>>

(* Nothing is put back.  A hangup ends the shell and its background loop;  *)
(* Ctrl-C and a kill of the shell leave the loop running, for bash lets    *)
(* background commands of a script ignore SIGINT.                          *)
Interrupt ==
    /\ pc # "idle"
    /\ Blame("interrupt")
    /\ orphan' \in {orphan, sender \/ orphan}
    /\ sender' = FALSE
    /\ pc' = "idle"
    /\ hung' = FALSE
    /\ plan' = <<>>
    /\ modes' = <<>>
    /\ UNCHANGED <<clusterVars, saved, row>>

(* The steps all of whose calls end by themselves: curl has -m 30 or 5 and  *)
(* every loop is counted.  Any other step calls kubectl, guidellm or the    *)
(* REST API of the gateway without a limit, and may wait for ever, with or  *)
(* without the effect of the call.                                          *)
Limited == {"idle", "end", "vllm-load", "vllm-stop", "fail-send-close"}

Hang ==
    /\ pc \notin Limited
    /\ hung' = TRUE
    /\ UNCHANGED <<clusterVars, plan, pc, saved, modes, sender, orphan, row, blame, now>>

Shell == ~hung /\ (Command \/ NextCommand) /\ UNCHANGED hung

----------------------------------------------------------------------------
(* The cluster reconciles the Deployment with its specification, at any     *)
(* time or never, and an EPP that is asked for may go down by itself.       *)
Reconcile ==
    /\ epp # Wanted
    /\ epp' = Wanted
    /\ UNCHANGED <<rule, replicas, level, shellVars, row, blame, now>>

EppLost ==
    /\ epp = "up"
    /\ epp' = "lost"
    /\ UNCHANGED <<rule, replicas, level, shellVars, row, blame, now>>

(* rule.sh epp|chwbl|rr|delete, run while the harness is not: it deletes   *)
(* the rule and stops there without Running pods.                          *)
RuleSh ==
    /\ pc = "idle"
    /\ rule' \in {"operator", "none"}
    /\ UNCHANGED <<replicas, epp, level, shellVars, row, blame, now>>

EppNext == Shell \/ Hang \/ Invoke \/ Interrupt \/ Reconcile \/ EppLost \/ RuleSh

EppSpec == EppInit /\ [][EppNext]_eppVars

(* The script runs while no call holds it.  The cluster and the gateway owe *)
(* it nothing.                                                              *)
EppFairSpec == EppSpec /\ WF_eppVars(Shell)

----------------------------------------------------------------------------
EppTypeOK ==
    /\ rule \in EppRules
    /\ replicas \in Nat
    /\ epp \in EppPods
    /\ level \in EppLevels
    /\ plan \in Seq(EppCmds)
    /\ hung \in BOOLEAN
    /\ saved \in Nat \cup {-1}
    /\ modes \in Seq(EppModes)
    /\ sender \in BOOLEAN /\ orphan \in BOOLEAN
    /\ row \in [cmd : EppCmds \cup {"none"}, want : EppRules, rule : EppRules,
                epp : EppPods, alone : BOOLEAN]
    /\ blame \subseteq EppBlames
    /\ now \subseteq EppBlames

(* README.md:45-55, what each command changes and puts back: when no       *)
(* command runs, the replicas are those from before, no rule and no raised *)
(* log level is left, and nothing is still sending, except through the     *)
(* causes named here.  A slow rollout or a slow EPP is none of them.       *)
RestoredUnlessBlamed ==
    pc = "idle" =>
        /\ replicas # EppReplicas => blame \cap {"kube", "interrupt"} # {}
        /\ level = "debug" => blame \cap {"kube", "interrupt"} # {}
        /\ rule \notin {"none", "operator"} => blame \cap {"gateway", "interrupt"} # {}
        /\ sender \/ orphan => "interrupt" \in blame

(* A measurement is taken under the rule it is filed under, unless a call  *)
(* failed during the same command: an earlier interruption or failure, or  *)
(* a rule of the operator, cannot spoil it, because mkrule always deletes  *)
(* first.                                                                  *)
MeasuredUnderItsRule ==
    row.rule # row.want => now \cap {"gateway", "kube"} # {}

(* verify-failmode measures with the EPP down, unless a call or wait of    *)
(* the same command failed (the result of epp_wait_down is ignored).  What *)
(* routes through the EPP is measured with the EPP up or down by itself:   *)
(* it is down by the harness only if a wait or call failed, the rollout of *)
(* epp_set_v among them, or a command was cut off, at some time before.    *)
(* And no requests of another command are in it, unless one was cut off.   *)
PickerAsExpected ==
    /\ (row.cmd = "failmode" /\ row.epp = "up") => now \cap {"slow", "kube"} # {}
    /\ (row.want = "epp" /\ row.epp = "down") => blame \cap {"slow", "kube", "interrupt"} # {}
    /\ ~row.alone => "interrupt" \in blame

(* Every command ends or is held by one call that has no limit: no loop of *)
(* the script waits for the cluster without bound.  Without the bound in   *)
(* epp_wait_down an EPP that stays up would hold it for ever.              *)
CommandsEnd == (pc # "idle") ~> (pc = "idle" \/ hung)
=============================================================================
