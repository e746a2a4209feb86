--------------------------- MODULE EppHarnessProofs ---------------------------
(***************************************************************************)
(* Proofs about EppHarness, for any plans of commands, any MODES and any   *)
(* number of replicas.  EppSafe says, of every step of a command, what is  *)
(* still to be put back and what the next measurement is taken under,      *)
(* unless something has gone wrong.                                        *)
(***************************************************************************)
EXTENDS EppHarness, SequenceTheorems, TLAPS

ScaledDown == {"fail-down", "fail-close", "fail-send-close", "fail-open", "fail-send-open", "fail-back"}
Waited     == {"fail-close", "fail-send-close", "fail-open", "fail-send-open"}

(* The replicas, what was read of them, and the log level. *)
ToPutBack ==
    "kube" \notin blame /\ "interrupt" \notin blame =>
        /\ pc \notin ScaledDown => replicas = EppReplicas
        /\ pc \in ScaledDown \cup {"fail-scale"} => saved = EppReplicas
        /\ level = "debug" => pc \in {"path-rule", "path-send", "path-normal"}

(* A rule of the harness and its background loop are there only while a    *)
(* command runs.                                                           *)
OnlyWhileRunning ==
    /\ "gateway" \notin blame /\ "interrupt" \notin blame =>
          (pc \in {"idle", "begin", "end"} => rule \in {"none", "operator"})
    /\ sender => pc \in {"vllm-send", "vllm-stop"}
    /\ orphan => "interrupt" \in blame

(* The rule a measurement is about to be taken under. *)
RuleBeforeRow ==
    /\ "gateway" \notin now /\ "kube" \notin now =>
          /\ pc \in {"path-send", "decides-send-epp"} => rule = "epp"
          /\ pc = "decides-send-rr" => rule = "rr"
          /\ pc \in {"vllm-load", "vllm-send", "fail-send-open"} => rule = "FailOpen"
          /\ pc = "fail-send-close" => rule = "FailClose"
          /\ pc = "bench-send" => rule = Head(modes)
    /\ pc = "bench-send" => modes # <<>>
    /\ pc = "end" => plan # <<>>

(* Whether the EPP serves. *)
PickerBeforeRow ==
    /\ "slow" \notin now /\ "kube" \notin now =>
          /\ pc \in ScaledDown => replicas = 0
          /\ pc \in Waited => epp # "up"
    /\ "slow" \notin blame /\ "kube" \notin blame /\ "interrupt" \notin blame =>
          (pc \notin ScaledDown \cup {"fail-up"} => epp # "down")

RowIsKnown ==
    /\ row.rule # row.want => "gateway" \in now \/ "kube" \in now
    /\ row.cmd = "failmode" /\ row.epp = "up" => "slow" \in now \/ "kube" \in now
    /\ row.want = "epp" /\ row.epp = "down" => "slow" \in blame \/ "kube" \in blame \/ "interrupt" \in blame
    /\ ~row.alone => "interrupt" \in blame

EppSafe == ToPutBack /\ OnlyWhileRunning /\ RuleBeforeRow /\ PickerBeforeRow /\ RowIsKnown

----------------------------------------------------------------------------
LEMMA PathSafe == EppSafe /\ VerifyPath => EppSafe'
<1> SUFFICES ASSUME EppSafe, VerifyPath PROVE EppSafe'
  OBVIOUS
<1> USE EppAssumption DEF EppSafe, ToPutBack, OnlyWhileRunning, RuleBeforeRow, PickerBeforeRow, RowIsKnown,
        ScaledDown, Waited, Step, Blame, NoBlame, KeepEpp, KeepLoops, KeepShell
<1>0. plan # <<>>
  BY DEF VerifyPath, Running
<1>1. CASE PodsStep("path-debug")
  BY <1>1 DEF PodsStep, NeedPods
<1>2. CASE LevelStep("path-debug", "path-rule", "debug")
  BY <1>2 DEF LevelStep, SetLevel, Wanted
<1>3. CASE RuleStep("path-rule", "path-send", "epp")
  BY <1>3 DEF RuleStep, MkRule
<1>4. CASE RowStep("path-send", "path-normal", "path", "epp")
  BY <1>4 DEF RowStep, Measure
<1>5. CASE LevelStep("path-normal", "path-del", "normal")
  BY <1>5 DEF LevelStep, SetLevel, Wanted
<1>6. CASE EndStep("path-del")
  BY <1>0, <1>6 DEF EndStep, DelRule
<1> QED
  BY <1>1, <1>2, <1>3, <1>4, <1>5, <1>6 DEF VerifyPath

LEMMA DecidesSafe == EppSafe /\ VerifyDecides => EppSafe'
<1> SUFFICES ASSUME EppSafe, VerifyDecides PROVE EppSafe'
  OBVIOUS
<1> USE EppAssumption DEF EppSafe, ToPutBack, OnlyWhileRunning, RuleBeforeRow, PickerBeforeRow, RowIsKnown,
        ScaledDown, Waited, Step, Blame, NoBlame, KeepEpp, KeepLoops, KeepShell
<1>0. plan # <<>>
  BY DEF VerifyDecides, Running
<1>1. CASE PodsStep("decides-rr")
  BY <1>1 DEF PodsStep, NeedPods
<1>2. CASE RuleStep("decides-rr", "decides-send-rr", "rr")
  BY <1>2 DEF RuleStep, MkRule
<1>3. CASE RowStep("decides-send-rr", "decides-epp", "decides", "rr")
  BY <1>3 DEF RowStep, Measure
<1>4. CASE RuleStep("decides-epp", "decides-send-epp", "epp")
  BY <1>4 DEF RuleStep, MkRule
<1>5. CASE RowStep("decides-send-epp", "decides-del", "decides", "epp")
  BY <1>5 DEF RowStep, Measure
<1>6. CASE EndStep("decides-del")
  BY <1>0, <1>6 DEF EndStep, DelRule
<1> QED
  BY <1>1, <1>2, <1>3, <1>4, <1>5, <1>6 DEF VerifyDecides

LEMMA VllmSafe == EppSafe /\ VerifyVllm => EppSafe'
<1> SUFFICES ASSUME EppSafe, VerifyVllm PROVE EppSafe'
  OBVIOUS
<1> USE EppAssumption DEF EppSafe, ToPutBack, OnlyWhileRunning, RuleBeforeRow, PickerBeforeRow, RowIsKnown,
        ScaledDown, Waited, Step, Blame, NoBlame, KeepEpp, KeepLoops, KeepShell
<1>0. plan # <<>>
  BY DEF VerifyVllm, Running
<1>1. CASE PodsStep("vllm-rule")
  BY <1>1 DEF PodsStep, NeedPods
<1>2. CASE RuleStep("vllm-rule", "vllm-load", "FailOpen")
  BY <1>2 DEF RuleStep, MkRule
<1>3. CASE LoopStep("vllm-load", "vllm-send", TRUE)
  BY <1>3 DEF LoopStep
<1>4. CASE RowStep("vllm-send", "vllm-stop", "vllm", "FailOpen")
  BY <1>4 DEF RowStep, Measure
<1>5. CASE LoopStep("vllm-stop", "vllm-del", FALSE)
  BY <1>5 DEF LoopStep
<1>6. CASE EndStep("vllm-del")
  BY <1>0, <1>6 DEF EndStep, DelRule
<1> QED
  BY <1>1, <1>2, <1>3, <1>4, <1>5, <1>6 DEF VerifyVllm

LEMMA FailmodeSafe == EppSafe /\ VerifyFailmode => EppSafe'
<1> SUFFICES ASSUME EppSafe, VerifyFailmode PROVE EppSafe'
  OBVIOUS
<1> USE EppAssumption DEF EppSafe, ToPutBack, OnlyWhileRunning, RuleBeforeRow, PickerBeforeRow, RowIsKnown,
        ScaledDown, Waited, Step, Blame, NoBlame, KeepEpp, KeepLoops, KeepShell, WaitStep
<1>0. plan # <<>>
  BY DEF VerifyFailmode, Running
<1>1. CASE PodsStep("fail-read")
  BY <1>1 DEF PodsStep, NeedPods
<1>2. CASE /\ ReadReplicas("fail-read", "fail-scale")
           /\ KeepShell /\ UNCHANGED <<rule, replicas, epp, level, row>>
  BY <1>2 DEF ReadReplicas
<1>3. CASE ScaleStep("fail-scale", "fail-down", 0)
  BY <1>3 DEF ScaleStep, ScaleTo
<1>4. CASE WaitDown("fail-down", "fail-close") /\ WaitStep
  BY <1>4 DEF WaitDown
<1>5. CASE RuleStep("fail-close", "fail-send-close", "FailClose")
  BY <1>5 DEF RuleStep, MkRule
<1>6. CASE RowStep("fail-send-close", "fail-open", "failmode", "FailClose")
  BY <1>6 DEF RowStep, Measure
<1>7. CASE RuleStep("fail-open", "fail-send-open", "FailOpen")
  BY <1>7 DEF RuleStep, MkRule
<1>8. CASE RowStep("fail-send-open", "fail-back", "failmode", "FailOpen")
  BY <1>8 DEF RowStep, Measure
<1>9. CASE ScaleStep("fail-back", "fail-up", saved)
  BY <1>9 DEF ScaleStep, ScaleTo
<1>10. CASE WaitUp("fail-up", "fail-del") /\ WaitStep
  BY <1>10 DEF WaitUp
<1>11. CASE EndStep("fail-del")
  BY <1>0, <1>11 DEF EndStep, DelRule
<1> QED
  BY <1>1, <1>2, <1>3, <1>4, <1>5, <1>6, <1>7, <1>8, <1>9, <1>10, <1>11 DEF VerifyFailmode

LEMMA BenchSafe == EppSafe /\ Bench => EppSafe'
<1> SUFFICES ASSUME EppSafe, Bench PROVE EppSafe'
  OBVIOUS
<1> USE EppAssumption DEF EppSafe, ToPutBack, OnlyWhileRunning, RuleBeforeRow, PickerBeforeRow, RowIsKnown,
        ScaledDown, Waited, Step, Blame, NoBlame, KeepEpp, KeepLoops, KeepShell
<1>0. plan # <<>>
  BY DEF Bench, Running
<1>1. CASE PodsStep("bench")
  BY <1>1 DEF PodsStep, NeedPods
<1>2. CASE modes # <<>> /\ RuleStep("bench", "bench-send", Head(modes))
  BY <1>2 DEF RuleStep, MkRule
<1>3. CASE /\ Measure("bench-send", "bench", Head(plan), Head(modes))
           /\ modes' = Tail(modes)
           /\ NoBlame /\ KeepEpp /\ KeepLoops /\ UNCHANGED <<rule, plan>>
  <2>1. Head(plan) # "failmode"
    BY DEF Bench, Running
  <2> QED
    BY <1>3, <2>1 DEF Measure
<1>4. CASE modes = <<>> /\ EndStep("bench")
  BY <1>0, <1>4 DEF EndStep, DelRule
<1> QED
  BY <1>1, <1>2, <1>3, <1>4 DEF Bench

LEMMA EppStepSafe == EppSafe /\ [EppNext]_eppVars => EppSafe'
<1> SUFFICES ASSUME EppSafe, [EppNext]_eppVars PROVE EppSafe'
  OBVIOUS
<1>1. CASE Command /\ UNCHANGED hung
  BY <1>1, PathSafe, DecidesSafe, VllmSafe, FailmodeSafe, BenchSafe DEF Command
<1> USE EppAssumption DEF EppSafe, ToPutBack, OnlyWhileRunning, RuleBeforeRow, PickerBeforeRow, RowIsKnown,
        ScaledDown, Waited, Blame, clusterVars, shellVars
<1>2. CASE NextCommand /\ UNCHANGED hung
  BY <1>2 DEF NextCommand, Fresh, NoRow
<1>3. CASE Invoke
  BY <1>3 DEF Invoke, Fresh, NoRow
<1>4. CASE Interrupt
  BY <1>4 DEF Interrupt
<1>5. CASE Reconcile
  <2>1. /\ epp' = (IF replicas > 0 THEN "up" ELSE "down")
        /\ UNCHANGED <<rule, replicas, level, plan, pc, saved, modes, sender, orphan, row, blame, now>>
    BY <1>5 DEF Reconcile, Wanted
  <2>2. ToPutBack' /\ OnlyWhileRunning' /\ RuleBeforeRow' /\ RowIsKnown'
    BY <2>1
  <2>3. PickerBeforeRow'
    BY <2>1
  <2> QED
    BY <2>2, <2>3
<1>6. CASE RuleSh
  BY <1>6 DEF RuleSh
<1>7. CASE UNCHANGED eppVars
  BY <1>7 DEF eppVars
<1>8. CASE EppLost
  BY <1>8 DEF EppLost
<1>9. CASE Hang
  BY <1>9 DEF Hang
<1> QED
  BY <1>1, <1>2, <1>3, <1>4, <1>5, <1>6, <1>7, <1>8, <1>9 DEF EppNext, Shell

LEMMA EppInvariant == EppSpec => []EppSafe
<1>1. EppInit => EppSafe
  BY EppAssumption DEF EppInit, EppSafe, ToPutBack, OnlyWhileRunning, RuleBeforeRow, PickerBeforeRow,
        RowIsKnown, ScaledDown, Waited, EppLevels, NoRow
<1> QED
  BY <1>1, EppStepSafe, PTL DEF EppSpec

----------------------------------------------------------------------------
(* run.sh: when no command runs, replicas, log level and rule are put back *)
(* and nothing is sending, except through the causes named, for any plans  *)
(* and any number of invocations.                                          *)
THEOREM RestoresUnlessBlamed == EppSpec => []RestoredUnlessBlamed
<1>1. EppSafe => RestoredUnlessBlamed
  BY DEF EppSafe, ToPutBack, OnlyWhileRunning, ScaledDown, RestoredUnlessBlamed
<1> QED
  BY <1>1, EppInvariant, PTL

(* mkrule, mkrule_failmode: a measurement is taken under the rule it is    *)
(* filed under unless a call failed during the same command, for any MODES *)
(* and whatever rule an earlier command or the operator left.              *)
THEOREM MeasuresUnderItsRule == EppSpec => []MeasuredUnderItsRule
<1>1. EppSafe => MeasuredUnderItsRule
  BY DEF EppSafe, RowIsKnown, MeasuredUnderItsRule
<1> QED
  BY <1>1, EppInvariant, PTL

(* verify_failmode, epp_wait_down, epp_scale: the EPP is down, or serves,  *)
(* when it must be for a measurement, unless a wait or call failed or a    *)
(* command was cut off.                                                    *)
THEOREM PickerIsAsExpected == EppSpec => []PickerAsExpected
<1>1. EppSafe => PickerAsExpected
  BY DEF EppSafe, RowIsKnown, PickerAsExpected
<1> QED
  BY <1>1, EppInvariant, PTL

----------------------------------------------------------------------------
(* Types.  Tail(modes) is a sequence because bench-send is reached only    *)
(* with a mode to send.                                                    *)

LEMMA PodsType ==
    ASSUME EppTypeOK, NEW to, PodsStep(to), UNCHANGED hung
    PROVE  EppTypeOK'
<1>1. modes' \in Seq(EppModes)
  <2>1. MODES \in Seq(EppModes) /\ MODES \o MODES \in Seq(EppModes) /\ <<>> \in Seq(EppModes)
    BY EppAssumption
  <2> QED
    BY <2>1 DEF PodsStep
<1>2. plan' \in Seq(EppCmds)
  <2>1. <<>> \in Seq(EppCmds)
    OBVIOUS
  <2> QED
    BY <2>1 DEF PodsStep, NeedPods, EppTypeOK
<1> QED
  BY <1>1, <1>2 DEF PodsStep, NeedPods, NoBlame, KeepEpp, KeepLoops, EppTypeOK

LEMMA RuleType ==
    ASSUME EppTypeOK, NEW from, NEW to, NEW mode \in EppRules, RuleStep(from, to, mode), UNCHANGED hung
    PROVE  EppTypeOK'
<1>1. rule' \in EppRules
  BY DEF RuleStep, MkRule, EppTypeOK, EppRules
<1>2. blame' \subseteq EppBlames /\ now' \subseteq EppBlames
  BY DEF RuleStep, MkRule, Blame, NoBlame, EppTypeOK, EppBlames
<1> QED
  BY <1>1, <1>2 DEF RuleStep, KeepEpp, KeepLoops, KeepShell, EppTypeOK

LEMMA RowType ==
    ASSUME EppTypeOK, NEW from, NEW to, NEW cmd \in EppCmds, NEW want \in EppRules,
           Measure(from, to, cmd, want)
    PROVE  row' \in [cmd : EppCmds \cup {"none"}, want : EppRules, rule : EppRules,
                     epp : EppPods, alone : BOOLEAN]
  BY DEF Measure, EppTypeOK

LEMMA EndType ==
    ASSUME EppTypeOK, NEW from, EndStep(from), UNCHANGED hung
    PROVE  EppTypeOK'
<1>1. rule' \in EppRules
  BY DEF EndStep, DelRule, EppTypeOK, EppRules
<1>2. blame' \subseteq EppBlames /\ now' \subseteq EppBlames
  BY DEF EndStep, DelRule, Blame, NoBlame, EppTypeOK, EppBlames
<1> QED
  BY <1>1, <1>2 DEF EndStep, KeepEpp, KeepLoops, KeepShell, EppTypeOK

LEMMA CommandType == EppTypeOK /\ EppSafe /\ Command /\ UNCHANGED hung => EppTypeOK'
<1> SUFFICES ASSUME EppTypeOK, EppSafe, Command, UNCHANGED hung PROVE EppTypeOK'
  OBVIOUS
<1>0. UNCHANGED hung /\ EppModes \subseteq EppRules /\ {"FailClose", "FailOpen"} \subseteq EppRules
  BY DEF EppRules
<1>1. ASSUME NEW to, PodsStep(to) PROVE EppTypeOK'
  BY <1>0, <1>1, PodsType
<1>2. ASSUME NEW from, NEW to, NEW mode \in EppRules, RuleStep(from, to, mode) PROVE EppTypeOK'
  BY <1>0, <1>2, RuleType
<1>3. ASSUME NEW from, NEW to, NEW cmd \in EppCmds, NEW want \in EppRules, RowStep(from, to, cmd, want)
      PROVE  EppTypeOK'
  BY <1>0, <1>3, RowType DEF RowStep, NoBlame, KeepEpp, KeepLoops, KeepShell, EppTypeOK
<1>4. ASSUME NEW from, EndStep(from) PROVE EppTypeOK'
  BY <1>0, <1>4, EndType
<1>5. ASSUME NEW from, NEW to, NEW v \in EppLevels, LevelStep(from, to, v) PROVE EppTypeOK'
  BY <1>0, <1>5 DEF LevelStep, SetLevel, Wanted, Step, Blame, NoBlame, KeepLoops, KeepShell, EppTypeOK,
                    EppBlames, EppPods
<1>6. ASSUME NEW from, NEW to, NEW runs \in BOOLEAN, LoopStep(from, to, runs) PROVE EppTypeOK'
  BY <1>0, <1>6 DEF LoopStep, Step, NoBlame, KeepEpp, EppTypeOK
<1>7. ASSUME NEW from, NEW to, NEW n \in Nat \cup {-1}, ScaleStep(from, to, n) PROVE EppTypeOK'
  BY <1>0, <1>7 DEF ScaleStep, ScaleTo, Step, Blame, NoBlame, KeepLoops, KeepShell, EppTypeOK, EppBlames
<1>8. CASE VerifyPath
  BY <1>0, <1>1, <1>2, <1>3, <1>4, <1>5, <1>8 DEF VerifyPath, EppCmds, EppLevels, EppModes
<1>9. CASE VerifyDecides
  BY <1>0, <1>1, <1>2, <1>3, <1>4, <1>9 DEF VerifyDecides, EppCmds, EppModes
<1>10. CASE VerifyVllm
  BY <1>0, <1>1, <1>2, <1>3, <1>4, <1>6, <1>10 DEF VerifyVllm, EppCmds
<1>11. CASE VerifyFailmode
  <2>1. CASE /\ ReadReplicas("fail-read", "fail-scale")
             /\ KeepShell /\ UNCHANGED <<rule, replicas, epp, level, row>>
    BY <1>0, <2>1 DEF ReadReplicas, Step, Blame, NoBlame, KeepLoops, KeepShell, EppTypeOK, EppBlames
  <2>2. CASE (WaitDown("fail-down", "fail-close") \/ WaitUp("fail-up", "fail-del")) /\ WaitStep
    BY <1>0, <2>2 DEF WaitDown, WaitUp, WaitStep, Step, Blame, NoBlame, KeepEpp, KeepLoops, KeepShell,
                      EppTypeOK, EppBlames
  <2>3. 0 \in Nat \cup {-1} /\ saved \in Nat \cup {-1}
    BY DEF EppTypeOK
  <2> QED
    BY <1>0, <1>1, <1>2, <1>3, <1>4, <1>7, <1>11, <2>1, <2>2, <2>3 DEF VerifyFailmode, EppCmds
<1>12. CASE Bench
  <2>1. CASE modes # <<>> /\ RuleStep("bench", "bench-send", Head(modes))
    <3>1. Head(modes) \in EppModes
      BY <2>1, HeadTailProperties DEF EppTypeOK
    <3> QED
      BY <1>0, <1>2, <2>1, <3>1
  <2>2. CASE /\ Measure("bench-send", "bench", Head(plan), Head(modes))
             /\ modes' = Tail(modes)
             /\ NoBlame /\ KeepEpp /\ KeepLoops /\ UNCHANGED <<rule, plan>>
    <3>1. modes # <<>>
      BY <2>2 DEF Measure, Step, EppSafe, RuleBeforeRow
    <3>2. Head(modes) \in EppRules /\ Tail(modes) \in Seq(EppModes)
      BY <1>0, <3>1, HeadTailProperties DEF EppTypeOK
    <3>3. Head(plan) \in EppCmds
      BY <1>12 DEF Bench, Running, EppCmds
    <3>4. row' \in [cmd : EppCmds \cup {"none"}, want : EppRules, rule : EppRules,
                    epp : EppPods, alone : BOOLEAN]
      BY <2>2, <3>2, <3>3, RowType
    <3> QED
      BY <1>0, <2>2, <3>2, <3>4 DEF NoBlame, KeepEpp, KeepLoops, EppTypeOK
  <2> QED
    BY <1>1, <1>4, <1>12, <2>1, <2>2 DEF Bench
<1> QED
  BY <1>8, <1>9, <1>10, <1>11, <1>12 DEF Command

LEMMA EppStepType == EppTypeOK /\ EppSafe /\ [EppNext]_eppVars => EppTypeOK'
<1> SUFFICES ASSUME EppTypeOK, EppSafe, [EppNext]_eppVars PROVE EppTypeOK'
  OBVIOUS
<1>1. CASE Command /\ UNCHANGED hung
  BY <1>1, CommandType
<1>0. NoRow \in [cmd : EppCmds \cup {"none"}, want : EppRules, rule : EppRules,
                 epp : EppPods, alone : BOOLEAN]
  BY DEF NoRow, EppRules, EppPods
<1> USE DEF clusterVars, shellVars
<1>2. CASE NextCommand /\ UNCHANGED hung
  <2>1. plan # <<>>
    BY <1>2 DEF NextCommand, EppSafe, RuleBeforeRow
  <2> QED
    BY <1>0, <1>2, <2>1, HeadTailProperties DEF NextCommand, Fresh, EppTypeOK
<1>3. CASE Invoke
  BY <1>0, <1>3, EppAssumption DEF Invoke, Fresh, EppTypeOK
<1>4. CASE Interrupt
  <2>1. <<>> \in Seq(EppCmds) /\ <<>> \in Seq(EppModes)
    OBVIOUS
  <2> QED
    BY <1>4, <2>1 DEF Interrupt, Blame, EppTypeOK, EppBlames
<1>5. CASE Reconcile \/ EppLost
  BY <1>5 DEF Reconcile, EppLost, Wanted, EppTypeOK, EppPods
<1>6. CASE RuleSh
  BY <1>6 DEF RuleSh, EppTypeOK, EppRules
<1>7. CASE UNCHANGED eppVars
  BY <1>7 DEF eppVars, EppTypeOK
<1>8. CASE Hang
  BY <1>8 DEF Hang, EppTypeOK
<1> QED
  BY <1>1, <1>2, <1>3, <1>4, <1>5, <1>6, <1>7, <1>8 DEF EppNext, Shell

(* Every state of the harness, its cluster and its history is well typed.  *)
THEOREM EppTypes == EppSpec => []EppTypeOK
<1>1. EppInit => EppTypeOK
  <2>1. NoRow \in [cmd : EppCmds \cup {"none"}, want : EppRules, rule : EppRules,
                   epp : EppPods, alone : BOOLEAN]
    BY DEF NoRow, EppRules, EppPods
  <2>2. <<>> \in Seq(EppCmds) /\ <<>> \in Seq(EppModes) /\ {"none", "operator"} \subseteq EppRules
    BY DEF EppRules
  <2> QED
    BY <2>1, <2>2, EppAssumption DEF EppInit, EppTypeOK, EppPods
<1> QED
  BY <1>1, EppInvariant, EppStepType, PTL DEF EppSpec

----------------------------------------------------------------------------
(* What can be proved of CommandsEnd without its fairness: how many steps  *)
(* a command has at most.  Togo counts them from a step on, with n modes   *)
(* to send.                                                                *)
Togo(s, n) ==
    CASE s \in {"idle", "end"} -> 0
      [] s \in {"path-del", "decides-del", "vllm-del", "fail-del"} -> 1
      [] s \in {"path-normal", "decides-send-epp", "vllm-stop", "fail-up"} -> 2
      [] s \in {"path-send", "decides-epp", "vllm-send", "fail-back"} -> 3
      [] s \in {"path-rule", "decides-send-rr", "vllm-load", "fail-send-open"} -> 4
      [] s \in {"path-debug", "decides-rr", "vllm-rule", "fail-open"} -> 5
      [] s = "fail-send-close" -> 6
      [] s = "fail-close" -> 7
      [] s = "fail-down"  -> 8
      [] s = "fail-scale" -> 9
      [] s = "fail-read"  -> 10
      [] s = "bench"      -> 2 * n + 1
      [] s = "bench-send" -> 2 * n
      [] s = "begin"      -> 4 * Len(MODES) + 11

Ahead == Togo(pc, Len(modes))

LEMMA TogoIs ==
    ASSUME NEW n
    PROVE  /\ Togo("idle", n) = 0 /\ Togo("end", n) = 0 /\ Togo("begin", n) = 4 * Len(MODES) + 11
           /\ Togo("bench", n) = 2 * n + 1 /\ Togo("bench-send", n) = 2 * n
           /\ Togo("path-debug", n) = 5 /\ Togo("path-rule", n) = 4 /\ Togo("path-send", n) = 3
           /\ Togo("path-normal", n) = 2 /\ Togo("path-del", n) = 1
           /\ Togo("decides-rr", n) = 5 /\ Togo("decides-send-rr", n) = 4 /\ Togo("decides-epp", n) = 3
           /\ Togo("decides-send-epp", n) = 2 /\ Togo("decides-del", n) = 1
           /\ Togo("vllm-rule", n) = 5 /\ Togo("vllm-load", n) = 4 /\ Togo("vllm-send", n) = 3
           /\ Togo("vllm-stop", n) = 2 /\ Togo("vllm-del", n) = 1
           /\ Togo("fail-read", n) = 10 /\ Togo("fail-scale", n) = 9 /\ Togo("fail-down", n) = 8
           /\ Togo("fail-close", n) = 7 /\ Togo("fail-send-close", n) = 6 /\ Togo("fail-open", n) = 5
           /\ Togo("fail-send-open", n) = 4 /\ Togo("fail-back", n) = 3 /\ Togo("fail-up", n) = 2
           /\ Togo("fail-del", n) = 1
BY DEF Togo

StepsOf(cmd) ==
    CASE cmd = "path"     -> {"path-debug", "path-rule", "path-send", "path-normal", "path-del"}
      [] cmd = "decides"  -> {"decides-rr", "decides-send-rr", "decides-epp", "decides-send-epp",
                              "decides-del"}
      [] cmd = "vllm"     -> {"vllm-rule", "vllm-load", "vllm-send", "vllm-stop", "vllm-del"}
      [] cmd = "failmode" -> {"fail-read", "fail-scale", "fail-down", "fail-close", "fail-send-close",
                              "fail-open", "fail-send-open", "fail-back", "fail-up", "fail-del"}
      [] cmd \in {"bench-cache", "bench-sweep"} -> {"bench", "bench-send"}

OnCourse ==
    /\ Len(modes) <= 2 * Len(MODES)
    /\ pc = "bench-send" => modes # <<>>
    /\ pc # "idle" => plan # <<>> /\ pc \in {"begin", "end"} \cup StepsOf(Head(plan))

(* The moves of a command, without what it does. *)
Goes(from, to) == Step(from, to) /\ UNCHANGED <<plan, modes>>

Begins(to) ==
    /\ pc = "begin"
    /\ \/ pc' = to /\ UNCHANGED plan
       \/ pc' = "idle" /\ plan' = <<>>
    /\ modes' \in {<<>>, MODES, MODES \o MODES}

LEMMA Moves ==
    ASSUME NEW from, NEW to, NEW x, NEW y
    PROVE  /\ RuleStep(from, to, x) \/ RowStep(from, to, x, y) \/ LevelStep(from, to, x)
                  \/ LoopStep(from, to, x) \/ ScaleStep(from, to, x) => Goes(from, to)
           /\ EndStep(from) => Goes(from, "end")
           /\ PodsStep(to) => Begins(to)
<1> USE DEF Goes, KeepShell
<1>1. RuleStep(from, to, x) \/ RowStep(from, to, x, y) \/ LevelStep(from, to, x) => Goes(from, to)
  BY DEF RuleStep, MkRule, RowStep, Measure, LevelStep, SetLevel
<1>2. LoopStep(from, to, x) \/ ScaleStep(from, to, x) => Goes(from, to)
  BY DEF LoopStep, ScaleStep, ScaleTo
<1>3. EndStep(from) => Goes(from, "end")
  BY DEF EndStep, DelRule
<1>4. PodsStep(to) => Begins(to)
  BY DEF PodsStep, NeedPods, Begins
<1> QED
  BY <1>1, <1>2, <1>3, <1>4

Advances ==
    /\ OnCourse'
    /\ Len(plan') < Len(plan) \/ (plan' = plan /\ Ahead' < Ahead)

LEMMA Counts ==
    ASSUME EppTypeOK, OnCourse
    PROVE  /\ Len(MODES) \in Nat /\ Len(plan) \in Nat /\ Len(modes) \in 0..2 * Len(MODES)
           /\ Ahead \in 0..4 * Len(MODES) + 11
<1>1. Len(MODES) \in Nat /\ Len(plan) \in Nat /\ Len(modes) \in 0..2 * Len(MODES)
  BY EppAssumption DEF EppTypeOK, OnCourse
<1>2. pc \in {"idle", "begin", "end"} \/ (plan # <<>> /\ Head(plan) \in EppCmds /\ pc \in StepsOf(Head(plan)))
  <2>1. plan # <<>> => Head(plan) \in EppCmds
    BY HeadTailProperties DEF EppTypeOK
  <2> QED
    BY <2>1 DEF OnCourse
<1>3. pc \in {"idle", "begin", "end"} \/ \E cmd \in EppCmds : pc \in StepsOf(cmd)
  BY <1>2
<1>4. CASE pc \in {"idle", "begin", "end"}
  BY <1>1, <1>4, TogoIs DEF Ahead
<1>5. ASSUME NEW cmd \in EppCmds, pc \in StepsOf(cmd) PROVE Ahead \in 0..4 * Len(MODES) + 11
  <2>1. CASE cmd \in {"bench-cache", "bench-sweep"}
    <3>1. pc \in {"bench", "bench-send"}
      BY <1>5, <2>1 DEF StepsOf
    <3>2. Ahead = 2 * Len(modes) + 1 \/ Ahead = 2 * Len(modes)
      <4>1. /\ Togo("bench", Len(modes)) = 2 * Len(modes) + 1
            /\ Togo("bench-send", Len(modes)) = 2 * Len(modes)
        BY TogoIs
      <4> QED
        BY <3>1, <4>1 DEF Ahead
    <3> HIDE DEF Ahead
    <3> QED
      BY <1>1, <3>2
  <2>2. CASE cmd \in {"path", "decides", "vllm"}
    BY TogoIs, <1>1, <1>5, <2>2 DEF Ahead, StepsOf
  <2>3. CASE cmd = "failmode"
    BY TogoIs, <1>1, <1>5, <2>3 DEF Ahead, StepsOf
  <2> QED
    BY <2>1, <2>2, <2>3 DEF EppCmds
<1> QED
  BY <1>1, <1>3, <1>4, <1>5

LEMMA BeginAdvances ==
    ASSUME EppTypeOK, OnCourse, plan # <<>>, NEW to \in StepsOf(Head(plan)), Begins(to),
           to # "bench-send"
    PROVE  Advances
<1>1. /\ Len(MODES) \in Nat /\ Len(MODES \o MODES) = 2 * Len(MODES) /\ Len(<<>>) = 0
      /\ Len(plan) \in Nat \ {0} /\ Head(plan) \in EppCmds
  BY EppAssumption, HeadTailProperties, EmptySeq DEF EppTypeOK
<1>2. Len(modes') \in 0..2 * Len(MODES)
  BY <1>1 DEF Begins
<1>3. CASE pc' = "idle" /\ plan' = <<>>
  BY <1>1, <1>2, <1>3 DEF Advances, OnCourse
<1>4. CASE pc' = to /\ plan' = plan
  <2>1. OnCourse'
    BY <1>2, <1>4 DEF OnCourse
  <2>2. Togo(to, Len(modes')) < 4 * Len(MODES) + 11
    <3>1. to \in StepsOf(Head(plan)) /\ Len(modes') \in Nat /\ Len(modes') <= 2 * Len(MODES)
      BY <1>1, <1>2
    <3> QED
      BY <1>1, <3>1 DEF Togo, StepsOf, EppCmds
  <2>3. Ahead = 4 * Len(MODES) + 11 /\ Ahead' = Togo(to, Len(modes'))
    BY <1>4 DEF Ahead, Togo, Begins
  <2> QED
    BY <1>4, <2>1, <2>2, <2>3 DEF Advances
<1> QED
  BY <1>3, <1>4 DEF Begins

LEMMA GoAdvances ==
    ASSUME EppTypeOK, OnCourse, plan # <<>>, NEW from, NEW to \in {"end"} \cup StepsOf(Head(plan)),
           Goes(from, to), to = "bench-send" => modes # <<>>,
           Togo(to, Len(modes)) < Togo(from, Len(modes))
    PROVE  Advances
<1>1. pc = from /\ pc' = to /\ plan' = plan /\ modes' = modes
  BY DEF Goes, Step
<1>2. OnCourse'
  BY <1>1 DEF OnCourse
<1>3. Ahead = Togo(from, Len(modes)) /\ Ahead' = Togo(to, Len(modes))
  BY <1>1 DEF Ahead
<1> QED
  BY <1>1, <1>2, <1>3 DEF Advances

LEMMA CommandAdvances ==
    ASSUME EppTypeOK, OnCourse, Command
    PROVE  Advances
<1>1. CASE VerifyPath
  <2>1. plan # <<>> /\ StepsOf(Head(plan)) = StepsOf("path")
    BY <1>1 DEF VerifyPath, Running
  <2>2. \/ Begins("path-debug") \/ Goes("path-debug", "path-rule") \/ Goes("path-rule", "path-send")
        \/ Goes("path-send", "path-normal") \/ Goes("path-normal", "path-del") \/ Goes("path-del", "end")
    BY <1>1, Moves DEF VerifyPath
  <2>5. CASE Begins("path-debug")
    <3>1. "path-debug" \in StepsOf("path")
      BY DEF StepsOf
    <3> QED
      BY <2>1, <2>5, <3>1, BeginAdvances
  <2>6. /\ Togo("path-rule", Len(modes)) < Togo("path-debug", Len(modes))
        /\ Togo("path-send", Len(modes)) < Togo("path-rule", Len(modes))
        /\ Togo("path-normal", Len(modes)) < Togo("path-send", Len(modes))
        /\ Togo("path-del", Len(modes)) < Togo("path-normal", Len(modes))
        /\ Togo("end", Len(modes)) < Togo("path-del", Len(modes))
    BY TogoIs
  <2>7. ASSUME NEW from, NEW to, Goes(from, to), to # "bench-send", to \in {"end"} \cup StepsOf("path"),
               Togo(to, Len(modes)) < Togo(from, Len(modes))
        PROVE  Advances
    BY <2>1, <2>7, GoAdvances
  <2>8. CASE ~Begins("path-debug")
    BY <2>2, <2>6, <2>7, <2>8 DEF StepsOf
  <2> QED
    BY <2>5, <2>8
<1>2. CASE VerifyDecides
  <2>1. plan # <<>> /\ StepsOf(Head(plan)) = StepsOf("decides")
    BY <1>2 DEF VerifyDecides, Running
  <2>2. \/ Begins("decides-rr") \/ Goes("decides-rr", "decides-send-rr")
        \/ Goes("decides-send-rr", "decides-epp") \/ Goes("decides-epp", "decides-send-epp")
        \/ Goes("decides-send-epp", "decides-del") \/ Goes("decides-del", "end")
    BY <1>2, Moves DEF VerifyDecides
  <2>5. CASE Begins("decides-rr")
    <3>1. "decides-rr" \in StepsOf("decides")
      BY DEF StepsOf
    <3> QED
      BY <2>1, <2>5, <3>1, BeginAdvances
  <2>6. /\ Togo("decides-send-rr", Len(modes)) < Togo("decides-rr", Len(modes))
        /\ Togo("decides-epp", Len(modes)) < Togo("decides-send-rr", Len(modes))
        /\ Togo("decides-send-epp", Len(modes)) < Togo("decides-epp", Len(modes))
        /\ Togo("decides-del", Len(modes)) < Togo("decides-send-epp", Len(modes))
        /\ Togo("end", Len(modes)) < Togo("decides-del", Len(modes))
    BY TogoIs
  <2>7. ASSUME NEW from, NEW to, Goes(from, to), to # "bench-send", to \in {"end"} \cup StepsOf("decides"),
               Togo(to, Len(modes)) < Togo(from, Len(modes))
        PROVE  Advances
    BY <2>1, <2>7, GoAdvances
  <2>8. CASE ~Begins("decides-rr")
    BY <2>2, <2>6, <2>7, <2>8 DEF StepsOf
  <2> QED
    BY <2>5, <2>8
<1>3. CASE VerifyVllm
  <2>1. plan # <<>> /\ StepsOf(Head(plan)) = StepsOf("vllm")
    BY <1>3 DEF VerifyVllm, Running
  <2>2. \/ Begins("vllm-rule") \/ Goes("vllm-rule", "vllm-load") \/ Goes("vllm-load", "vllm-send")
        \/ Goes("vllm-send", "vllm-stop") \/ Goes("vllm-stop", "vllm-del") \/ Goes("vllm-del", "end")
    BY <1>3, Moves DEF VerifyVllm
  <2>5. CASE Begins("vllm-rule")
    <3>1. "vllm-rule" \in StepsOf("vllm")
      BY DEF StepsOf
    <3> QED
      BY <2>1, <2>5, <3>1, BeginAdvances
  <2>6. /\ Togo("vllm-load", Len(modes)) < Togo("vllm-rule", Len(modes))
        /\ Togo("vllm-send", Len(modes)) < Togo("vllm-load", Len(modes))
        /\ Togo("vllm-stop", Len(modes)) < Togo("vllm-send", Len(modes))
        /\ Togo("vllm-del", Len(modes)) < Togo("vllm-stop", Len(modes))
        /\ Togo("end", Len(modes)) < Togo("vllm-del", Len(modes))
    BY TogoIs
  <2>7. ASSUME NEW from, NEW to, Goes(from, to), to # "bench-send", to \in {"end"} \cup StepsOf("vllm"),
               Togo(to, Len(modes)) < Togo(from, Len(modes))
        PROVE  Advances
    BY <2>1, <2>7, GoAdvances
  <2>8. CASE ~Begins("vllm-rule")
    BY <2>2, <2>6, <2>7, <2>8 DEF StepsOf
  <2> QED
    BY <2>5, <2>8
<1>4. CASE VerifyFailmode
  <2>1. plan # <<>> /\ StepsOf(Head(plan)) = StepsOf("failmode")
    BY <1>4 DEF VerifyFailmode, Running
  <2>2. ReadReplicas("fail-read", "fail-scale") /\ KeepShell => Goes("fail-read", "fail-scale")
    BY DEF ReadReplicas, KeepShell, Goes
  <2>3. /\ WaitDown("fail-down", "fail-close") /\ WaitStep => Goes("fail-down", "fail-close")
        /\ WaitUp("fail-up", "fail-del") /\ WaitStep => Goes("fail-up", "fail-del")
    BY DEF WaitDown, WaitUp, WaitStep, KeepShell, Goes
  <2>4. \/ Begins("fail-read") \/ Goes("fail-read", "fail-scale") \/ Goes("fail-scale", "fail-down")
        \/ Goes("fail-down", "fail-close") \/ Goes("fail-close", "fail-send-close")
        \/ Goes("fail-send-close", "fail-open") \/ Goes("fail-open", "fail-send-open")
        \/ Goes("fail-send-open", "fail-back") \/ Goes("fail-back", "fail-up")
        \/ Goes("fail-up", "fail-del") \/ Goes("fail-del", "end")
    BY <1>4, <2>2, <2>3, Moves DEF VerifyFailmode
  <2>5. CASE Begins("fail-read")
    <3>1. "fail-read" \in StepsOf("failmode")
      BY DEF StepsOf
    <3> QED
      BY <2>1, <2>5, <3>1, BeginAdvances
  <2>6. /\ Togo("fail-scale", Len(modes)) < Togo("fail-read", Len(modes))
        /\ Togo("fail-down", Len(modes)) < Togo("fail-scale", Len(modes))
        /\ Togo("fail-close", Len(modes)) < Togo("fail-down", Len(modes))
        /\ Togo("fail-send-close", Len(modes)) < Togo("fail-close", Len(modes))
        /\ Togo("fail-open", Len(modes)) < Togo("fail-send-close", Len(modes))
        /\ Togo("fail-send-open", Len(modes)) < Togo("fail-open", Len(modes))
        /\ Togo("fail-back", Len(modes)) < Togo("fail-send-open", Len(modes))
        /\ Togo("fail-up", Len(modes)) < Togo("fail-back", Len(modes))
        /\ Togo("fail-del", Len(modes)) < Togo("fail-up", Len(modes))
        /\ Togo("end", Len(modes)) < Togo("fail-del", Len(modes))
    BY TogoIs
  <2>7. ASSUME NEW from, NEW to, Goes(from, to), to # "bench-send", to \in {"end"} \cup StepsOf("failmode"),
               Togo(to, Len(modes)) < Togo(from, Len(modes))
        PROVE  Advances
    BY <2>1, <2>7, GoAdvances
  <2>8. CASE ~Begins("fail-read")
    BY <2>4, <2>6, <2>7, <2>8 DEF StepsOf
  <2> QED
    BY <2>5, <2>8
<1>5. CASE Bench
  <2>1. plan # <<>> /\ StepsOf(Head(plan)) = {"bench", "bench-send"} /\ Len(modes) \in Nat
    BY <1>5, Counts DEF Bench, Running, StepsOf
  <2>2. CASE PodsStep("bench")
    BY <2>1, <2>2, Moves, BeginAdvances
  <2>3. CASE modes # <<>> /\ RuleStep("bench", "bench-send", Head(modes))
    <3>1. Goes("bench", "bench-send") /\ Togo("bench-send", Len(modes)) < Togo("bench", Len(modes))
      BY <2>1, <2>3, Moves DEF Togo
    <3> QED
      BY <2>1, <2>3, <3>1, GoAdvances
  <2>4. CASE /\ Measure("bench-send", "bench", Head(plan), Head(modes))
             /\ modes' = Tail(modes)
             /\ NoBlame /\ KeepEpp /\ KeepLoops /\ UNCHANGED <<rule, plan>>
    <3>1. pc = "bench-send" /\ pc' = "bench" /\ plan' = plan /\ modes' = Tail(modes) /\ modes # <<>>
      BY <2>4 DEF Measure, Step, OnCourse
    <3>2. Len(modes') = Len(modes) - 1
      BY <3>1, HeadTailProperties DEF EppTypeOK
    <3>3. OnCourse'
      BY <2>1, <3>1, <3>2, Counts DEF OnCourse
    <3>4. Ahead = 2 * Len(modes) /\ Ahead' = 2 * Len(modes') + 1
      BY <3>1 DEF Ahead, Togo
    <3> QED
      BY <2>1, <3>1, <3>2, <3>3, <3>4 DEF Advances
  <2>5. CASE modes = <<>> /\ EndStep("bench")
    <3>1. Goes("bench", "end") /\ Togo("end", Len(modes)) < Togo("bench", Len(modes))
      BY <2>1, <2>5, Moves DEF Togo
    <3> QED
      BY <2>1, <3>1, GoAdvances
  <2> QED
    BY <1>5, <2>2, <2>3, <2>4, <2>5 DEF Bench
<1> QED
  BY <1>1, <1>2, <1>3, <1>4, <1>5 DEF Command

LEMMA ShellAdvances ==
    EppTypeOK /\ OnCourse /\ [EppNext]_eppVars =>
        /\ OnCourse'
        /\ Shell => Len(plan') < Len(plan) \/ (plan' = plan /\ Ahead' < Ahead)
        /\ ~Shell /\ pc # "idle" => pc' = "idle" \/ UNCHANGED <<plan, Ahead>>
<1> SUFFICES ASSUME EppTypeOK, OnCourse, [EppNext]_eppVars
             PROVE  /\ OnCourse'
                    /\ Shell => Len(plan') < Len(plan) \/ (plan' = plan /\ Ahead' < Ahead)
                    /\ ~Shell /\ pc # "idle" => pc' = "idle" \/ UNCHANGED <<plan, Ahead>>
  OBVIOUS
<1>1. ASSUME NextCommand PROVE OnCourse' /\ Len(plan') < Len(plan)
  <2>1. plan # <<>> /\ plan' = Tail(plan) /\ modes' = modes /\ pc' \in {"idle", "begin"}
        /\ (plan' = <<>> => pc' = "idle")
    BY <1>1 DEF NextCommand, OnCourse
  <2>2. Len(plan') < Len(plan)
    BY <2>1, HeadTailProperties DEF EppTypeOK
  <2> QED
    BY <2>1, <2>2 DEF OnCourse
<1>2. ASSUME Command PROVE Advances
  BY <1>2, CommandAdvances
<1>3. ASSUME Invoke PROVE OnCourse' /\ pc = "idle"
  BY <1>3, EppAssumption DEF Invoke, OnCourse
<1>4. ASSUME Interrupt PROVE OnCourse' /\ pc' = "idle"
  <2>1. pc' = "idle" /\ modes' = <<>>
    BY <1>4 DEF Interrupt
  <2> QED
    BY <2>1, Counts, EmptySeq DEF OnCourse
<1>5. ASSUME Reconcile \/ EppLost \/ Hang \/ RuleSh \/ UNCHANGED eppVars
      PROVE  OnCourse' /\ UNCHANGED <<plan, Ahead>>
  BY <1>5 DEF Reconcile, EppLost, Hang, RuleSh, eppVars, shellVars, OnCourse, Ahead
<1> QED
  BY <1>1, <1>2, <1>3, <1>4, <1>5 DEF EppNext, Shell, Advances

(* run.sh: while it runs it is at a step of its present command.  Each of  *)
(* its steps ends a command or leaves fewer of this one to do, of which    *)
(* there are never more than 11 and four for each of MODES; and what the   *)
(* cluster does meanwhile gives it no more, whichever calls fail.          *)
THEOREM CommandsAreShort ==
    EppSpec => /\ [][/\ Shell => Len(plan') < Len(plan) \/ (plan' = plan /\ Ahead' < Ahead)
                     /\ ~Shell /\ pc # "idle" => pc' = "idle" \/ UNCHANGED <<plan, Ahead>>]_eppVars
               /\ [](/\ Ahead \in 0..4 * Len(MODES) + 11
                     /\ pc # "idle" => /\ plan # <<>>
                                       /\ pc \in {"begin", "end"} \cup StepsOf(Head(plan)))
<1>1. EppInit => OnCourse
  BY EppAssumption, EmptySeq DEF EppInit, OnCourse
<1>2. EppTypeOK /\ OnCourse =>
        /\ Ahead \in 0..4 * Len(MODES) + 11
        /\ pc # "idle" => plan # <<>> /\ pc \in {"begin", "end"} \cup StepsOf(Head(plan))
  BY Counts DEF OnCourse
<1> QED
  BY <1>1, <1>2, ShellAdvances, EppTypes, PTL DEF EppSpec
=============================================================================
