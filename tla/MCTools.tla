------------------------------- MODULE MCTools -------------------------------
(***************************************************************************)
(* Small instances, for TLC, of seven parts that do not interact.  `part`  *)
(* says which of them a behaviour is of; the others stay in their initial  *)
(* states, of which one is enough.                                         *)
(***************************************************************************)
EXTENDS EvidencePublication, CliProbe, BodyBindings, SchedulingLab,
        AnalyticsConsent, Quickstart, TlsLab

VARIABLE part

toolVars == <<evVars, cliVars, bdVars>>
labsVars == <<labVars, anVars, qsVars, tlVars>>

MCOutcomes ==
    {[attempt |-> "blocked", whole |-> 0, cold |-> 0],
     [attempt |-> "run", whole |-> 1, cold |-> 0],
     [attempt |-> "run", whole |-> 2, cold |-> 0],
     [attempt |-> "run", whole |-> 2, cold |-> 1]}

(* A command that is refused, one that reports 503, and again one that is  *)
(* refused.                                                                *)
MCCliCases == <<[exit |-> 2, requests |-> 0], [exit |-> 7, requests |-> 1],
                [exit |-> 2, requests |-> 0]>>

MCInit ==
    /\ part \in {"evidence", "probe", "bindings", "scheduling", "consent", "quickstart", "tls"}
    /\ EvInit /\ CliInit /\ BdInit /\ LabInit /\ AnInit /\ QsInit /\ TlInit
    /\ part # "evidence" => \A v \in EvRuns, c \in EvCases : outcome[v][c].attempt = "blocked"
    /\ part # "bindings" => \A a \in BdAssets : a \in DOMAIN assetFile => a = "a1" /\ assetFile[a] = "v1"
    /\ part # "quickstart" => ~metricsOn
    /\ part # "tls" => ~gate

MCNext ==
    /\ UNCHANGED part
    /\ \/ /\ UNCHANGED labsVars
          /\ \/ part = "evidence" /\ EvNext /\ UNCHANGED <<cliVars, bdVars>>
             \/ part = "probe" /\ CliNext /\ UNCHANGED <<evVars, bdVars>>
             \/ part = "bindings" /\ BdNext /\ UNCHANGED <<evVars, cliVars>>
       \/ /\ UNCHANGED toolVars
          /\ \/ part = "scheduling" /\ LabNext /\ UNCHANGED <<anVars, qsVars, tlVars>>
             \/ part = "consent" /\ AnNext /\ UNCHANGED <<labVars, qsVars, tlVars>>
             \/ part = "quickstart" /\ QsNext /\ UNCHANGED <<labVars, anVars, tlVars>>
             \/ part = "tls" /\ TlNext /\ UNCHANGED <<labVars, anVars, qsVars>>

MCSpec == MCInit /\ [][MCNext]_<<part, toolVars, labsVars>>

ToolsTypeOK ==
    /\ EvTypeOK /\ CliTypeOK /\ BdTypeOK
    /\ LabTypeOK /\ AnTypeOK /\ QsTypeOK /\ TlTypeOK
=============================================================================
