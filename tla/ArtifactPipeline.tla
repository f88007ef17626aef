--------------------------- MODULE ArtifactPipeline ---------------------------
(***************************************************************************)
(* The artifact pipeline: seventeen scripts, each a process of its own,    *)
(* that read files and write files with no lock and no transaction         *)
(* (src/src/pipeline.py and the modules it runs), the manifest published   *)
(* at the end, and the release gate that reads the result                  *)
(* (src/scripts/verify_release.py).                                        *)
(*                                                                         *)
(* Every stage is seeded, so what a file holds is decided by the code that *)
(* made it and what that code had read.  A file's content is therefore its *)
(* lineage: the pairs <<stage, revision of the source>> that went into it. *)
(* A file can also be absent, or torn by a process killed while writing.   *)
(***************************************************************************)
EXTENDS Naturals, Sequences, FiniteSets, SequencesExt

CONSTANTS
    Procs,          \* processes: 1 .. n, each started at most once, in order
    ByHand,         \* the stages somebody runs on their own
    Conforming,     \* the revisions whose stages make the values that the
                    \*   release gate of the same revision has as constants
    MaxEdits,       \* bound: changes of the source tree
    MaxCrashes      \* bound: processes killed

ASSUME PipelineAssumption ==
    /\ Procs \subseteq Nat \ {0}
    /\ MaxEdits \in Nat
    /\ MaxCrashes \in Nat
    /\ Conforming \subseteq 0 .. MaxEdits

-----------------------------------------------------------------------------
(* The stages: the files without which a stage stops (needs), the files it *)
(* uses when they are there (uses), the groups of inputs it compares with  *)
(* each other (checks), and the files it writes, in their order (makes).   *)

Generate == [needs |-> {}, uses |-> {}, checks |-> {},
             makes |-> <<"customers", "raw_payments">>]

Outcomes == [needs |-> {"raw_payments"}, uses |-> {}, checks |-> {},
             makes |-> <<"payments", "disputes">>]

Operations == [needs |-> {"payments"}, uses |-> {}, checks |-> {},
               makes |-> <<"operations">>]

Features == [needs |-> {"payments", "disputes"}, uses |-> {},
             checks |-> {{"payments", "disputes"}},
             makes |-> <<"features", "feature_schema">>]

Train == [needs |-> {"features", "feature_schema"}, uses |-> {}, checks |-> {},
          makes |-> <<"model_bundle", "calibration_predictions",
                      "test_predictions", "model_metadata">>]

Calibrate == [needs |-> {"calibration_predictions", "test_predictions"},
              uses |-> {}, checks |-> {},
              makes |-> <<"test_scored", "calibrator",
                          "calibration_curve", "calibration_metrics">>]

Evaluate == [needs |-> {"calibration_predictions", "test_scored", "calibrator"},
             uses |-> {}, checks |-> {},
             makes |-> <<"test_evaluated", "precision_recall_curve", "metrics">>]

Decide == [needs |-> {"test_scored"}, uses |-> {}, checks |-> {},
           makes |-> <<"policy_default", "test_policy">>]

PolicyLab == [needs |-> {"test_scored"}, uses |-> {}, checks |-> {},
              makes |-> <<"policy_frontier">>]

EffectivenessSensitivity ==
    [needs |-> {"test_scored"}, uses |-> {}, checks |-> {},
     makes |-> <<"effectiveness_sensitivity">>]

ExplainChecks == {{"model_bundle", "feature_schema"},
                  {"model_bundle", "model_metadata"}}
HeldOutChecks == {{"test_scored", "features"}, {"model_bundle", "features"}}

Explain == [needs |-> {"model_bundle", "feature_schema", "model_metadata",
                       "test_scored", "features"},
            uses |-> {}, checks |-> ExplainChecks \cup HeldOutChecks,
            makes |-> <<"test_explanations">>]

ModelExplanationService ==
    [needs |-> {"test_explanations"}, uses |-> {}, checks |-> {},
     makes |-> <<"test_model_explanations">>]

SupportEvents == [needs |-> {"raw_payments"}, uses |-> {}, checks |-> {},
                  makes |-> <<"support_events", "support_scoring">>]

SupportSignalReport ==
    [needs |-> {"support_events", "support_scoring"}, uses |-> {},
     checks |-> {{"support_events", "support_scoring"}},
     makes |-> <<"support_signals">>]

MergeChecks == {{"features", "support_signals"}}

Ablation == [needs |-> {"features", "feature_schema", "support_signals"},
             uses |-> {"metrics", "calibration_metrics"}, checks |-> MergeChecks,
             makes |-> <<"ablation", "ablation_test_predictions">>]

EvidenceRedteam == [needs |-> {}, uses |-> {}, checks |-> {},
                    makes |-> <<"evidence_guardrail_eval">>]

SourceChecks == {{"model_bundle", "feature_schema"},
                 {"model_bundle", "model_metadata"}, {"metrics", "model_metadata"},
                 {"ablation", "model_metadata"}, {"support_signals", "model_metadata"}}

ModelCard == [needs |-> {"model_bundle", "model_metadata", "feature_schema", "metrics",
                         "calibration_metrics", "ablation", "support_signals"},
              uses |-> {}, checks |-> SourceChecks,
              makes |-> <<"model_card", "MODEL_CARD">>]

Stage == [generate |-> Generate, outcomes |-> Outcomes, operations |-> Operations,
          features |-> Features, train |-> Train, calibrate |-> Calibrate,
          evaluate |-> Evaluate, decide |-> Decide, policy_lab |-> PolicyLab,
          effectiveness_sensitivity |-> EffectivenessSensitivity,
          explain |-> Explain,
          model_explanation_service |-> ModelExplanationService,
          support_events |-> SupportEvents,
          support_signal_report |-> SupportSignalReport, ablation |-> Ablation,
          evidence_redteam |-> EvidenceRedteam, model_card |-> ModelCard]

StageNames == DOMAIN Stage

ASSUME ByHandAssumption == ByHand \subseteq StageNames

(* a bug: the comparison with the canonical metrics runs before them       *)
AblationTooEarly ==
    <<"generate", "outcomes", "operations", "features", "train",
      "support_events", "support_signal_report", "ablation", "calibrate",
      "evaluate", "decide", "policy_lab", "effectiveness_sensitivity", "explain",
      "model_explanation_service", "evidence_redteam", "model_card">>

(* a bug: the scores are explained before they are made                    *)
ExplainTooEarly ==
    <<"generate", "outcomes", "operations", "features", "train", "explain",
      "model_explanation_service", "calibrate", "evaluate", "decide",
      "policy_lab", "effectiveness_sensitivity", "support_events",
      "support_signal_report", "ablation", "evidence_redteam", "model_card">>

PIPELINE_STEPS ==
    <<"generate", "outcomes", "operations", "features", "train", "calibrate",
      "evaluate", "decide", "policy_lab", "effectiveness_sensitivity", "explain",
      "model_explanation_service", "support_events", "support_signal_report",
      "ablation", "evidence_redteam", "model_card">>

Files == UNION {Range(Stage[s].makes) : s \in StageNames}

(* The outputs the final check asks for and the manifest lists.            *)
REQUIRED_OUTPUTS ==
    Files \ {"calibration_predictions", "test_predictions", "test_evaluated"}

-----------------------------------------------------------------------------
(* Files and what they hold.                                               *)

Revisions == 0 .. MaxEdits
Lineages == SUBSET (StageNames \X Revisions)
Absent == [state |-> "absent", of |-> {}]
Torn == [state |-> "torn", of |-> {}]
Whole(lineage) == [state |-> "whole", of |-> lineage]
Contents == [state : {"absent", "torn", "whole"}, of : Lineages]

VARIABLES
    files,          \* what each file holds
    manifest,       \* reports/submission_manifest.json
    cache,          \* the local support-signal cache: revisions that made entries
    code,           \* revision of the source tree
    proc,           \* the processes, each with what it has left to do
    crashes,        \* processes killed so far
    alone           \* history: the latest process, if it is a pipeline that had
                    \*   the tree and the source for itself since it started

vars == <<files, manifest, cache, code, proc, crashes, alone>>

Nobody == 0
NoManifest == [state |-> "absent"]
TornManifest == [state |-> "torn"]
Manifest(revision, inventory) ==
    [state |-> "whole", source |-> revision, inventory |-> inventory]

NotStarted == [status |-> "new"]
Started(plan, publishes) ==
    [status |-> "running", plan |-> plan, publishes |-> publishes, at |-> 0,
     lineage |-> {}, left |-> <<>>, draft |-> NoManifest]

EmptyTree == [f \in Files |-> Absent]

(* What an undisturbed run of revision 0 leaves: each file rests on the    *)
(* stages upstream of it, which are never more than eight steps away.      *)
Upstream(stages) ==
    stages \cup {a \in StageNames : \E b \in stages :
        Range(Stage[a].makes) \cap (Stage[b].needs \cup Stage[b].uses) # {}}
TwiceUpstream(stages) == Upstream(Upstream(stages))
Makers(f) == {s \in StageNames : f \in Range(Stage[s].makes)}
BuiltTree == [f \in Files |->
    Whole(TwiceUpstream(TwiceUpstream(TwiceUpstream(TwiceUpstream(Makers(f))))) \X {0})]

Inventory(tree) == [f \in REQUIRED_OUTPUTS |-> tree[f]]

Init ==
    /\ \/ files = EmptyTree /\ manifest = NoManifest /\ cache = {}
       \/ /\ files = BuiltTree
          /\ manifest = Manifest(0, Inventory(BuiltTree))
          /\ cache = {0}
    /\ code = 0
    /\ proc = [p \in Procs |-> NotStarted]
    /\ crashes = 0
    /\ alone = Nobody

-----------------------------------------------------------------------------
(* Processes and the source tree.                                          *)

Running(p) == proc[p].status = "running"
Finishes(p, status) == proc' = [proc EXCEPT ![p].status = status]

StartProcess(p, plan, publishes) ==
    /\ proc[p] = NotStarted
    /\ \A q \in Procs : q < p => proc[q] # NotStarted
    /\ proc' = [proc EXCEPT ![p] = Started(plan, publishes)]
    /\ alone' = IF publishes /\ \A q \in Procs : ~Running(q) THEN p ELSE Nobody
    /\ UNCHANGED <<files, manifest, cache, code, crashes>>

(* Bound: no second pipeline starts while one is running.                  *)
RunPipeline(p) ==
    /\ \A q \in Procs : Running(q) => ~proc[q].publishes
    /\ StartProcess(p, PIPELINE_STEPS, TRUE)
RunStage(p) == \E s \in ByHand : StartProcess(p, <<s>>, FALSE)

(* Somebody changes the source, also under a running process.              *)
Edit ==
    /\ code < MaxEdits
    /\ code' = code + 1
    /\ alone' = Nobody
    /\ UNCHANGED <<files, manifest, cache, proc, crashes>>

-----------------------------------------------------------------------------
(* One stage: it reads and checks everything, then writes file by file.    *)

AtStage(p) ==
    /\ Running(p)
    /\ proc[p].left = <<>>
    /\ proc[p].at < Len(proc[p].plan)

NextName(p) == proc[p].plan[proc[p].at + 1]
NextStage(p) == Stage[NextName(p)]

Readable(s) == /\ \A f \in s.needs : files[f].state = "whole"
               /\ \A f \in s.uses : files[f].state # "torn"

(* No two of the files rest on different revisions of one stage.           *)
Agree(group) ==
    \A f, g \in group : \A x \in files[f].of, y \in files[g].of :
        x[1] = y[1] => x[2] = y[2]

(* A stage run by hand extracts support signals through the local cache,    *)
(* whose key holds the text but not the code; a pipeline gives its stages  *)
(* an empty cache directory of its own.                                    *)
ExtractsSignals(p) == NextName(p) = "support_signal_report"
(* a bug: the stages of a pipeline see the local cache too                 *)
UsesTheCache(p) == ExtractsSignals(p)
UsesLocalCache(p) == ExtractsSignals(p) /\ ~proc[p].publishes

LineageRead(p, revisions) ==
    ({NextName(p)} \X revisions)
        \cup UNION {files[f].of : f \in NextStage(p).needs \cup NextStage(p).uses}

BeginStage(p) ==
    /\ AtStage(p)
    /\ Readable(NextStage(p))
    /\ \E hits \in {{}} \cup IF UsesLocalCache(p) THEN {cache} ELSE {} :
        proc' = [proc EXCEPT ![p].lineage = LineageRead(p, {code} \cup hits),
                             ![p].left = NextStage(p).makes]
    /\ cache' = IF UsesLocalCache(p) THEN cache \cup {code} ELSE cache
    /\ UNCHANGED <<files, manifest, code, crashes, alone>>

(* A missing or unreadable input stops the stage; inputs that do not rest  *)
(* on the same data may be noticed by its checks.  run_step then stops the *)
(* pipeline.                                                               *)
StageStops(p) ==
    /\ AtStage(p)
    /\ \/ ~Readable(NextStage(p))
       \/ \E group \in NextStage(p).checks : ~Agree(group)
    /\ Finishes(p, "failed")
    /\ UNCHANGED <<files, manifest, cache, code, crashes, alone>>

WriteFile(p) ==
    /\ Running(p)
    /\ proc[p].left # <<>>
    /\ files' = [files EXCEPT ![Head(proc[p].left)] = Whole(proc[p].lineage)]
    /\ proc' = [proc EXCEPT ![p].left = Tail(@),
                            ![p].at = IF Len(proc[p].left) = 1 THEN @ + 1 ELSE @,
                            ![p].lineage = IF Len(proc[p].left) = 1 THEN {} ELSE @]
    /\ UNCHANGED <<manifest, cache, code, crashes, alone>>

(* Only the red-team report is written beside its name and renamed.        *)
Replaced == {"evidence_guardrail_eval"}

(* A killed process leaves the file it was writing torn, or not yet begun. *)
Crash(p) ==
    /\ Running(p)
    /\ crashes < MaxCrashes
    /\ crashes' = crashes + 1
    /\ \/ UNCHANGED files
       \/ /\ proc[p].left # <<>>
          /\ Head(proc[p].left) \notin Replaced
          /\ files' = [files EXCEPT ![Head(proc[p].left)] = Torn]
    /\ Finishes(p, "failed")
    /\ alone' = IF alone = p THEN Nobody ELSE alone
    /\ UNCHANGED <<manifest, cache, code>>

-----------------------------------------------------------------------------
(* The manifest: the final check, the inventory, the atomic replacement.   *)

AtEnd(p) ==
    /\ Running(p)
    /\ proc[p].at = Len(proc[p].plan)

StageEnds(p) ==
    /\ AtEnd(p)
    /\ ~proc[p].publishes
    /\ Finishes(p, "over")
    /\ UNCHANGED <<files, manifest, cache, code, crashes, alone>>

OutputsExist == \A f \in REQUIRED_OUTPUTS : files[f].state # "absent"

(* The reports the manifest is built from, and therefore parses.           *)
ManifestReads ==
    {"payments", "disputes", "operations", "metrics", "calibration_metrics",
     "model_metadata", "feature_schema", "policy_default", "policy_frontier",
     "effectiveness_sensitivity", "ablation", "model_card",
     "evidence_guardrail_eval", "test_explanations", "test_model_explanations"}

ManifestPossible ==
    OutputsExist /\ \A f \in ManifestReads : files[f].state = "whole"

BuildManifest(p) ==
    /\ AtEnd(p)
    /\ proc[p].publishes
    /\ proc[p].draft = NoManifest
    /\ IF ManifestPossible
       THEN proc' = [proc EXCEPT ![p].draft = Manifest(code, Inventory(files))]
       ELSE Finishes(p, "failed")
    /\ UNCHANGED <<files, manifest, cache, code, crashes, alone>>

Publishing(p) == Running(p) /\ proc[p].publishes /\ proc[p].draft # NoManifest

(* a bug: the manifest is written under its own name                       *)
PublishInPlace(p) ==
    /\ Publishing(p)
    /\ IF manifest = TornManifest
       THEN /\ manifest' = proc[p].draft
            /\ proc' = [proc EXCEPT ![p].status = "over", ![p].draft = NoManifest]
       ELSE manifest' = TornManifest /\ UNCHANGED proc
    /\ UNCHANGED <<files, cache, code, crashes, alone>>

Publish(p) ==
    /\ Publishing(p)
    /\ manifest' = proc[p].draft
    /\ proc' = [proc EXCEPT ![p].status = "over", ![p].draft = NoManifest]
    /\ UNCHANGED <<files, cache, code, crashes, alone>>

-----------------------------------------------------------------------------
Step(p) ==
    \/ BeginStage(p)
    \/ StageStops(p)
    \/ WriteFile(p)
    \/ StageEnds(p)
    \/ BuildManifest(p)
    \/ Publish(p)

Next ==
    \/ Edit
    \/ \E p \in Procs : \/ RunPipeline(p)
                        \/ RunStage(p)
                        \/ Crash(p)
                        \/ Step(p)

Spec == Init /\ [][Next]_vars

(* A started process goes on until it ends or is killed; nobody has to     *)
(* start one, edit the source or kill anything.                            *)
FairSpec == Spec /\ \A p \in Procs : WF_vars(Step(p))

-----------------------------------------------------------------------------
(* The release gate, scripts/verify_release.py: what it surely accepts of  *)
(* the artifacts.  It compares files with each other, and with constants of*)
(* its own: versions, the target, numbers of rows and of support events.   *)

VerifierFiles ==
    {"model_bundle", "calibrator", "model_metadata", "feature_schema", "metrics",
     "calibration_metrics", "test_predictions", "test_scored", "test_explanations",
     "test_model_explanations", "support_signals", "ablation",
     "ablation_test_predictions", "evidence_guardrail_eval", "model_card",
     "MODEL_CARD"}

HeldOutReports ==
    {"test_predictions", "test_scored", "test_explanations",
     "test_model_explanations"}

ModelReports == {"model_bundle", "calibrator", "model_metadata", "metrics",
                 "calibration_metrics"} \cup HeldOutReports

SupportReports ==
    {"support_signals", "metrics", "calibration_metrics", "ablation", "model_card"}

(* The report was made from that very file, or from one equal to it.       *)
RestsOn(report, f) == files[f].of \subseteq files[report].of

(* The reports can be read, and have the values the gate asks for: they    *)
(* were made by the gate's own revision, and it makes those values.        *)
HaveExpectedValues(reports) ==
    /\ code \in Conforming
    /\ \A f \in reports :
          files[f].state = "whole" /\ files[f].of \subseteq StageNames \X {code}

validate_required_files ==
    manifest # NoManifest /\ \A f \in VerifierFiles : files[f].state # "absent"

validate_model_and_explanations ==
    /\ HaveExpectedValues(ModelReports)
    /\ Agree({"model_bundle", "model_metadata"})
    /\ Agree({"calibrator", "calibration_metrics"})
    /\ Agree(HeldOutReports)
    /\ RestsOn("test_model_explanations", "test_explanations")

validate_support_ablation_and_model_card ==
    /\ HaveExpectedValues(SupportReports)
    /\ Agree({"ablation", "metrics", "calibration_metrics"})
    /\ RestsOn("ablation", "metrics") /\ RestsOn("ablation", "calibration_metrics")
    /\ RestsOn("model_card", "metrics")

AcceptsArtifacts ==
    /\ validate_required_files
    /\ validate_model_and_explanations
    /\ validate_support_ablation_and_model_card

-----------------------------------------------------------------------------
(* The rest of a sequence of files, after the first few were written.      *)
LeftOver(rest, makes) ==
    \E k \in 1 .. Len(makes) : rest = SubSeq(makes, k, Len(makes))

(* Every variable has its type; in particular the manifest is never a      *)
(* half-written file, whenever a process is killed                         *)
(* (write_json_atomic).                                                    *)
TypeOK ==
    /\ files \in [Files -> Contents]
    /\ manifest = NoManifest
         \/ /\ manifest.state = "whole"
            /\ manifest.source \in Revisions
            /\ manifest.inventory \in [REQUIRED_OUTPUTS -> Contents]
    /\ cache \subseteq Revisions
    /\ code \in Revisions
    /\ \A p \in Procs : proc[p] # NotStarted =>
        /\ proc[p].status \in {"running", "over", "failed"}
        /\ proc[p].at \in 0 .. Len(proc[p].plan)
        /\ proc[p].lineage \in Lineages
        /\ proc[p].left # <<>> => LeftOver(proc[p].left, NextStage(p).makes)
    /\ crashes \in 0 .. MaxCrashes
    /\ alone \in Procs \cup {Nobody}

AloneOver == alone # Nobody /\ proc[alone].status = "over"

(* When a pipeline that had the tree and the source for itself completes,  *)
(* its manifest is the inventory of what is on disk, every listed file was *)
(* made by the code the manifest names, through stages of that code only,  *)
(* and nothing of an earlier, interrupted or differently built tree is     *)
(* left in it -- although validate_required_outputs only asks whether the  *)
(* files exist (PIPELINE_STEPS, validate_required_outputs,                 *)
(* build_submission_manifest).                                             *)
CompletedRunIsOneRevision ==
    AloneOver =>
        /\ manifest.source = code
        /\ manifest.inventory = Inventory(files)
        /\ \A f \in REQUIRED_OUTPUTS :
            /\ manifest.inventory[f].state = "whole"
            /\ \A x \in manifest.inventory[f].of : x[2] = code

(* What a completed pipeline of a revision that makes the values its gate  *)
(* asks for leaves behind passes the gate's checks of the artifacts,       *)
(* whatever was there before; the gate also reads files that the           *)
(* pipeline's own check does not ask for (validate_required_files,         *)
(* validate_model_and_explanations,                                        *)
(* validate_support_ablation_and_model_card).                              *)
CompletedRunIsReleasable == AloneOver /\ code \in Conforming => AcceptsArtifacts

(* A pipeline that has the tree for itself completes, whatever interrupted *)
(* runs and stages run by hand left in it: every stage finds its inputs    *)
(* and accepts them (PIPELINE_STEPS, run_step).                            *)
UndisturbedRunCompletes ==
    \A p \in Procs : (alone = p) ~> (alone # p \/ proc[p].status = "over")
=============================================================================
