----------------------- MODULE ArtifactPipelineProofs -----------------------
(***************************************************************************)
(* Theorems about ArtifactPipeline, for any number of processes, edits of  *)
(* the source and kills, and any stages run by hand.                       *)
(*                                                                         *)
(* The argument: PIPELINE_STEPS has the stages in the order of the data    *)
(* (StagesReadEarlier), so that a pipeline that has the tree for itself    *)
(* reads only what it has written itself, and never writes again what it   *)
(* has read.  What it has written is therefore always up to date, whatever *)
(* the other files of the tree hold.                                       *)
(***************************************************************************)
EXTENDS ArtifactPipeline, SequenceTheorems, TLAPS

-----------------------------------------------------------------------------
(* The order of the stages, as the proofs use it.                          *)

\* The step of a pipeline that makes a file.
Place(f) ==
    CASE f \in {"customers", "raw_payments"} -> 1
      [] f \in {"payments", "disputes"} -> 2
      [] f \in {"operations"} -> 3
      [] f \in {"features", "feature_schema"} -> 4
      [] f \in {"model_bundle", "calibration_predictions",
                "test_predictions", "model_metadata"} -> 5
      [] f \in {"test_scored", "calibrator",
                "calibration_curve", "calibration_metrics"} -> 6
      [] f \in {"test_evaluated", "precision_recall_curve", "metrics"} -> 7
      [] f \in {"policy_default", "test_policy"} -> 8
      [] f \in {"policy_frontier"} -> 9
      [] f \in {"effectiveness_sensitivity"} -> 10
      [] f \in {"test_explanations"} -> 11
      [] f \in {"test_model_explanations"} -> 12
      [] f \in {"support_events", "support_scoring"} -> 13
      [] f \in {"support_signals"} -> 14
      [] f \in {"ablation", "ablation_test_predictions"} -> 15
      [] f \in {"evidence_guardrail_eval"} -> 16
      [] f \in {"model_card", "MODEL_CARD"} -> 17

Steps == 1 .. 17
StepStage(i) == Stage[PIPELINE_STEPS[i]]
Reads(stage) == stage.needs \cup stage.uses
Made(stage) == Range(stage.makes)

-----------------------------------------------------------------------------
(* The inductive invariant.                                                *)

Plans == {PIPELINE_STEPS} \cup {<<s>> : s \in ByHand}
Manifests == {Manifest(revision, inventory) :
                  revision \in Revisions, inventory \in [REQUIRED_OUTPUTS -> Contents]}

Process ==
    [status : {"running", "over", "failed"}, plan : Plans, publishes : BOOLEAN,
     at : Nat, lineage : Lineages, left : Seq(Files),
     draft : {NoManifest} \cup Manifests]

\* What a process has left to write is the rest of what the next stage of its
\* plan makes.
FitsPlan(process) ==
    /\ process.at <= Len(process.plan)
    /\ process.left # <<>> =>
          /\ process.at < Len(process.plan)
          /\ LeftOver(process.left, Stage[process.plan[process.at + 1]].makes)

Typed ==
    /\ files \in [Files -> Contents]
    /\ manifest \in {NoManifest} \cup Manifests
    /\ cache \subseteq Revisions
    /\ code \in Revisions
    /\ proc \in [Procs -> {NotStarted} \cup Process]
    /\ \A p \in Procs : proc[p] # NotStarted => FitsPlan(proc[p])
    /\ crashes \in 0 .. MaxCrashes
    /\ alone \in Procs \cup {Nobody}

OfThisRevision(lineage) == \A x \in lineage : x[2] = code

\* The file is what its stage makes of its inputs as they are, all by the
\* present code.
UpToDate(f) ==
    /\ files[f].state = "whole"
    /\ OfThisRevision(files[f].of)
    /\ \A g \in Reads(StepStage(Place(f))) : files[g].of \subseteq files[f].of

\* The files process p has written: those of the stages it has behind it, and
\* of the next one those it has no longer left.
WrittenNow(p) ==
    {NextStage(p).makes[j] : j \in 1 .. Len(NextStage(p).makes) - Len(proc[p].left)}
Written(p) ==
    {f \in Files : Place(f) <= proc[p].at}
        \cup IF proc[p].left = <<>> THEN {} ELSE WrittenNow(p)

TheManifest == Manifest(code, Inventory(files))

\* A pipeline that has the tree for itself.
AloneOK(p) ==
    /\ proc[p].status \in {"running", "over"}
    /\ proc[p].publishes
    /\ proc[p].plan = PIPELINE_STEPS
    /\ \A q \in Procs \ {p} : ~Running(q)
    /\ \A f \in Written(p) : UpToDate(f)
    /\ proc[p].left # <<>> =>
          /\ OfThisRevision(proc[p].lineage)
          /\ \A g \in Reads(NextStage(p)) : files[g].of \subseteq proc[p].lineage
    /\ proc[p].draft # NoManifest => AtEnd(p) /\ proc[p].draft = TheManifest
    /\ proc[p].status = "over" => proc[p].at = 17 /\ manifest = TheManifest

PipelineInv == Typed /\ (alone # Nobody => AloneOK(alone))
-----------------------------------------------------------------------------
(* The seventeen stages, one by one.                                       *)

\* The stage each step of the pipeline runs.
LEMMA StepStages ==
    /\ StepStage(1) = Generate
    /\ StepStage(2) = Outcomes
    /\ StepStage(3) = Operations
    /\ StepStage(4) = Features
    /\ StepStage(5) = Train
    /\ StepStage(6) = Calibrate
    /\ StepStage(7) = Evaluate
    /\ StepStage(8) = Decide
    /\ StepStage(9) = PolicyLab
    /\ StepStage(10) = EffectivenessSensitivity
    /\ StepStage(11) = Explain
    /\ StepStage(12) = ModelExplanationService
    /\ StepStage(13) = SupportEvents
    /\ StepStage(14) = SupportSignalReport
    /\ StepStage(15) = Ablation
    /\ StepStage(16) = EvidenceRedteam
    /\ StepStage(17) = ModelCard
  BY DEF StepStage, Stage, PIPELINE_STEPS

\* The steps are the seventeen stages, so every stage is one of these.
LEMMA StepNames ==
    /\ PIPELINE_STEPS \in Seq(StageNames)
    /\ Len(PIPELINE_STEPS) = 17
    /\ \A i \in Steps : PIPELINE_STEPS[i] \in StageNames
    /\ \A s \in StageNames : \E i \in Steps : s = PIPELINE_STEPS[i]
  BY DEF PIPELINE_STEPS, StageNames, Stage, Steps

\* What each stage makes.
LEMMA MadeByStages ==
    /\ Made(Generate) = {"customers", "raw_payments"}
    /\ Made(Outcomes) = {"payments", "disputes"}
    /\ Made(Operations) = {"operations"}
    /\ Made(Features) = {"features", "feature_schema"}
    /\ Made(Train) = {"model_bundle", "calibration_predictions",
                      "test_predictions", "model_metadata"}
    /\ Made(Calibrate) = {"test_scored", "calibrator",
                          "calibration_curve", "calibration_metrics"}
    /\ Made(Evaluate) = {"test_evaluated", "precision_recall_curve", "metrics"}
    /\ Made(Decide) = {"policy_default", "test_policy"}
    /\ Made(PolicyLab) = {"policy_frontier"}
    /\ Made(EffectivenessSensitivity) = {"effectiveness_sensitivity"}
    /\ Made(Explain) = {"test_explanations"}
    /\ Made(ModelExplanationService) = {"test_model_explanations"}
    /\ Made(SupportEvents) = {"support_events", "support_scoring"}
    /\ Made(SupportSignalReport) = {"support_signals"}
    /\ Made(Ablation) = {"ablation", "ablation_test_predictions"}
    /\ Made(EvidenceRedteam) = {"evidence_guardrail_eval"}
    /\ Made(ModelCard) = {"model_card", "MODEL_CARD"}
  BY DEF Made, Range, Generate, Outcomes, Operations, Features, Train, Calibrate,
     Evaluate, Decide, PolicyLab, EffectivenessSensitivity, Explain,
     ModelExplanationService, SupportEvents, SupportSignalReport, Ablation,
     EvidenceRedteam, ModelCard

\* The files of the pipeline, each with the step that makes it.
LEMMA FilesAreMade == \A f : f \in Files <=> \E i \in Steps : f \in Made(StepStage(i))
<1> QED BY StepNames DEF Files, StepStage, Made

\* Place tells the step of a file.
LEMMA PlaceOfMade == \A i \in Steps : \A f \in Made(StepStage(i)) : Place(f) = i
<1> SUFFICES ASSUME NEW i \in Steps, NEW f \in Made(StepStage(i)) PROVE Place(f) = i
  OBVIOUS
<1>1. CASE i = 1
  BY <1>1, StepStages, MadeByStages DEF Place
<1>2. CASE i = 2
  BY <1>2, StepStages, MadeByStages DEF Place
<1>3. CASE i = 3
  BY <1>3, StepStages, MadeByStages DEF Place
<1>4. CASE i = 4
  BY <1>4, StepStages, MadeByStages DEF Place
<1>5. CASE i = 5
  BY <1>5, StepStages, MadeByStages DEF Place
<1>6. CASE i = 6
  BY <1>6, StepStages, MadeByStages DEF Place
<1>7. CASE i = 7
  BY <1>7, StepStages, MadeByStages DEF Place
<1>8. CASE i = 8
  BY <1>8, StepStages, MadeByStages DEF Place
<1>9. CASE i = 9
  BY <1>9, StepStages, MadeByStages DEF Place
<1>10. CASE i = 10
  BY <1>10, StepStages, MadeByStages DEF Place
<1>11. CASE i = 11
  BY <1>11, StepStages, MadeByStages DEF Place
<1>12. CASE i = 12
  BY <1>12, StepStages, MadeByStages DEF Place
<1>13. CASE i = 13
  BY <1>13, StepStages, MadeByStages DEF Place
<1>14. CASE i = 14
  BY <1>14, StepStages, MadeByStages DEF Place
<1>15. CASE i = 15
  BY <1>15, StepStages, MadeByStages DEF Place
<1>16. CASE i = 16
  BY <1>16, StepStages, MadeByStages DEF Place
<1>17. CASE i = 17
  BY <1>17, StepStages, MadeByStages DEF Place
<1> QED BY <1>1, <1>2, <1>3, <1>4, <1>5, <1>6, <1>7, <1>8, <1>9, <1>10, <1>11, <1>12,
     <1>13, <1>14, <1>15, <1>16, <1>17 DEF Steps

\* Every file has its place.
LEMMA PlaceOfFiles ==
    \A f \in Files : Place(f) \in Steps /\ f \in Made(StepStage(Place(f)))
  BY FilesAreMade, PlaceOfMade

\* A stage comes after those that make what it reads, and it compares nothing
\* but what it reads.
ReadsEarlier(i, stage) ==
    /\ \A f \in Reads(stage) : f \in Files /\ Place(f) < i
    /\ \A group \in stage.checks : group \subseteq Reads(stage)

\* The names of the files, for the sets of them that the code lists.
LEMMA Literals ==
    /\ {"customers", "raw_payments"} \subseteq Files
    /\ {"payments", "disputes"} \subseteq Files
    /\ {"operations"} \subseteq Files
    /\ {"features", "feature_schema"} \subseteq Files
    /\ {"model_bundle", "calibration_predictions",
        "test_predictions", "model_metadata"} \subseteq Files
    /\ {"test_scored", "calibrator",
        "calibration_curve", "calibration_metrics"} \subseteq Files
    /\ {"test_evaluated", "precision_recall_curve", "metrics"} \subseteq Files
    /\ {"policy_default", "test_policy"} \subseteq Files
    /\ {"policy_frontier"} \subseteq Files
    /\ {"effectiveness_sensitivity"} \subseteq Files
    /\ {"test_explanations"} \subseteq Files
    /\ {"test_model_explanations"} \subseteq Files
    /\ {"support_events", "support_scoring"} \subseteq Files
    /\ {"support_signals"} \subseteq Files
    /\ {"ablation", "ablation_test_predictions"} \subseteq Files
    /\ {"evidence_guardrail_eval"} \subseteq Files
    /\ {"model_card", "MODEL_CARD"} \subseteq Files
  BY FilesAreMade, StepStages, MadeByStages DEF Steps

\* The order of PIPELINE_STEPS is that of the data.
LEMMA StagesReadEarlier == \A i \in Steps : ReadsEarlier(i, StepStage(i))
<1> SUFFICES ASSUME NEW i \in Steps PROVE ReadsEarlier(i, StepStage(i))
  OBVIOUS
<1>1. CASE i = 1
  BY <1>1, StepStages, Literals DEF ReadsEarlier, Reads, Place, Generate
<1>2. CASE i = 2
  BY <1>2, StepStages, Literals DEF ReadsEarlier, Reads, Place, Outcomes
<1>3. CASE i = 3
  BY <1>3, StepStages, Literals DEF ReadsEarlier, Reads, Place, Operations
<1>4. CASE i = 4
  BY <1>4, StepStages, Literals DEF ReadsEarlier, Reads, Place, Features
<1>5. CASE i = 5
  BY <1>5, StepStages, Literals DEF ReadsEarlier, Reads, Place, Train
<1>6. CASE i = 6
  BY <1>6, StepStages, Literals DEF ReadsEarlier, Reads, Place, Calibrate
<1>7. CASE i = 7
  BY <1>7, StepStages, Literals DEF ReadsEarlier, Reads, Place, Evaluate
<1>8. CASE i = 8
  BY <1>8, StepStages, Literals DEF ReadsEarlier, Reads, Place, Decide
<1>9. CASE i = 9
  BY <1>9, StepStages, Literals DEF ReadsEarlier, Reads, Place, PolicyLab
<1>10. CASE i = 10
  BY <1>10, StepStages, Literals DEF ReadsEarlier, Reads, Place,
     EffectivenessSensitivity
<1>11. CASE i = 11
  BY <1>11, StepStages, Literals DEF ReadsEarlier, Reads, Place, Explain, ExplainChecks,
     HeldOutChecks
<1>12. CASE i = 12
  BY <1>12, StepStages, Literals DEF ReadsEarlier, Reads, Place, ModelExplanationService
<1>13. CASE i = 13
  BY <1>13, StepStages, Literals DEF ReadsEarlier, Reads, Place, SupportEvents
<1>14. CASE i = 14
  BY <1>14, StepStages, Literals DEF ReadsEarlier, Reads, Place, SupportSignalReport
<1>15. CASE i = 15
  BY <1>15, StepStages, Literals DEF ReadsEarlier, Reads, Place, Ablation, MergeChecks
<1>16. CASE i = 16
  BY <1>16, StepStages, Literals DEF ReadsEarlier, Reads, Place, EvidenceRedteam
<1>17. CASE i = 17
  BY <1>17, StepStages, Literals DEF ReadsEarlier, Reads, Place, ModelCard, SourceChecks
<1> QED BY <1>1, <1>2, <1>3, <1>4, <1>5, <1>6, <1>7, <1>8, <1>9, <1>10, <1>11, <1>12,
     <1>13, <1>14, <1>15, <1>16, <1>17 DEF Steps

\* What a stage makes is a sequence of files.
LEMMA MakesOfStages ==
    /\ StepStage(1).makes = <<"customers", "raw_payments">>
    /\ StepStage(2).makes = <<"payments", "disputes">>
    /\ StepStage(3).makes = <<"operations">>
    /\ StepStage(4).makes = <<"features", "feature_schema">>
    /\ StepStage(5).makes = <<"model_bundle", "calibration_predictions",
                              "test_predictions", "model_metadata">>
    /\ StepStage(6).makes = <<"test_scored", "calibrator",
                              "calibration_curve", "calibration_metrics">>
    /\ StepStage(7).makes = <<"test_evaluated", "precision_recall_curve", "metrics">>
    /\ StepStage(8).makes = <<"policy_default", "test_policy">>
    /\ StepStage(9).makes = <<"policy_frontier">>
    /\ StepStage(10).makes = <<"effectiveness_sensitivity">>
    /\ StepStage(11).makes = <<"test_explanations">>
    /\ StepStage(12).makes = <<"test_model_explanations">>
    /\ StepStage(13).makes = <<"support_events", "support_scoring">>
    /\ StepStage(14).makes = <<"support_signals">>
    /\ StepStage(15).makes = <<"ablation", "ablation_test_predictions">>
    /\ StepStage(16).makes = <<"evidence_guardrail_eval">>
    /\ StepStage(17).makes = <<"model_card", "MODEL_CARD">>
  BY StepStages DEF Generate, Outcomes, Operations, Features, Train, Calibrate,
     Evaluate, Decide, PolicyLab, EffectivenessSensitivity, Explain,
     ModelExplanationService, SupportEvents, SupportSignalReport, Ablation,
     EvidenceRedteam, ModelCard

\* So they can be taken apart file by file.
LEMMA StagesMakeFiles == \A i \in Steps : StepStage(i).makes \in Seq(Files)
<1> SUFFICES ASSUME NEW i \in Steps PROVE StepStage(i).makes \in Seq(Files)
  OBVIOUS
<1>1. <<"customers", "raw_payments">> \in Seq(Files)
  BY Literals
<1>2. <<"payments", "disputes">> \in Seq(Files)
  BY Literals
<1>3. <<"operations">> \in Seq(Files)
  BY Literals
<1>4. <<"features", "feature_schema">> \in Seq(Files)
  BY Literals
<1>5. <<"model_bundle", "calibration_predictions",
        "test_predictions", "model_metadata">> \in Seq(Files)
  BY Literals
<1>6. <<"test_scored", "calibrator",
        "calibration_curve", "calibration_metrics">> \in Seq(Files)
  BY Literals
<1>7. <<"test_evaluated", "precision_recall_curve", "metrics">> \in Seq(Files)
  BY Literals
<1>8. <<"policy_default", "test_policy">> \in Seq(Files)
  BY Literals
<1>9. <<"policy_frontier">> \in Seq(Files)
  BY Literals
<1>10. <<"effectiveness_sensitivity">> \in Seq(Files)
  BY Literals
<1>11. <<"test_explanations">> \in Seq(Files)
  BY Literals
<1>12. <<"test_model_explanations">> \in Seq(Files)
  BY Literals
<1>13. <<"support_events", "support_scoring">> \in Seq(Files)
  BY Literals
<1>14. <<"support_signals">> \in Seq(Files)
  BY Literals
<1>15. <<"ablation", "ablation_test_predictions">> \in Seq(Files)
  BY Literals
<1>16. <<"evidence_guardrail_eval">> \in Seq(Files)
  BY Literals
<1>17. <<"model_card", "MODEL_CARD">> \in Seq(Files)
  BY Literals
<1>18. i \in {1, 2, 3, 4, 5, 6, 7, 8, 9, 10, 11, 12, 13, 14, 15, 16, 17}
  BY DEF Steps
<1> QED BY <1>1, <1>2, <1>3, <1>4, <1>5, <1>6, <1>7, <1>8, <1>9, <1>10, <1>11, <1>12,
     <1>13, <1>14, <1>15, <1>16, <1>17, <1>18, MakesOfStages, ZenonT(60)

-----------------------------------------------------------------------------
(* Sequences of files of which the first few were written.                 *)

\* A sequence of positive length is not the empty one.
LEMMA NotEmpty == \A S : \A s \in Seq(S) : Len(s) > 0 => s # <<>>
  OBVIOUS

\* The rest of a sequence from its k-th element on.
LEMMA RestOfSequence ==
    ASSUME NEW S, NEW makes \in Seq(S), NEW k \in 1 .. Len(makes), NEW rest,
           rest = SubSeq(makes, k, Len(makes))
    PROVE  /\ rest \in Seq(S) /\ rest # <<>>
           /\ Len(rest) = Len(makes) - k + 1
           /\ Head(rest) = makes[k]
           /\ Tail(rest) = IF k < Len(makes) THEN SubSeq(makes, k + 1, Len(makes)) ELSE <<>>
<1>1. rest \in Seq(S) /\ Len(rest) = Len(makes) - k + 1
  BY SubSeqProperties
<1>2. Head(rest) = makes[k] /\ Tail(rest) = SubSeq(makes, k + 1, Len(makes))
  BY HeadTailOfSubSeq
<1>3. k = Len(makes) => SubSeq(makes, k + 1, Len(makes)) = <<>>
  BY SubSeqEmpty
<1>4. rest # <<>>
  <2>1. Len(rest) > 0
    BY <1>1
  <2> QED BY <1>1, <2>1, NotEmpty
<1>5. k < Len(makes) \/ k = Len(makes)
  OBVIOUS
<1> QED BY <1>1, <1>2, <1>3, <1>4, <1>5

-----------------------------------------------------------------------------
(* Every step keeps the types.                                             *)

\* A running process has a record of its own.
LEMMA RunningIsProcess ==
    ASSUME Typed, NEW p \in Procs, Running(p)
    PROVE  proc[p] \in Process /\ FitsPlan(proc[p]) /\ proc[p] # NotStarted
  BY DEF Typed, Running, NotStarted

\* The next stage of a process is one of the seventeen, and that of a pipeline
\* the one PIPELINE_STEPS names.
LEMMA NextIsStage ==
    ASSUME Typed, NEW p \in Procs, proc[p] \in Process, proc[p].at < Len(proc[p].plan)
    PROVE  /\ NextName(p) \in StageNames
           /\ \E i \in Steps : NextStage(p) = StepStage(i)
           /\ proc[p].plan = PIPELINE_STEPS =>
                 proc[p].at + 1 \in Steps /\ NextStage(p) = StepStage(proc[p].at + 1)
<1>1. CASE proc[p].plan = PIPELINE_STEPS
  <2>1. proc[p].at \in Nat /\ proc[p].at < 17
    BY <1>1, StepNames DEF Process
  <2>2. proc[p].at + 1 \in Steps
    <3>1. \A n \in Nat : n < 17 => n + 1 \in Steps
      BY DEF Steps
    <3> QED BY <2>1, <3>1
  <2> QED BY <1>1, <2>2, StepNames DEF NextName, NextStage, StepStage
<1>2. CASE \E s \in ByHand : proc[p].plan = <<s>>
  <2>1. PICK s \in ByHand : proc[p].plan = <<s>>
    BY <1>2
  <2>2. proc[p].at = 0
    BY <2>1 DEF Process
  <2>3. NextName(p) = s
    BY <2>1, <2>2 DEF NextName
  <2>4. s \in StageNames
    BY ByHandAssumption
  <2>5. PICK i \in Steps : s = PIPELINE_STEPS[i]
    BY <2>4, StepNames
  <2>6. CASE <<s>> = PIPELINE_STEPS
    BY <1>1, <2>1, <2>6
  <2>7. CASE <<s>> # PIPELINE_STEPS
    BY <2>1, <2>3, <2>4, <2>5, <2>7 DEF NextStage, StepStage
  <2> QED BY <2>6, <2>7
<1> QED BY <1>1, <1>2 DEF Process, Plans

\* One process changes.
LEMMA ProcessStep ==
    ASSUME Typed, NEW p \in Procs, NEW process \in Process, FitsPlan(process),
           proc' = [proc EXCEPT ![p] = process]
    PROVE  /\ proc' \in [Procs -> {NotStarted} \cup Process]
           /\ \A q \in Procs : proc'[q] # NotStarted => FitsPlan(proc'[q])
           /\ proc'[p] = process /\ \A q \in Procs \ {p} : proc'[q] = proc[q]
  BY DEF Typed

\* A process that ends changes nothing but its status.
LEMMA FinishStep ==
    ASSUME Typed, NEW p \in Procs, Running(p), NEW status \in {"over", "failed"}, Finishes(p, status)
    PROVE  \E process \in Process :
              /\ FitsPlan(process) /\ proc' = [proc EXCEPT ![p] = process]
              /\ process = [proc[p] EXCEPT !.status = status]
<1> DEFINE process == [proc[p] EXCEPT !.status = status]
<1>1. proc' = [proc EXCEPT ![p] = process]
  BY DEF Finishes, Typed
<1>2. process \in Process
  BY RunningIsProcess DEF Process
<1>3. FitsPlan(process)
  BY RunningIsProcess DEF FitsPlan, Process
<1> QED BY <1>1, <1>2, <1>3

\* What is written into the tree and into the manifest has its type.
LEMMA TreesFit ==
    ASSUME Typed
    PROVE  /\ \A lineage \in Lineages : Whole(lineage) \in Contents
           /\ Torn \in Contents /\ Absent \in Contents
           /\ REQUIRED_OUTPUTS \subseteq Files
           /\ TheManifest \in Manifests
<1>1. REQUIRED_OUTPUTS \subseteq Files
  BY DEF REQUIRED_OUTPUTS
<1>2. Inventory(files) \in [REQUIRED_OUTPUTS -> Contents]
  BY <1>1 DEF Typed, Inventory
<1>3. TheManifest \in Manifests
  BY <1>2 DEF Typed, TheManifest, Manifests
<1>4. {} \in Lineages
  BY DEF Lineages
<1> QED BY <1>1, <1>3, <1>4 DEF Whole, Torn, Absent, Contents

\* Each action keeps the types.
LEMMA StartTyped ==
    ASSUME Typed, NEW p \in Procs, NEW plan \in Plans, NEW publishes \in BOOLEAN,
           StartProcess(p, plan, publishes)
    PROVE  Typed'
<1>1. Started(plan, publishes) \in Process
  BY DEF Started, Process, Lineages
<1>2. FitsPlan(Started(plan, publishes))
  <2>1. Len(plan) \in Nat
    BY StepNames DEF Plans
  <2> QED BY <2>1 DEF FitsPlan, Started
<1>3. proc' = [proc EXCEPT ![p] = Started(plan, publishes)]
  BY DEF StartProcess
<1>4. alone' \in Procs \cup {Nobody}
  BY DEF StartProcess
<1> QED BY <1>1, <1>2, <1>3, <1>4, ProcessStep DEF StartProcess, Typed

\* An edit keeps the types.
LEMMA EditTyped == ASSUME Typed, Edit PROVE Typed'
<1>1. code' \in Revisions
  BY PipelineAssumption DEF Typed, Edit, Revisions
<1> QED BY <1>1 DEF Typed, Edit

\* What a stage reads is known, and so is what comes of it.
LEMMA ReadLineages ==
    ASSUME Typed, NEW p \in Procs, proc[p] \in Process, proc[p].at < Len(proc[p].plan),
           NEW revisions \in SUBSET Revisions
    PROVE  /\ LineageRead(p, revisions) \in Lineages
           /\ Reads(NextStage(p)) \subseteq Files
           /\ NextStage(p).makes \in Seq(Files)
<1>1. PICK i \in Steps : NextStage(p) = StepStage(i)
  BY NextIsStage
<1>2. Reads(NextStage(p)) \subseteq Files /\ NextStage(p).makes \in Seq(Files)
  BY <1>1, StagesReadEarlier, StagesMakeFiles DEF ReadsEarlier
<1>3. \A f \in Files : files[f].of \in Lineages
  BY DEF Typed, Contents
<1>4. NextName(p) \in StageNames
  BY NextIsStage
<1>5. \A f \in NextStage(p).needs \cup NextStage(p).uses : files[f].of \in Lineages
  BY <1>2, <1>3 DEF Reads
<1>6. ({NextName(p)} \X revisions) \subseteq StageNames \X Revisions
  BY <1>4
<1>7. UNION {files[f].of : f \in NextStage(p).needs \cup NextStage(p).uses}
          \subseteq StageNames \X Revisions
  BY <1>5 DEF Lineages
<1> QED BY <1>2, <1>6, <1>7 DEF LineageRead, Lineages

\* A stage that begins: what it will write, and on what that rests.
LEMMA BeginProcess ==
    ASSUME Typed, NEW p \in Procs, BeginStage(p)
    PROVE  \E hits \in SUBSET Revisions, process \in Process :
              /\ ~UsesLocalCache(p) => hits = {}
              /\ process = [proc[p] EXCEPT !.lineage = LineageRead(p, {code} \cup hits),
                                           !.left = NextStage(p).makes]
              /\ FitsPlan(process)
              /\ proc' = [proc EXCEPT ![p] = process]
<1>1. /\ proc[p] \in Process /\ proc[p] # NotStarted
      /\ proc[p].at < Len(proc[p].plan)
      /\ Running(p)
  BY RunningIsProcess DEF BeginStage, AtStage
<1>2. PICK hits \in {{}} \cup IF UsesLocalCache(p) THEN {cache} ELSE {} :
          proc' = [proc EXCEPT ![p].lineage = LineageRead(p, {code} \cup hits),
                               ![p].left = NextStage(p).makes]
  BY DEF BeginStage
<1>3. hits \in SUBSET Revisions /\ (~UsesLocalCache(p) => hits = {})
  BY <1>2 DEF Typed
<1> DEFINE process == [proc[p] EXCEPT !.lineage = LineageRead(p, {code} \cup hits),
                                      !.left = NextStage(p).makes]
<1>4. {code} \cup hits \in SUBSET Revisions
  BY <1>3 DEF Typed
<1>5. process \in Process
  BY <1>1, <1>4, ReadLineages DEF Process
<1>6. FitsPlan(process)
  <2>1. /\ process.at = proc[p].at /\ process.plan = proc[p].plan
        /\ process.left = NextStage(p).makes
    BY <1>1 DEF Process
  <2>2. proc[p].at <= Len(proc[p].plan)
    BY <1>1, RunningIsProcess DEF FitsPlan
  <2>3. NextStage(p).makes \in Seq(Files)
    BY <1>1, ReadLineages
  <2>4. NextStage(p).makes # <<>> => LeftOver(NextStage(p).makes, NextStage(p).makes)
    <3>1. NextStage(p).makes = SubSeq(NextStage(p).makes, 1, Len(NextStage(p).makes))
      BY <2>3, SubSeqFull
    <3>2. NextStage(p).makes # <<>> => 1 \in 1 .. Len(NextStage(p).makes)
      BY <2>3
    <3> QED BY <3>1, <3>2 DEF LeftOver
  <2> QED BY <1>1, <2>1, <2>2, <2>4 DEF FitsPlan, NextStage, NextName
<1>7. proc' = [proc EXCEPT ![p] = process]
  BY <1>1, <1>2 DEF Typed
<1> QED BY <1>3, <1>5, <1>6, <1>7

\* A stage that begins keeps the types.
LEMMA BeginTyped == ASSUME Typed, NEW p \in Procs, BeginStage(p) PROVE Typed'
<1>1. cache' \subseteq Revisions
  BY DEF BeginStage, Typed
<1> QED BY <1>1, BeginProcess, ProcessStep DEF BeginStage, Typed

\* A process that ends keeps the types.
LEMMA FinishTyped ==
    ASSUME Typed, NEW p \in Procs, Running(p), NEW status \in {"over", "failed"},
           Finishes(p, status), UNCHANGED <<files, manifest, cache, code, crashes, alone>>
    PROVE  Typed'
  BY FinishStep, ProcessStep DEF Typed

\* A file that is written: it is the next of those left, and when it is the
\* last the stage is over.
LEMMA WriteProcess ==
    ASSUME Typed, NEW p \in Procs, WriteFile(p)
    PROVE  /\ Head(proc[p].left) \in Files
           /\ Len(proc[p].left) \in Nat
           /\ \E process \in Process :
                /\ process = [proc[p] EXCEPT
                       !.left = Tail(@),
                       !.at = IF Len(proc[p].left) = 1 THEN @ + 1 ELSE @,
                       !.lineage = IF Len(proc[p].left) = 1 THEN {} ELSE @]
                /\ FitsPlan(process)
                /\ proc' = [proc EXCEPT ![p] = process]
<1>1. /\ proc[p] \in Process /\ proc[p] # NotStarted
      /\ proc[p].left # <<>>
      /\ proc[p].at < Len(proc[p].plan)
      /\ LeftOver(proc[p].left, NextStage(p).makes)
      /\ proc[p].left \in Seq(Files)
  BY RunningIsProcess DEF WriteFile, FitsPlan, NextStage, NextName, Process
<1>2. /\ NextStage(p).makes \in Seq(Files)
  BY <1>1, ReadLineages DEF Typed
<1>3. PICK k \in 1 .. Len(NextStage(p).makes) :
          proc[p].left = SubSeq(NextStage(p).makes, k, Len(NextStage(p).makes))
  BY <1>1 DEF LeftOver
<1> DEFINE makes == NextStage(p).makes
           rest == proc[p].left
           process == [proc[p] EXCEPT
                          !.left = Tail(@),
                          !.at = IF Len(proc[p].left) = 1 THEN @ + 1 ELSE @,
                          !.lineage = IF Len(proc[p].left) = 1 THEN {} ELSE @]
<1>4. /\ Len(rest) = Len(makes) - k + 1
      /\ Tail(rest) = IF k < Len(makes) THEN SubSeq(makes, k + 1, Len(makes)) ELSE <<>>
  BY <1>2, <1>3, RestOfSequence
<1>5. Head(rest) \in Files /\ Tail(rest) \in Seq(Files) /\ Len(rest) \in Nat
  BY <1>1, HeadTailProperties
<1>6. proc[p].at \in Nat /\ Len(proc[p].plan) \in Nat /\ {} \in Lineages
  BY <1>1, StepNames DEF Process, Plans, Lineages
<1>7. process \in Process
  <2> DEFINE at == IF Len(rest) = 1 THEN proc[p].at + 1 ELSE proc[p].at
             lineage == IF Len(rest) = 1 THEN {} ELSE proc[p].lineage
  <2>1. at \in Nat
    BY <1>6
  <2>2. lineage \in Lineages
    BY <1>1, <1>6 DEF Process
  <2>3. process = [proc[p] EXCEPT !.left = Tail(rest), !.at = at, !.lineage = lineage]
    OBVIOUS
  <2> HIDE DEF at, lineage, process
  <2> QED BY <1>1, <1>5, <2>1, <2>2, <2>3 DEF Process
<1>8. /\ process.plan = proc[p].plan /\ process.left = Tail(rest)
      /\ process.at = IF Len(rest) = 1 THEN proc[p].at + 1 ELSE proc[p].at
  BY <1>1 DEF Process
<1>9. FitsPlan(process)
  <2>1. CASE Len(rest) = 1
    <3>1. Tail(rest) = <<>>
      BY <1>2, <1>3, <1>4, <2>1
    <3>2. proc[p].at + 1 <= Len(proc[p].plan)
      BY <1>1, <1>6
    <3> QED BY <1>8, <2>1, <3>1, <3>2 DEF FitsPlan
  <2>2. CASE Len(rest) # 1
    <3>1. k < Len(makes) /\ k + 1 \in 1 .. Len(makes)
      BY <1>2, <1>3, <1>4, <2>2
    <3>2. LeftOver(Tail(rest), makes)
      BY <1>4, <3>1 DEF LeftOver
    <3> QED BY <1>1, <1>6, <1>8, <2>2, <3>2 DEF FitsPlan, NextStage, NextName
  <2> QED BY <2>1, <2>2
<1>10. proc' = [proc EXCEPT ![p] = process]
  BY <1>1 DEF WriteFile, Typed
<1> QED BY <1>5, <1>7, <1>9, <1>10

\* A file that is written keeps the types.
LEMMA WriteTyped == ASSUME Typed, NEW p \in Procs, WriteFile(p) PROVE Typed'
<1>1. Whole(proc[p].lineage) \in Contents
  BY RunningIsProcess, TreesFit DEF WriteFile, Process
<1>2. files' \in [Files -> Contents]
  BY <1>1 DEF WriteFile, Typed
<1> QED BY <1>2, WriteProcess, ProcessStep DEF WriteFile, Typed

\* A kill keeps the types.
LEMMA CrashTyped == ASSUME Typed, NEW p \in Procs, Crash(p) PROVE Typed'
<1>1. files' \in [Files -> Contents]
  BY TreesFit DEF Crash, Typed
<1>2. crashes' \in 0 .. MaxCrashes
  BY PipelineAssumption DEF Crash, Typed
<1>3. alone' \in Procs \cup {Nobody}
  BY DEF Crash, Typed
<1>4. Finishes(p, "failed") /\ Running(p)
  BY DEF Crash
<1> QED BY <1>1, <1>2, <1>3, <1>4, FinishStep, ProcessStep DEF Crash, Typed

\* A manifest that is made, but not yet written.
LEMMA DraftProcess ==
    ASSUME Typed, NEW p \in Procs, BuildManifest(p), ManifestPossible
    PROVE  \E process \in Process :
              /\ process = [proc[p] EXCEPT !.draft = TheManifest]
              /\ FitsPlan(process) /\ proc' = [proc EXCEPT ![p] = process]
<1> DEFINE process == [proc[p] EXCEPT !.draft = TheManifest]
<1>1. proc[p] \in Process /\ FitsPlan(proc[p])
  BY RunningIsProcess DEF BuildManifest, AtEnd
<1>2. process \in Process
  BY <1>1, TreesFit DEF Process
<1>3. FitsPlan(process)
  BY <1>1 DEF FitsPlan, Process
<1>4. proc' = [proc EXCEPT ![p] = process]
  BY DEF BuildManifest, TheManifest, Typed
<1> QED BY <1>2, <1>3, <1>4

\* The final check keeps the types.
LEMMA BuildTyped == ASSUME Typed, NEW p \in Procs, BuildManifest(p) PROVE Typed'
<1>1. CASE ManifestPossible
  BY <1>1, DraftProcess, ProcessStep DEF BuildManifest, Typed
<1>2. CASE ~ManifestPossible
  BY <1>2, FinishTyped DEF BuildManifest, AtEnd
<1> QED BY <1>1, <1>2

\* The process that has written it.
LEMMA PublishProcess ==
    ASSUME Typed, NEW p \in Procs, Publish(p)
    PROVE  \E process \in Process :
              /\ process = [proc[p] EXCEPT !.status = "over", !.draft = NoManifest]
              /\ FitsPlan(process) /\ proc' = [proc EXCEPT ![p] = process]
<1> DEFINE process == [proc[p] EXCEPT !.status = "over", !.draft = NoManifest]
<1>1. proc[p] \in Process /\ FitsPlan(proc[p])
  BY RunningIsProcess DEF Publish, Publishing
<1>2. process \in Process
  BY <1>1 DEF Process
<1>3. FitsPlan(process)
  BY <1>1 DEF FitsPlan, Process
<1>4. proc' = [proc EXCEPT ![p] = process]
  BY DEF Publish, Typed
<1> QED BY <1>2, <1>3, <1>4

\* The new manifest keeps the types.
LEMMA PublishTyped == ASSUME Typed, NEW p \in Procs, Publish(p) PROVE Typed'
<1>1. proc[p].draft \in Manifests
  BY RunningIsProcess DEF Publish, Publishing, Process
<1> QED BY <1>1, PublishProcess, ProcessStep DEF Publish, Typed

\* The tree is empty or that of an earlier release.
LEMMA TypedInit == Init => Typed
<1> SUFFICES ASSUME Init PROVE Typed
  OBVIOUS
<1>1. EmptyTree \in [Files -> Contents]
  BY DEF EmptyTree, Absent, Contents, Lineages
<1>2. 0 \in Revisions /\ 0 \in 0 .. MaxCrashes
  BY PipelineAssumption DEF Revisions
<1>3. BuiltTree \in [Files -> Contents]
  <2>1. \A stages \in SUBSET StageNames : TwiceUpstream(stages) \in SUBSET StageNames
    BY DEF TwiceUpstream, Upstream
  <2>2. \A f : Makers(f) \in SUBSET StageNames
    BY DEF Makers
  <2>3. \A stages \in SUBSET StageNames : Whole(stages \X {0}) \in Contents
    BY <1>2 DEF Whole, Contents, Lineages
  <2> QED BY <2>1, <2>2, <2>3 DEF BuiltTree
<1>4. Manifest(0, Inventory(BuiltTree)) \in Manifests
  <2>1. REQUIRED_OUTPUTS \subseteq Files
    BY DEF REQUIRED_OUTPUTS
  <2>2. Inventory(BuiltTree) \in [REQUIRED_OUTPUTS -> Contents]
    BY <1>3, <2>1 DEF Inventory
  <2> QED BY <1>2, <2>2 DEF Manifests
<1>5. proc = [p \in Procs |-> NotStarted]
  BY DEF Init
<1> QED BY <1>1, <1>2, <1>3, <1>4, <1>5 DEF Init, Typed

\* Every step keeps the types.
LEMMA TypedNext == Typed /\ [Next]_vars => Typed'
<1> SUFFICES ASSUME Typed, [Next]_vars PROVE Typed'
  OBVIOUS
<1>1. CASE UNCHANGED vars
  BY <1>1 DEF vars, Typed
<1>2. CASE Edit
  BY <1>2, EditTyped
<1>3. ASSUME NEW p \in Procs, RunPipeline(p) PROVE Typed'
  BY <1>3, StartTyped DEF RunPipeline, Plans
<1>4. ASSUME NEW p \in Procs, RunStage(p) PROVE Typed'
  BY <1>4, StartTyped DEF RunStage, Plans
<1>5. ASSUME NEW p \in Procs, Crash(p) PROVE Typed'
  BY <1>5, CrashTyped
<1>6. ASSUME NEW p \in Procs, Step(p) PROVE Typed'
  <2>1. CASE StageStops(p) \/ StageEnds(p)
    BY <2>1, FinishTyped DEF StageStops, StageEnds, AtStage, AtEnd
  <2> QED BY <1>6, <2>1, BeginTyped, WriteTyped, BuildTyped, PublishTyped DEF Step
<1> QED BY <1>1, <1>2, <1>3, <1>4, <1>5, <1>6 DEF Next

-----------------------------------------------------------------------------
(* What a pipeline that is by itself has written.                          *)

\* A pipeline in the middle of its steps.
LEMMA NextStep ==
    ASSUME Typed, NEW p \in Procs, proc[p] \in Process, proc[p].plan = PIPELINE_STEPS
    PROVE  /\ proc[p].at \in 0 .. 17
           /\ Len(proc[p].plan) = 17
           /\ proc[p].left # <<>> => proc[p].at < 17
           /\ proc[p].at < 17 =>
                 /\ proc[p].at + 1 \in Steps
                 /\ NextStage(p) = StepStage(proc[p].at + 1)
                 /\ NextStage(p).makes \in Seq(Files)
                 /\ \A f \in Reads(NextStage(p)) : f \in Files /\ Place(f) <= proc[p].at
                 /\ \A group \in NextStage(p).checks : group \subseteq Reads(NextStage(p))
                 /\ \A f \in Range(NextStage(p).makes) : f \in Files /\ Place(f) = proc[p].at + 1
                 /\ \A f \in Files : Place(f) = proc[p].at + 1 => f \in Range(NextStage(p).makes)
<1>1. proc[p] # NotStarted
  BY DEF Process, NotStarted
<1>2. Len(proc[p].plan) = 17 /\ FitsPlan(proc[p]) /\ proc[p].at \in Nat
  BY <1>1, StepNames DEF Typed, Process
<1>3. proc[p].at \in 0 .. 17 /\ (proc[p].left # <<>> => proc[p].at < 17)
  BY <1>2 DEF FitsPlan
<1>4. ASSUME proc[p].at < 17
      PROVE  /\ proc[p].at + 1 \in Steps
             /\ NextStage(p) = StepStage(proc[p].at + 1)
  BY <1>2, <1>4, NextIsStage
<1>5. \A i \in Steps : \A n \in Nat : n < i + 1 => n <= i
  BY DEF Steps
<1>6. ASSUME proc[p].at < 17, NEW f \in Reads(NextStage(p))
      PROVE  f \in Files /\ Place(f) <= proc[p].at
  <2>1. f \in Files /\ Place(f) < proc[p].at + 1
    BY <1>4, <1>6, StagesReadEarlier DEF ReadsEarlier
  <2>2. Place(f) \in Nat
    BY <2>1, PlaceOfFiles DEF Steps
  <2> QED BY <1>2, <2>1, <2>2
<1>7. ASSUME proc[p].at < 17
      PROVE  /\ NextStage(p).makes \in Seq(Files)
             /\ \A group \in NextStage(p).checks : group \subseteq Reads(NextStage(p))
             /\ \A f \in Range(NextStage(p).makes) : f \in Files /\ Place(f) = proc[p].at + 1
             /\ \A f \in Files : Place(f) = proc[p].at + 1 => f \in Range(NextStage(p).makes)
  BY <1>4, <1>7, StagesReadEarlier, StagesMakeFiles, PlaceOfMade, PlaceOfFiles,
     FilesAreMade
     DEF ReadsEarlier, Made
<1> QED BY <1>2, <1>3, <1>4, <1>6, <1>7

\* It has written everything up to where it is, hence all it reads next.
LEMMA WrittenFiles ==
    ASSUME Typed, NEW p \in Procs, proc[p] \in Process, proc[p].plan = PIPELINE_STEPS
    PROVE  /\ Written(p) \subseteq Files
           /\ \A f \in Files : Place(f) <= proc[p].at => f \in Written(p)
           /\ \A f \in Written(p) : Place(f) <= proc[p].at + 1
           /\ proc[p].at = 17 => Written(p) = Files
           /\ proc[p].at < 17 => Reads(NextStage(p)) \subseteq Written(p)
<1>1. \A f \in Files : Place(f) <= proc[p].at => f \in Written(p)
  BY DEF Written
<1>2. ASSUME NEW f \in Written(p) PROVE f \in Files /\ Place(f) <= proc[p].at + 1
  <2>1. CASE f \in Files /\ Place(f) <= proc[p].at
    <3>1. Place(f) \in Nat /\ proc[p].at \in Nat
      BY <2>1, PlaceOfFiles, NextStep DEF Steps
    <3> QED BY <2>1, <3>1
  <2>2. CASE proc[p].left # <<>> /\ f \in WrittenNow(p)
    <3>1. proc[p].at < 17 /\ NextStage(p).makes \in Seq(Files) /\ proc[p].at + 1 \in Nat
      BY <2>2, NextStep
    <3>2. proc[p].left \in Seq(Files)
      BY DEF Process
    <3>3. PICK j \in 1 .. Len(NextStage(p).makes) - Len(proc[p].left) : f = NextStage(p).makes[j]
      BY <2>2 DEF WrittenNow
    <3>4. f \in Range(NextStage(p).makes)
      BY <3>1, <3>2, <3>3 DEF Range
    <3>5. f \in Files /\ Place(f) = proc[p].at + 1
      BY <3>1, <3>4, NextStep
    <3> QED BY <3>1, <3>5
  <2> QED BY <1>2, <2>1, <2>2 DEF Written
<1>3. proc[p].at = 17 => \A f \in Files : Place(f) <= proc[p].at
  BY PlaceOfFiles DEF Steps
<1>4. proc[p].at < 17 => Reads(NextStage(p)) \subseteq Written(p)
  BY <1>1, NextStep
<1> QED BY <1>1, <1>2, <1>3, <1>4

\* What was written is whole and of one revision, so that a pipeline by itself
\* finds all its inputs, finds them to agree, and can make its manifest.
LEMMA WrittenIsWhole ==
    ASSUME NEW p \in Procs, AloneOK(p), NEW group \in SUBSET Written(p)
    PROVE  /\ \A f \in group : files[f].state = "whole"
           /\ Agree(group)
  BY DEF AloneOK, UpToDate, OfThisRevision, Agree

\* No stage of it is stopped.
LEMMA AloneFindsInputs ==
    ASSUME Typed, NEW p \in Procs, AloneOK(p), proc[p] \in Process, proc[p].at < 17
    PROVE  /\ Readable(NextStage(p))
           /\ \A group \in NextStage(p).checks : Agree(group)
<1>1. proc[p].plan = PIPELINE_STEPS
  BY DEF AloneOK
<1>2. Reads(NextStage(p)) \subseteq Written(p)
  BY <1>1, WrittenFiles
<1>3. Readable(NextStage(p))
  BY <1>2, WrittenIsWhole DEF Readable, Reads
<1>4. \A group \in NextStage(p).checks : group \subseteq Written(p)
  BY <1>1, <1>2, NextStep
<1> QED BY <1>3, <1>4, WrittenIsWhole

\* A stage of it that begins starts from the present code only.
LEMMA AloneBegins ==
    ASSUME Typed, NEW p \in Procs, AloneOK(p), BeginStage(p)
    PROVE  AloneOK(p)'
<1>1. /\ proc[p] \in Process /\ proc[p].plan = PIPELINE_STEPS /\ Running(p)
      /\ proc[p].left = <<>> /\ proc[p].at < Len(proc[p].plan) /\ proc[p].publishes
      /\ UNCHANGED <<files, manifest, code>>
  BY RunningIsProcess DEF BeginStage, AtStage, AloneOK
<1>2. PICK hits \in SUBSET Revisions, process \in Process :
          /\ ~UsesLocalCache(p) => hits = {}
          /\ process = [proc[p] EXCEPT !.lineage = LineageRead(p, {code} \cup hits),
                                       !.left = NextStage(p).makes]
          /\ FitsPlan(process)
          /\ proc' = [proc EXCEPT ![p] = process]
  BY BeginProcess
<1>3. hits = {}
  BY <1>1, <1>2 DEF UsesLocalCache
<1>4. /\ proc'[p].status = "running" /\ proc'[p].publishes /\ proc'[p].plan = PIPELINE_STEPS
      /\ proc'[p].at = proc[p].at /\ proc'[p].draft = proc[p].draft
      /\ proc'[p].lineage = LineageRead(p, {code})
      /\ proc'[p].left = NextStage(p).makes
      /\ \A q \in Procs \ {p} : proc'[q] = proc[q]
  BY <1>1, <1>2, <1>3 DEF Process, Typed, Running
<1>5. proc[p].draft = NoManifest
  BY <1>1 DEF AloneOK, AtEnd, Process
<1>6. Written(p)' \subseteq Written(p)
  <2>1. NextStage(p)' = NextStage(p)
    BY <1>1, <1>4 DEF NextStage, NextName
  <2>2. NextStage(p).makes \in Seq(Files)
    BY <1>1, NextStep
  <2>3. Len(NextStage(p).makes) - Len(NextStage(p).makes) = 0
    BY <2>2
  <2>4. WrittenNow(p)' = {}
    BY <1>4, <2>1, <2>3 DEF WrittenNow
  <2> QED BY <1>4, <2>4 DEF Written
<1>7. OfThisRevision(LineageRead(p, {code})) /\
      \A g \in Reads(NextStage(p)) : files[g].of \subseteq LineageRead(p, {code})
  <2>1. Reads(NextStage(p)) \subseteq Written(p)
    BY <1>1, NextStep, WrittenFiles
  <2>2. \A g \in Reads(NextStage(p)) : OfThisRevision(files[g].of)
    BY <2>1 DEF AloneOK, UpToDate
  <2> QED BY <2>2 DEF OfThisRevision, LineageRead, Reads
<1>8. \A f \in Written(p)' : UpToDate(f)'
  BY <1>1, <1>6 DEF AloneOK, UpToDate, OfThisRevision
<1>9. OfThisRevision(proc[p].lineage)' /\
      \A g \in Reads(NextStage(p))' : files'[g].of \subseteq proc'[p].lineage
  BY <1>1, <1>4, <1>7 DEF OfThisRevision, NextStage, NextName
<1>10. \A q \in Procs \ {p} : ~Running(q)'
  BY <1>4 DEF AloneOK, Running
<1> QED BY <1>4, <1>5, <1>8, <1>9, <1>10 DEF AloneOK

\* The file a stage of it writes rests on what the stage had read, and nothing
\* that was written before had read that file.
LEMMA AloneWrites ==
    ASSUME Typed, NEW p \in Procs, AloneOK(p), WriteFile(p)
    PROVE  AloneOK(p)'
<1> DEFINE makes == NextStage(p).makes
           rest == proc[p].left
           h == Head(proc[p].left)
           i == proc[p].at + 1
<1>1. /\ proc[p] \in Process /\ FitsPlan(proc[p]) /\ proc[p].plan = PIPELINE_STEPS
      /\ Running(p) /\ rest # <<>> /\ proc[p].publishes
      /\ proc[p].at < 17 /\ proc[p].at \in Nat /\ Len(proc[p].plan) = 17
      /\ UNCHANGED <<manifest, code>>
  <2>1. proc[p] \in Process /\ FitsPlan(proc[p]) /\ proc[p].plan = PIPELINE_STEPS /\ rest # <<>>
    BY RunningIsProcess DEF WriteFile, AloneOK
  <2> QED BY <2>1, NextStep DEF WriteFile, AloneOK
<1>2. /\ h \in Files /\ Len(rest) \in Nat
      /\ files' = [files EXCEPT ![h] = Whole(proc[p].lineage)]
  BY WriteProcess DEF WriteFile
<1>3. PICK process \in Process :
          /\ process = [proc[p] EXCEPT
                           !.left = Tail(@),
                           !.at = IF Len(proc[p].left) = 1 THEN @ + 1 ELSE @,
                           !.lineage = IF Len(proc[p].left) = 1 THEN {} ELSE @]
          /\ FitsPlan(process)
          /\ proc' = [proc EXCEPT ![p] = process]
  BY WriteProcess
<1>4. /\ proc'[p].status = "running" /\ proc'[p].publishes /\ proc'[p].plan = PIPELINE_STEPS
      /\ proc'[p].at = IF Len(rest) = 1 THEN i ELSE proc[p].at
      /\ proc'[p].draft = proc[p].draft
      /\ proc'[p].lineage = IF Len(rest) = 1 THEN {} ELSE proc[p].lineage
      /\ proc'[p].left = Tail(rest)
      /\ \A q \in Procs \ {p} : proc'[q] = proc[q]
  BY <1>1, <1>3 DEF Process, Typed, Running
<1>5. proc[p].draft = NoManifest
  BY <1>1 DEF AloneOK, AtEnd
<1>6. /\ makes \in Seq(Files)
      /\ \A g \in Reads(NextStage(p)) : g \in Files /\ Place(g) <= proc[p].at
      /\ NextStage(p) = StepStage(i)
      /\ \A f \in Range(makes) : f \in Files /\ Place(f) = i
      /\ \A f \in Files : Place(f) = i => f \in Range(makes)
  BY <1>1, NextStep
<1>7. PICK k \in 1 .. Len(makes) : rest = SubSeq(makes, k, Len(makes))
  BY <1>1 DEF FitsPlan, LeftOver, NextStage, NextName
<1>8. /\ Len(makes) \in Nat
      /\ Len(rest) = Len(makes) - k + 1
      /\ h = makes[k]
      /\ Tail(rest) = IF k < Len(makes) THEN SubSeq(makes, k + 1, Len(makes)) ELSE <<>>
  <2>1. makes \in Seq(Files) /\ Len(makes) \in Nat
    BY <1>6
  <2> HIDE DEF makes, rest
  <2>2. /\ Len(rest) = Len(makes) - k + 1
        /\ Head(rest) = makes[k]
        /\ Tail(rest) = IF k < Len(makes) THEN SubSeq(makes, k + 1, Len(makes)) ELSE <<>>
    BY <1>7, <2>1, RestOfSequence
  <2> QED BY <2>1, <2>2 DEF rest
<1>9. Place(h) = i
  BY <1>6, <1>8 DEF Range
<1>10. \A f \in Files : Place(f) \in Nat
  BY PlaceOfFiles DEF Steps
<1>11. \A j \in 1 .. k : makes[j] = h \/ makes[j] \in Written(p)
  <2>1. ASSUME NEW j \in 1 .. k, j # k PROVE makes[j] \in WrittenNow(p)
    <3>1. j \in 1 .. Len(makes) - Len(rest)
      BY <1>8, <2>1
    <3> QED BY <3>1 DEF WrittenNow
  <2> QED BY <1>1, <1>8, <2>1 DEF Written
<1>12. Written(p)' \subseteq Written(p) \cup {h}
  <2>1. CASE Len(rest) = 1
    <3>1. k = Len(makes) /\ proc'[p].at = i /\ proc'[p].left = <<>>
      <4>1. k = Len(makes)
        BY <1>7, <1>8, <2>1
      <4>2. ~(k < Len(makes))
        BY <1>8, <4>1
      <4>3. Tail(rest) = <<>>
        BY <1>8, <4>2
      <4> QED BY <1>4, <2>1, <4>1, <4>3
    <3>2. ASSUME NEW f \in Files, Place(f) <= i PROVE f \in Written(p) \cup {h}
      <4>1. CASE Place(f) <= proc[p].at
        BY <4>1 DEF Written
      <4>2. CASE Place(f) = i
        <5>1. PICK j \in 1 .. Len(makes) : f = makes[j]
          BY <1>6, <4>2 DEF Range
        <5> QED BY <1>11, <3>1, <5>1
      <4> QED BY <1>1, <1>10, <3>2, <4>1, <4>2
    <3> QED BY <3>1, <3>2 DEF Written
  <2>2. CASE Len(rest) # 1
    <3>1. /\ k < Len(makes) /\ k + 1 \in 1 .. Len(makes)
          /\ proc'[p].at = proc[p].at
          /\ proc'[p].left = SubSeq(makes, k + 1, Len(makes))
      BY <1>4, <1>7, <1>8, <2>2
    <3>2. NextStage(p)' = NextStage(p)
      BY <1>1, <1>4, <3>1 DEF NextStage, NextName
    <3>3. Len(proc'[p].left) = Len(makes) - (k + 1) + 1
      BY <1>6, <3>1, RestOfSequence
    <3>4. Len(makes) - Len(proc'[p].left) = k
      BY <1>8, <3>3
    <3>5. WrittenNow(p)' = {makes[j] : j \in 1 .. k}
      BY <3>2, <3>4 DEF WrittenNow
    <3> QED BY <1>11, <3>1, <3>5 DEF Written
  <2> QED BY <2>1, <2>2
<1>13. /\ OfThisRevision(proc[p].lineage)
       /\ \A g \in Reads(NextStage(p)) : files[g].of \subseteq proc[p].lineage
  BY <1>1 DEF AloneOK
<1>14. \A g \in Files : Place(g) <= proc[p].at => files'[g] = files[g]
  <2>1. ASSUME NEW g \in Files, Place(g) <= proc[p].at PROVE g # h
    BY <1>1, <1>9, <1>10, <2>1
  <2> QED BY <1>2, <2>1 DEF Typed
<1>15. ASSUME NEW f \in Written(p)' PROVE UpToDate(f)'
  <2>1. CASE f = h
    <3>1. files'[h] = Whole(proc[p].lineage)
      BY <1>2 DEF Typed
    <3>2. \A g \in Reads(StepStage(Place(h))) : files'[g].of \subseteq proc[p].lineage
      BY <1>6, <1>9, <1>13, <1>14
    <3> QED BY <1>1, <1>13, <2>1, <3>1, <3>2 DEF UpToDate, OfThisRevision, Whole
  <2>2. CASE f # h
    <3>1. f \in Files /\ Place(f) <= i /\ UpToDate(f)
      BY <1>1, <1>12, <2>2, WrittenFiles DEF AloneOK
    <3>2. files'[f] = files[f]
      BY <1>2, <2>2, <3>1 DEF Typed
    <3>3. ASSUME NEW g \in Reads(StepStage(Place(f))) PROVE files'[g] = files[g]
      <4>1. g \in Files /\ Place(g) < Place(f)
        BY <3>1, <3>3, PlaceOfFiles, StagesReadEarlier DEF ReadsEarlier
      <4>2. Place(g) <= proc[p].at
        BY <1>1, <1>10, <3>1, <4>1
      <4> QED BY <1>14, <4>1, <4>2
    <3> QED BY <1>1, <3>1, <3>2, <3>3 DEF UpToDate, OfThisRevision
  <2> QED BY <2>1, <2>2
<1>16. proc'[p].left # <<>> =>
          /\ OfThisRevision(proc[p].lineage)'
          /\ \A g \in Reads(NextStage(p))' : files'[g].of \subseteq proc'[p].lineage
  <2> SUFFICES ASSUME proc'[p].left # <<>>
               PROVE  /\ OfThisRevision(proc[p].lineage)'
                      /\ \A g \in Reads(NextStage(p))' : files'[g].of \subseteq proc'[p].lineage
    OBVIOUS
  <2>1. Len(rest) # 1
    BY <1>4, <1>7, <1>8
  <2>2. proc'[p].at = proc[p].at /\ proc'[p].lineage = proc[p].lineage
    BY <1>4, <2>1
  <2>3. NextStage(p)' = NextStage(p)
    BY <1>1, <1>4, <2>2 DEF NextStage, NextName
  <2>4. \A g \in Reads(NextStage(p)) : files'[g].of \subseteq proc[p].lineage
    BY <1>6, <1>13, <1>14
  <2>5. Reads(NextStage(p))' = Reads(NextStage(p))
    BY <2>3 DEF Reads
  <2> QED BY <1>1, <1>13, <2>2, <2>4, <2>5 DEF OfThisRevision
<1>17. \A q \in Procs \ {p} : ~Running(q)'
  BY <1>4 DEF AloneOK, Running
<1> QED BY <1>4, <1>5, <1>15, <1>16, <1>17 DEF AloneOK

\* It makes its manifest of what it has written.
LEMMA AloneBuilds ==
    ASSUME Typed, NEW p \in Procs, AloneOK(p), BuildManifest(p)
    PROVE  AloneOK(p)'
<1>1. /\ proc[p] \in Process /\ proc[p].plan = PIPELINE_STEPS /\ Running(p)
      /\ proc[p].at = 17 /\ proc[p].left = <<>>
      /\ UNCHANGED <<files, manifest, code>>
  <2>1. proc[p] \in Process /\ proc[p].plan = PIPELINE_STEPS /\ Running(p)
    BY RunningIsProcess DEF BuildManifest, AtEnd, AloneOK
  <2>2. proc[p].at = 17
    BY <2>1, NextStep DEF BuildManifest, AtEnd
  <2>3. proc[p].left = <<>>
    BY <2>1, <2>2, NextStep
  <2> QED BY <2>1, <2>2, <2>3 DEF BuildManifest
<1>2. \A f \in Files : files[f].state = "whole"
  BY <1>1, WrittenFiles, WrittenIsWhole
<1>3. ManifestReads \subseteq Files /\ REQUIRED_OUTPUTS \subseteq Files
  BY Literals DEF ManifestReads, REQUIRED_OUTPUTS
<1>4. ManifestPossible
  BY <1>2, <1>3 DEF ManifestPossible, OutputsExist
<1>5. PICK process \in Process : /\ process = [proc[p] EXCEPT !.draft = TheManifest]
                                 /\ proc' = [proc EXCEPT ![p] = process]
  <2>1. PICK process \in Process : /\ process = [proc[p] EXCEPT !.draft = TheManifest]
                                   /\ FitsPlan(process) /\ proc' = [proc EXCEPT ![p] = process]
    BY <1>4, DraftProcess
  <2> QED BY <2>1
<1>6. /\ proc'[p].status = proc[p].status /\ proc'[p].publishes = proc[p].publishes
      /\ proc'[p].plan = PIPELINE_STEPS /\ proc'[p].at = 17 /\ proc'[p].left = <<>>
      /\ proc'[p].draft = TheManifest
      /\ \A q \in Procs \ {p} : proc'[q] = proc[q]
  BY <1>1, <1>5 DEF Process, Typed
<1>7. TheManifest' = TheManifest
  BY <1>1 DEF TheManifest, Inventory
<1>8. Written(p)' = Written(p)
  BY <1>1, <1>6 DEF Written
<1>9. \A f \in Written(p)' : UpToDate(f)'
  BY <1>1, <1>8 DEF AloneOK, UpToDate, OfThisRevision
<1>10. \A q \in Procs \ {p} : ~Running(q)'
  BY <1>6 DEF AloneOK, Running
<1>11. AtEnd(p)' /\ proc[p].status = "running" /\ proc[p].publishes
  BY <1>1, <1>6, StepNames DEF AtEnd, Running, AloneOK
<1> QED BY <1>6, <1>7, <1>9, <1>10, <1>11 DEF AloneOK

\* It publishes that manifest.
LEMMA AlonePublishes ==
    ASSUME Typed, NEW p \in Procs, AloneOK(p), Publish(p)
    PROVE  AloneOK(p)'
<1>1. /\ proc[p] \in Process /\ proc[p].plan = PIPELINE_STEPS /\ Running(p)
      /\ proc[p].draft = TheManifest /\ manifest' = TheManifest
      /\ UNCHANGED <<files, code>>
  BY RunningIsProcess DEF Publish, Publishing, AloneOK
<1>2. proc[p].at = 17 /\ proc[p].left = <<>>
  <2>1. AtEnd(p)
    BY DEF AloneOK, Publish, Publishing
  <2>2. proc[p].at = 17
    BY <1>1, <2>1, NextStep DEF AtEnd
  <2> QED BY <1>1, <2>2, NextStep
<1>3. PICK process \in Process :
          /\ process = [proc[p] EXCEPT !.status = "over", !.draft = NoManifest]
          /\ FitsPlan(process) /\ proc' = [proc EXCEPT ![p] = process]
  BY PublishProcess
<1>4. /\ proc'[p].status = "over" /\ proc'[p].publishes = proc[p].publishes
      /\ proc'[p].plan = PIPELINE_STEPS /\ proc'[p].at = 17 /\ proc'[p].left = <<>>
      /\ proc'[p].draft = NoManifest
      /\ \A q \in Procs \ {p} : proc'[q] = proc[q]
  BY <1>1, <1>2, <1>3 DEF Process, Typed
<1>5. TheManifest' = TheManifest
  BY <1>1 DEF TheManifest, Inventory
<1>6. Written(p)' = Written(p)
  BY <1>2, <1>4 DEF Written
<1>7. \A f \in Written(p)' : UpToDate(f)'
  BY <1>1, <1>6 DEF AloneOK, UpToDate, OfThisRevision
<1>8. \A q \in Procs \ {p} : ~Running(q)'
  BY <1>4 DEF AloneOK, Running
<1> QED BY <1>1, <1>4, <1>5, <1>7, <1>8 DEF AloneOK

\* A process that is started alone has written nothing yet.
LEMMA AloneStarts ==
    ASSUME Typed, NEW p \in Procs, NEW plan \in Plans, NEW publishes \in BOOLEAN,
           StartProcess(p, plan, publishes), publishes => plan = PIPELINE_STEPS,
           alone' # Nobody
    PROVE  alone' = p /\ AloneOK(p)'
<1>1. alone' = p /\ publishes /\ \A q \in Procs : ~Running(q)
  BY DEF StartProcess
<1>2. /\ proc'[p] = Started(PIPELINE_STEPS, TRUE)
      /\ \A q \in Procs \ {p} : proc'[q] = proc[q]
  BY <1>1 DEF StartProcess, Typed
<1>3. /\ proc'[p].status = "running" /\ proc'[p].publishes /\ proc'[p].plan = PIPELINE_STEPS
      /\ proc'[p].at = 0 /\ proc'[p].left = <<>> /\ proc'[p].draft = NoManifest
  BY <1>2 DEF Started
<1>4. \A f \in Files : Place(f) \in Nat /\ ~(Place(f) <= 0)
  BY PlaceOfFiles DEF Steps
<1>5. Written(p)' = {}
  BY <1>3, <1>4 DEF Written
<1>6. \A q \in Procs \ {p} : ~Running(q)'
  BY <1>1, <1>2 DEF Running
<1> QED BY <1>1, <1>3, <1>5, <1>6 DEF AloneOK

\* Without a change of what AloneOK speaks of, it stays true.
LEMMA AloneStays ==
    ASSUME NEW p \in Procs, AloneOK(p), UNCHANGED <<files, manifest, code, proc>>
    PROVE  AloneOK(p)'
<1>1. Written(p)' = Written(p)
  BY DEF Written, WrittenNow, NextStage, NextName
<1>2. TheManifest' = TheManifest
  BY DEF TheManifest, Inventory
<1>3. \A f \in Written(p)' : UpToDate(f)'
  BY <1>1 DEF AloneOK, UpToDate, OfThisRevision
<1>4. AtEnd(p)' = AtEnd(p) /\ \A q \in Procs : Running(q)' = Running(q)
  BY DEF AtEnd, Running
<1>5. OfThisRevision(proc[p].lineage)' = OfThisRevision(proc[p].lineage)
  BY DEF OfThisRevision
<1>6. Reads(NextStage(p))' = Reads(NextStage(p))
  BY DEF NextStage, NextName
<1> QED BY <1>1, <1>2, <1>3, <1>4, <1>5, <1>6 DEF AloneOK

\* Whoever has the tree for itself after a step is up to date.
LEMMA AloneNext ==
    ASSUME PipelineInv, [Next]_vars, alone' # Nobody
    PROVE  AloneOK(alone)'
<1> USE DEF PipelineInv
<1>1. CASE UNCHANGED vars
  <2>1. PICK p \in Procs : p = alone
    BY <1>1 DEF vars, Typed
  <2>2. AloneOK(p) /\ alone' = p
    BY <1>1, <2>1 DEF vars
  <2>3. AloneOK(p)'
    BY <1>1, <2>2, AloneStays DEF vars
  <2> QED BY <2>2, <2>3
<1>2. CASE Edit
  BY <1>2 DEF Edit
<1>3. ASSUME NEW p \in Procs, RunPipeline(p) PROVE AloneOK(alone)'
  <2>1. alone' = p /\ AloneOK(p)'
    BY <1>3, AloneStarts DEF RunPipeline, Plans
  <2> QED BY <2>1
<1>4. ASSUME NEW p \in Procs, RunStage(p) PROVE AloneOK(alone)'
  BY <1>4 DEF RunStage, StartProcess
<1>5. ASSUME NEW p \in Procs, Crash(p) PROVE AloneOK(alone)'
  BY <1>5 DEF Crash, Typed, AloneOK
<1>6. ASSUME NEW p \in Procs, Step(p) PROVE AloneOK(alone)'
  <2>1. Running(p) /\ alone' = alone
    BY <1>6 DEF Step, BeginStage, StageStops, AtStage, WriteFile, StageEnds, AtEnd,
                BuildManifest, Publish, Publishing
  <2>2. alone = p /\ AloneOK(p)
    BY <2>1 DEF Typed, AloneOK
  <2>3. proc[p] \in Process /\ proc[p].plan = PIPELINE_STEPS
    BY <2>1, <2>2, RunningIsProcess DEF AloneOK
  <2>4. ~StageStops(p)
    <3>1. SUFFICES ASSUME AtStage(p)
                   PROVE  /\ Readable(NextStage(p))
                          /\ \A group \in NextStage(p).checks : Agree(group)
      BY DEF StageStops
    <3>2. proc[p].at < 17
      BY <2>3, <3>1, NextStep DEF AtStage
    <3> QED BY <2>2, <2>3, <3>2, AloneFindsInputs
  <2>5. ~StageEnds(p)
    BY <2>2 DEF StageEnds, AloneOK
  <2>6. AloneOK(p)'
    BY <1>6, <2>2, <2>4, <2>5, AloneBegins, AloneWrites, AloneBuilds, AlonePublishes DEF
       Step
  <2> QED BY <2>1, <2>2, <2>6
<1> QED BY <1>1, <1>2, <1>3, <1>4, <1>5, <1>6 DEF Next

-----------------------------------------------------------------------------
(* The theorems.                                                           *)

\* The inductive invariant.
THEOREM PipelineInvariance == Spec => []PipelineInv
<1>1. Init => PipelineInv
  BY TypedInit DEF PipelineInv, Init
<1>2. PipelineInv /\ [Next]_vars => PipelineInv'
  BY TypedNext, AloneNext DEF PipelineInv
<1> QED BY <1>1, <1>2, PTL DEF Spec

\* Type correctness, for any number of processes, edits and kills and any
\* stages run by hand: in particular the manifest is never a half-written file.
THEOREM TypeCorrect == Spec => []TypeOK
<1>1. Typed => TypeOK
  <2> SUFFICES ASSUME Typed PROVE TypeOK
    OBVIOUS
  <2>1. manifest = NoManifest \/
          /\ manifest.state = "whole"
          /\ manifest.source \in Revisions
          /\ manifest.inventory \in [REQUIRED_OUTPUTS -> Contents]
    BY DEF Typed, Manifests, Manifest
  <2>2. ASSUME NEW p \in Procs, proc[p] # NotStarted
        PROVE  /\ proc[p].status \in {"running", "over", "failed"}
               /\ proc[p].at \in 0 .. Len(proc[p].plan)
               /\ proc[p].lineage \in Lineages
               /\ proc[p].left # <<>> => LeftOver(proc[p].left, NextStage(p).makes)
    <3>1. proc[p] \in Process /\ FitsPlan(proc[p])
      BY <2>2 DEF Typed
    <3>2. proc[p].at \in Nat /\ Len(proc[p].plan) \in Nat
      BY <3>1, StepNames DEF Process, Plans
    <3> QED BY <3>1, <3>2 DEF Process, FitsPlan, NextStage, NextName
  <2> QED BY <2>1, <2>2 DEF Typed, TypeOK
<1> QED BY <1>1, PipelineInvariance, PTL DEF PipelineInv

\* What a completed pipeline that was by itself leaves behind.
LEMMA CompletedRun ==
    ASSUME PipelineInv, AloneOver
    PROVE  manifest = TheManifest /\ \A f \in Files : UpToDate(f)
<1>1. PICK p \in Procs : p = alone
  BY DEF PipelineInv, Typed, AloneOver
<1>2. AloneOK(p) /\ proc[p].status = "over" /\ Typed
  BY <1>1 DEF PipelineInv, AloneOver
<1>3. proc[p] \in Process /\ proc[p].plan = PIPELINE_STEPS /\ proc[p].at = 17
  BY <1>2 DEF Typed, NotStarted, AloneOK
<1>4. Written(p) = Files
  BY <1>2, <1>3, WrittenFiles
<1> QED BY <1>2, <1>4 DEF AloneOK

\* What a pipeline that had the tree for itself leaves is of one revision, and
\* is what its manifest says.
THEOREM OneRevision == Spec => []CompletedRunIsOneRevision
<1>1. PipelineInv => CompletedRunIsOneRevision
  <2>1. REQUIRED_OUTPUTS \subseteq Files
    BY DEF REQUIRED_OUTPUTS
  <2> QED BY <2>1, CompletedRun
          DEF CompletedRunIsOneRevision, TheManifest, Manifest, Inventory, UpToDate, OfThisRevision
<1> QED BY <1>1, PipelineInvariance, PTL

\* What such a run of a revision that makes the values its gate asks for leaves
\* passes the gate's checks of the artifacts, whatever was there before.
THEOREM Releasable == Spec => []CompletedRunIsReleasable
<1>1. ASSUME PipelineInv, AloneOver, code \in Conforming PROVE AcceptsArtifacts
  <2>1. manifest = TheManifest /\ \A f \in Files : UpToDate(f)
    BY <1>1, CompletedRun
  <2>2. VerifierFiles \subseteq Files
    BY Literals DEF VerifierFiles
  <2>3. validate_required_files
    <3>1. manifest.state = "whole" /\ NoManifest.state = "absent"
      BY <2>1 DEF TheManifest, Manifest, NoManifest
    <3>2. \A f \in VerifierFiles : files[f].state = "whole"
      BY <2>1, <2>2 DEF UpToDate
    <3> QED BY <3>1, <3>2 DEF validate_required_files
  <2>4. \A group \in SUBSET Files : Agree(group)
    BY <2>1 DEF UpToDate, OfThisRevision, Agree
  <2>5. /\ {"model_bundle", "model_metadata"} \subseteq Files
        /\ {"calibrator", "calibration_metrics"} \subseteq Files
        /\ HeldOutReports \subseteq Files
        /\ {"ablation", "metrics", "calibration_metrics"} \subseteq Files
    BY Literals DEF HeldOutReports
  <2>6. \A report \in Files : \A f \in Reads(StepStage(Place(report))) : RestsOn(report, f)
    BY <2>1 DEF UpToDate, RestsOn
  <2>7. RestsOn("test_model_explanations", "test_explanations")
    <3>1. "test_model_explanations" \in Files /\ Place("test_model_explanations") = 12
      BY Literals DEF Place
    <3>2. "test_explanations" \in Reads(StepStage(12))
      BY StepStages DEF Reads, ModelExplanationService
    <3> QED BY <2>6, <3>1, <3>2
  <2>8. RestsOn("ablation", "metrics") /\ RestsOn("ablation", "calibration_metrics")
    <3>1. "ablation" \in Files /\ Place("ablation") = 15
      BY Literals DEF Place
    <3>2. {"metrics", "calibration_metrics"} \subseteq Reads(StepStage(15))
      BY StepStages DEF Reads, Ablation
    <3> QED BY <2>6, <3>1, <3>2
  <2>9. RestsOn("model_card", "metrics")
    <3>1. "model_card" \in Files /\ Place("model_card") = 17
      BY Literals DEF Place
    <3>2. "metrics" \in Reads(StepStage(17))
      BY StepStages DEF Reads, ModelCard
    <3> QED BY <2>6, <3>1, <3>2
  <2>10. \A reports \in SUBSET Files : HaveExpectedValues(reports)
    <3>1. \A f \in Files : files[f].of \subseteq StageNames \X {code}
      <4>1. files \in [Files -> Contents]
        BY <1>1 DEF PipelineInv, Typed
      <4> SUFFICES ASSUME NEW f \in Files, NEW x \in files[f].of
                   PROVE  x \in StageNames \X {code}
        OBVIOUS
      <4>2. files[f].of \in Lineages
        BY <4>1 DEF Contents
      <4>3. x \in StageNames \X Revisions
        BY <4>2 DEF Lineages
      <4>4. x[2] = code
        BY <2>1 DEF UpToDate, OfThisRevision
      <4> QED BY <4>3, <4>4
    <3> QED BY <1>1, <2>1, <3>1 DEF UpToDate, HaveExpectedValues
  <2>11. ModelReports \in SUBSET Files /\ SupportReports \in SUBSET Files
    BY Literals DEF ModelReports, SupportReports, HeldOutReports
  <2>12. validate_model_and_explanations
    BY <2>4, <2>5, <2>7, <2>10, <2>11 DEF validate_model_and_explanations
  <2>13. validate_support_ablation_and_model_card
    BY <2>4, <2>5, <2>8, <2>9, <2>10, <2>11 DEF validate_support_ablation_and_model_card
  <2> QED BY <2>3, <2>12, <2>13 DEF AcceptsArtifacts
<1> QED BY <1>1, PipelineInvariance, PTL DEF CompletedRunIsReleasable

\* The safety half of UndisturbedRunCompletes: whatever earlier runs left in
\* the tree, a pipeline that has it for itself is never stopped.
UndisturbedRunIsNotStopped == alone # Nobody => proc[alone].status # "failed"

\* No stage of such a pipeline misses an input or refuses it, and no manifest
\* fails to be made: what is left of UndisturbedRunCompletes is fairness.
THEOREM NotStopped == Spec => []UndisturbedRunIsNotStopped
<1>1. PipelineInv => UndisturbedRunIsNotStopped
  BY DEF PipelineInv, AloneOK, UndisturbedRunIsNotStopped
<1> QED BY <1>1, PipelineInvariance, PTL

\* While such a pipeline runs, the guard of one of its steps holds, and it is
\* not that of StageStops.
UndisturbedRunCanGoOn ==
    alone # Nobody /\ Running(alone) =>
        \/ AtStage(alone) /\ Readable(NextStage(alone))
        \/ proc[alone].left # <<>>
        \/ AtEnd(alone) /\ proc[alone].publishes /\ proc[alone].draft = NoManifest
              /\ ManifestPossible
        \/ Publishing(alone)

\* Such a pipeline never waits, for another process or for a file.
THEOREM CanGoOn == Spec => []UndisturbedRunCanGoOn
<1>1. ASSUME Typed, NEW p \in Procs, AloneOK(p), Running(p)
      PROVE  \/ AtStage(p) /\ Readable(NextStage(p))
             \/ proc[p].left # <<>>
             \/ AtEnd(p) /\ proc[p].publishes /\ proc[p].draft = NoManifest /\ ManifestPossible
             \/ Publishing(p)
  <2>1. /\ proc[p] \in Process /\ proc[p].plan = PIPELINE_STEPS /\ proc[p].publishes
        /\ proc[p].at \in 0 .. 17 /\ Len(proc[p].plan) = 17
    BY <1>1, RunningIsProcess, NextStep DEF AloneOK
  <2>2. CASE proc[p].at < 17 /\ proc[p].left = <<>>
    BY <1>1, <2>1, <2>2, AloneFindsInputs DEF AtStage
  <2>3. CASE proc[p].at = 17
    <3>1. \A f \in Files : files[f].state = "whole"
      BY <1>1, <2>1, <2>3, WrittenFiles, WrittenIsWhole
    <3>2. ManifestReads \subseteq Files /\ REQUIRED_OUTPUTS \subseteq Files
      BY Literals DEF ManifestReads, REQUIRED_OUTPUTS
    <3>3. ManifestPossible
      BY <3>1, <3>2 DEF ManifestPossible, OutputsExist
    <3> QED BY <1>1, <2>1, <2>3, <3>3 DEF AtEnd, Publishing
  <2>4. proc[p].at < 17 \/ proc[p].at = 17
    BY <2>1
  <2> QED BY <2>2, <2>3, <2>4
<1>2. PipelineInv => UndisturbedRunCanGoOn
  BY <1>1 DEF PipelineInv, Typed, UndisturbedRunCanGoOn
<1> QED BY <1>2, PipelineInvariance, PTL

\* A process that steps ends, or gets further: on to the next stage, into it,
\* to the next file of it, or to its manifest.
Advances(p) ==
    \/ proc'[p].status # "running"
    \/ proc'[p].at > proc[p].at
    \/ /\ proc'[p].at = proc[p].at
       /\ \/ proc[p].left = <<>> /\ proc'[p].left # <<>>
          \/ proc'[p].left # <<>> /\ Len(proc'[p].left) < Len(proc[p].left)
          \/ /\ proc'[p].left = proc[p].left
             /\ proc[p].draft = NoManifest /\ proc'[p].draft # NoManifest
EveryStepAdvances == [][\A p \in Procs : Step(p) => Advances(p)]_vars

\* Every stage makes something.
LEMMA NoEmptyStage == \A i \in Steps : StepStage(i).makes # <<>>
<1> SUFFICES ASSUME NEW i \in Steps PROVE StepStage(i).makes # <<>>
  OBVIOUS
<1>1. \A m : StepStage(i).makes = m => Range(m) = Made(StepStage(i))
  BY DEF Made
<1>2. Range(<<>>) = {}
  BY DEF Range
<1>3. i \in {1, 2, 3, 4, 5, 6, 7, 8, 9, 10, 11, 12, 13, 14, 15, 16, 17}
  BY DEF Steps
<1>4. Made(StepStage(i)) # {}
  BY <1>3, StepStages, MadeByStages
<1> QED BY <1>1, <1>2, <1>4

\* No process goes round in circles: every one takes a bounded number of steps.
THEOREM StepsAdvance == Spec => EveryStepAdvances
<1>1. ASSUME Typed, NEW p \in Procs, Step(p) PROVE Advances(p)
  <2>1. CASE BeginStage(p)
    <3>1. /\ proc[p] \in Process /\ proc[p].left = <<>> /\ proc[p].at < Len(proc[p].plan)
      BY <1>1, <2>1, RunningIsProcess DEF BeginStage, AtStage
    <3>2. NextStage(p).makes # <<>>
      BY <1>1, <3>1, NextIsStage, NoEmptyStage
    <3>3. proc'[p].at = proc[p].at /\ proc'[p].left = NextStage(p).makes
      BY <1>1, <2>1, <3>1 DEF BeginStage, Typed, Process
    <3> QED BY <3>1, <3>2, <3>3 DEF Advances
  <2>2. CASE WriteFile(p)
    <3>1. /\ proc[p] \in Process /\ proc[p].left # <<>> /\ proc[p].left \in Seq(Files)
          /\ proc[p].at \in Nat
      BY <1>1, <2>2, RunningIsProcess DEF WriteFile, Process
    <3>2. /\ proc'[p].at = IF Len(proc[p].left) = 1 THEN proc[p].at + 1 ELSE proc[p].at
          /\ proc'[p].left = Tail(proc[p].left)
      BY <1>1, <2>2, <3>1 DEF WriteFile, Typed, Process
    <3>3. /\ Tail(proc[p].left) \in Seq(Files)
          /\ Len(Tail(proc[p].left)) = Len(proc[p].left) - 1
          /\ Len(proc[p].left) \in Nat
      BY <3>1, HeadTailProperties
    <3>4. CASE Len(proc[p].left) = 1
      <4>1. proc'[p].at = proc[p].at + 1
        BY <3>2, <3>4
      <4> QED BY <3>1, <4>1 DEF Advances
    <3>5. CASE Len(proc[p].left) # 1
      <4>1. Len(proc[p].left) > 0
        BY <3>1
      <4>2. /\ Len(Tail(proc[p].left)) > 0
            /\ Len(Tail(proc[p].left)) < Len(proc[p].left)
        <5>1. \A m, n \in Nat : m = n - 1 /\ n # 1 /\ n > 0 => m > 0 /\ m < n
          OBVIOUS
        <5>2. Len(Tail(proc[p].left)) \in Nat
          BY <3>3
        <5> QED BY <3>3, <3>5, <4>1, <5>1, <5>2
      <4>3. Tail(proc[p].left) # <<>>
        BY <3>3, <4>2, NotEmpty
      <4> QED BY <3>2, <3>5, <4>2, <4>3 DEF Advances
    <3> QED BY <3>4, <3>5
  <2>3. CASE StageStops(p) \/ StageEnds(p) \/ Publish(p)
    <3>1. Running(p) /\ proc[p] \in Process
      BY <1>1, <2>3, RunningIsProcess
         DEF StageStops, StageEnds, Publish, AtStage, AtEnd, Publishing
    <3>2. proc'[p].status \in {"over", "failed"}
      BY <1>1, <2>3, <3>1 DEF StageStops, StageEnds, Publish, Finishes, Typed, Process
    <3> QED BY <3>2 DEF Advances
  <2>4. CASE BuildManifest(p)
    <3>1. proc[p] \in Process /\ proc[p].draft = NoManifest
      BY <1>1, <2>4, RunningIsProcess DEF BuildManifest, AtEnd
    <3>2. CASE ~ManifestPossible
      BY <1>1, <2>4, <3>1, <3>2 DEF BuildManifest, Finishes, Typed, Process, Advances
    <3>3. CASE ManifestPossible
      <4>1. /\ proc'[p].at = proc[p].at /\ proc'[p].left = proc[p].left
            /\ proc'[p].draft = Manifest(code, Inventory(files))
        BY <1>1, <2>4, <3>1, <3>3 DEF BuildManifest, Typed, Process
      <4>2. Manifest(code, Inventory(files)) # NoManifest
        BY DEF Manifest, NoManifest
      <4> QED BY <3>1, <4>1, <4>2 DEF Advances
    <3> QED BY <3>2, <3>3
  <2> QED BY <1>1, <2>1, <2>2, <2>3, <2>4 DEF Step
<1>2. Typed /\ [Next]_vars => [\A p \in Procs : Step(p) => Advances(p)]_vars
  BY <1>1
<1> QED BY <1>2, PipelineInvariance, PTL DEF Spec, EveryStepAdvances, PipelineInv
=============================================================================
