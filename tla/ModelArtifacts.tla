--------------------------- MODULE ModelArtifacts ---------------------------
(***************************************************************************)
(* From training data to served predictions: the trainer                   *)
(* (ml/training/train_xgboost_cicids2018.py) writes the files of a bundle  *)
(* one by one, the operator copies them to where the engine reads them,    *)
(* generate_artifact_checksums.py records digests, and the engine's two    *)
(* predictors each load the bundle at startup.  No step locks out another. *)
(***************************************************************************)
EXTENDS Integers, FiniteSets

CONSTANTS
    LabelSets,      \* the labels a training csv may contain (of rows that survive cleaning)
    MaxTrainings,   \* bound: trainings started
    NoFile, Torn    \* a file that does not exist; one whose write was cut off

ASSUME BoundAssumption == MaxTrainings \in Nat

Predictors == {"live", "completed"}
Pickles == {"model", "encoder"}
Copied == Pickles \cup {"columns"}      \* the metadata is copied too, and decides nothing
Archived == Copied \cup {"report", "metadata", "manifest"}

VARIABLES
    out,         \* the trainer's directory: file -> NoFile, Torn or the training that wrote it
    zip,         \* the archive: NoFile, Torn, or the files it holds
    trainer,     \* [pc, run, classes]: next step, number, labels the encoder knows
    bundle,      \* CICIDS_XGBOOSTER: file -> NoFile, Torn or a training; 0 is the shipped one
    sums,        \* the .sha256 file of each pickle: NoFile, Torn, or what it is the digest of
    generator,   \* the pickle generate_checksums comes to next, or "idle"
    engine,      \* "stopped", "loading", "serving", "died_loading" or "died_predicting"
    loader,      \* the load in progress: [predictor, step, model, encoder]
    served,      \* what each predictor ended up with: [enabled, model, encoder]
    quiet        \* history: no file of the bundle changed while the engine was starting

train_vars == <<out, zip, trainer>>
engine_vars == <<engine, loader, served>>
vars == <<train_vars, bundle, sums, generator, engine_vars, quiet>>

Nothing == [enabled |-> FALSE, model |-> NoFile, encoder |-> NoFile]
NoLoad == [predictor |-> "live", step |-> "files", model |-> NoFile, encoder |-> NoFile]

Init ==
    /\ out = [f \in Archived |-> NoFile] /\ zip = NoFile
    /\ trainer = [pc |-> "idle", run |-> 0, classes |-> {}]
    /\ bundle = [f \in Copied |-> 0]
    /\ sums = [f \in Pickles |-> 0]
    /\ generator = "idle"
    /\ engine = "stopped" /\ loader = NoLoad
    /\ served = [p \in Predictors |-> Nothing]
    /\ quiet = TRUE

-----------------------------------------------------------------------------
(* train_model reads the csv three times.  The tools of DatasetSplit may    *)
(* have removed or rewritten it in between, so each pass finds any of       *)
(* LabelSets or no file.                                                   *)

TrainerGoes(to) ==
    trainer' = [trainer EXCEPT !.pc = to, !.classes = IF to = "idle" THEN {} ELSE @]

\* The first pass counts the labels and fits the label encoder to them; without a file or a
\* valid row there is no training.
CountLabels(labels) ==
    /\ trainer.pc = "idle" /\ trainer.run < MaxTrainings /\ labels # {}
    /\ trainer' = [pc |-> "fit", run |-> trainer.run + 1, classes |-> labels]
    /\ UNCHANGED <<out, zip, bundle, sums, generator, engine_vars, quiet>>

\* A later pass encodes the rows as it reads them, chunk by chunk: a label the first pass did
\* not see, or a file that is gone, raises.
Encodable(found) == found # NoFile /\ found \subseteq trainer.classes

\* The second pass; without a row there is nothing to fit.  The temporary cache is removed
\* on every path.
Fit(found) ==
    /\ trainer.pc = "fit"
    /\ TrainerGoes(IF Encodable(found) /\ found # {} THEN "model" ELSE "idle")
    /\ UNCHANGED <<out, zip, bundle, sums, generator, engine_vars, quiet>>

\* The order in which the files of a training are written.
NextFile == [model |-> "encoder", encoder |-> "columns", columns |-> "report",
             report |-> "metadata", metadata |-> "manifest", manifest |-> "zip"]

WriteFile ==
    /\ trainer.pc \in Archived \ {"report"}
    /\ out' = [out EXCEPT ![trainer.pc] = trainer.run]
    /\ TrainerGoes(NextFile[trainer.pc])
    /\ UNCHANGED <<zip, bundle, sums, generator, engine_vars, quiet>>

\* The third pass predicts every row again to fill the confusion matrix: it ends in the
\* report of this training, or raises like the second.
ReportOf(found) == IF Encodable(found) THEN trainer.run ELSE NoFile

\* It comes when the first three files are already written.
WriteReport(found) ==
    /\ trainer.pc = "report"
    /\ IF ReportOf(found) # NoFile
       THEN out' = [out EXCEPT !["report"] = ReportOf(found)] /\ TrainerGoes(NextFile["report"])
       ELSE out' = out /\ TrainerGoes("idle")
    /\ UNCHANGED <<zip, bundle, sums, generator, engine_vars, quiet>>

\* --no-zip ends the run here.
SkipZip == trainer.pc = "zip" /\ TrainerGoes("idle")
           /\ UNCHANGED <<out, zip, bundle, sums, generator, engine_vars, quiet>>

WriteZip ==
    /\ trainer.pc = "zip"
    /\ zip' = out
    /\ TrainerGoes("idle")
    /\ UNCHANGED <<out, bundle, sums, generator, engine_vars, quiet>>

\* The process ends, possibly in the middle of the write it was in.
InterruptTraining ==
    /\ trainer.pc # "idle"
    /\ TrainerGoes("idle")
    /\ \/ UNCHANGED <<out, zip>>
       \/ trainer.pc \in Archived /\ out' = [out EXCEPT ![trainer.pc] = Torn] /\ zip' = zip
       \/ trainer.pc = "zip" /\ zip' = Torn /\ out' = out
    /\ UNCHANGED <<bundle, sums, generator, engine_vars, quiet>>

-----------------------------------------------------------------------------
(* The operator copies a file of the trainer's directory into the bundle.   *)
\* Every training writes the same feature columns, those of ml/features/schema.py.
ContentOf(f) == IF f = "columns" /\ out[f] # Torn THEN 0 ELSE out[f]
Disturb == quiet' = (quiet /\ engine # "loading")

Copy(f) ==
    /\ out[f] # NoFile /\ bundle[f] # ContentOf(f)
    /\ bundle' = [bundle EXCEPT ![f] = ContentOf(f)]
    /\ Disturb
    /\ UNCHANGED <<train_vars, sums, generator, engine_vars>>

-----------------------------------------------------------------------------
(* generate_checksums: pickles in the order of their names.                *)

StartGenerate ==
    /\ generator = "idle" /\ generator' = "encoder"
    /\ UNCHANGED <<train_vars, bundle, sums, engine_vars, quiet>>

\* Mutant: the walk does not end.
NextPickleEndlessMutant == IF generator = "encoder" THEN "model" ELSE "columns"
\* The next name to come to.
NextPickle == IF generator = "encoder" THEN "model" ELSE "idle"

WriteChecksum ==
    /\ generator # "idle"
    /\ sums' = IF bundle[generator] = NoFile THEN sums
               ELSE [sums EXCEPT ![generator] = bundle[generator]]
    /\ generator' = NextPickle
    /\ Disturb
    /\ UNCHANGED <<train_vars, bundle, engine_vars>>

InterruptGenerate ==
    /\ generator # "idle" /\ generator' = "idle"
    /\ \/ sums' = sums
       \/ bundle[generator] # NoFile /\ sums' = [sums EXCEPT ![generator] = Torn]
    /\ Disturb
    /\ UNCHANGED <<train_vars, bundle, engine_vars>>

-----------------------------------------------------------------------------
(* The engine: LivePredictor, then CompletedFlowPredictor, each with a     *)
(* RuntimeModelBundle of its own over the same files.                      *)

Start ==
    /\ engine \in {"stopped", "died_loading", "died_predicting"}
    /\ engine' = "loading" /\ loader' = NoLoad
    /\ served' = [p \in Predictors |-> Nothing]
    /\ quiet' = TRUE
    /\ UNCHANGED <<train_vars, bundle, sums, generator>>

\* The next load, or the end of the constructor of PacketProcessor.
Loaded(result) ==
    /\ served' = [served EXCEPT ![loader.predictor] = result]
    /\ IF loader.predictor = "live"
       THEN loader' = [NoLoad EXCEPT !.predictor = "completed"] /\ engine' = engine
       ELSE loader' = NoLoad /\ engine' = "serving"

\* RuntimeArtifactError: the predictor stays disabled.
Rejected == Loaded(Nothing)

Continue(next) == loader' = next /\ UNCHANGED <<engine, served>>
At(step) == engine = "loading" /\ loader.step = step
Untouched == UNCHANGED <<train_vars, bundle, sums, generator, quiet>>

\* json.load of a file that was cut off raises JSONDecodeError, a ValueError and not the
\* RuntimeArtifactError that RuntimeModelBundle catches: the engine's startup ends.
CheckFiles ==
    /\ At("files")
    /\ IF \E f \in Copied : bundle[f] = NoFile THEN Rejected
       ELSE IF bundle["columns"] = Torn THEN engine' = "died_loading" /\ UNCHANGED <<loader, served>>
       ELSE Continue([loader EXCEPT !.step = "verify_model"])
    /\ Untouched

\* Mutant: both pickles are compared with the digest of the encoder.
MatchesEncoderMutant(pickle) ==
    sums["encoder"] \notin {NoFile, Torn} /\ sums["encoder"] = bundle[pickle]
Matches(pickle) == sums[pickle] \notin {NoFile, Torn} /\ sums[pickle] = bundle[pickle]

\* Mutant: the second predictor takes the model for verified.
VerifyModelOnceMutant ==
    /\ At("verify_model")
    /\ IF Matches("model") \/ loader.predictor = "completed"
       THEN Continue([loader EXCEPT !.step = "verify_encoder"]) ELSE Rejected
    /\ Untouched
VerifyModel ==
    /\ At("verify_model")
    /\ IF Matches("model") THEN Continue([loader EXCEPT !.step = "verify_encoder"]) ELSE Rejected
    /\ Untouched

\* Mutant: only the model is verified.
VerifyEncoderSkippedMutant ==
    /\ At("verify_encoder")
    /\ Continue([loader EXCEPT !.step = "load_model"])
    /\ Untouched
VerifyEncoder ==
    /\ At("verify_encoder")
    /\ IF Matches("encoder") THEN Continue([loader EXCEPT !.step = "load_model"]) ELSE Rejected
    /\ Untouched

\* The pickles are opened again, after both were verified.
LoadModel ==
    /\ At("load_model")
    /\ IF bundle["model"] \in {NoFile, Torn} THEN Rejected
       ELSE Continue([loader EXCEPT !.step = "load_encoder", !.model = bundle["model"]])
    /\ Untouched

\* The metadata is read too, but nothing about it can fail the load.
LoadEncoder ==
    /\ At("load_encoder")
    /\ IF bundle["encoder"] \in {NoFile, Torn} THEN Rejected
       ELSE Loaded([enabled |-> TRUE, model |-> loader.model, encoder |-> bundle["encoder"]])
    /\ Untouched

\* What the trainer pickles is a Booster, whose predict takes a DMatrix; the runtime hands it
\* a data frame.  The shipped model takes one.
TakesFrames(model) == model = 0

\* predict_primary_and_submit_secondary, called by the packet consumer without a guard.
Predict(p) ==
    /\ engine = "serving" /\ served[p].enabled
    /\ engine' = IF TakesFrames(served[p].model) THEN engine ELSE "died_predicting"
    /\ UNCHANGED <<train_vars, bundle, sums, generator, loader, served, quiet>>

Stop ==
    /\ engine = "serving" /\ engine' = "stopped"
    /\ served' = [p \in Predictors |-> Nothing]
    /\ UNCHANGED <<train_vars, bundle, sums, generator, loader, quiet>>

Train == \/ \E labels \in LabelSets : CountLabels(labels)
         \/ \E found \in LabelSets \cup {NoFile} : Fit(found) \/ WriteReport(found)
         \/ WriteFile \/ WriteZip \/ SkipZip \/ InterruptTraining
Generate == StartGenerate \/ WriteChecksum \/ InterruptGenerate
Load == CheckFiles \/ VerifyModel \/ VerifyEncoder \/ LoadModel \/ LoadEncoder
Engine == Start \/ Load \/ (\E p \in Predictors : Predict(p)) \/ Stop

Next == Train \/ (\E f \in Copied : Copy(f)) \/ Generate \/ Engine

Spec == Init /\ [][Next]_vars

-----------------------------------------------------------------------------
(* Properties                                                              *)

Content == {NoFile, Torn} \cup 0..MaxTrainings

\* The types of the variables.
TypeOK ==
    /\ out \in [Archived -> Content] /\ bundle \in [Copied -> Content]
    /\ sums \in [Pickles -> Content]
    /\ trainer.run \in 0..MaxTrainings
    /\ trainer.pc \in {"idle", "fit", "zip"} \cup Archived
    /\ generator \in Pickles \cup {"idle"}
    /\ engine \in {"stopped", "loading", "serving", "died_loading", "died_predicting"}
    /\ served \in [Predictors -> [enabled : BOOLEAN, model : Content, encoder : Content]]

\* An archive that was closed holds the six files of one training, also after trainings that
\* raised at the report or were cut off anywhere.
ZipIsOneTraining ==
    zip \notin {NoFile, Torn} => \E run \in 1..MaxTrainings : \A f \in Archived : zip[f] = run

\* Without changes to the bundle during startup, a model is never served with the label
\* encoder of another training, whatever was copied, unless the digests were themselves
\* recorded for files of two trainings: verification covers both halves of the pair.
ServesOnePair ==
    [][\A p \in Predictors :
        (served'[p].enabled /\ ~served[p].enabled /\ quiet) =>
            \/ served'[p].model = served'[p].encoder
            \/ sums["model"] # sums["encoder"]]_vars

\* Without changes to the bundle during startup, both predictors come to the same result, so
\* live and completed flows are judged by the same model or by none.
PredictorsAgree ==
    (engine = "serving" /\ quiet) => served["live"] = served["completed"]

\* What is used together was made together: the files of an archive, the two predictors.
ArtifactsAgree == ZipIsOneTraining /\ PredictorsAgree

\* A predictor is disabled only for a reason: with a bundle that is complete and matches its
\* digests throughout startup, it is enabled.
GoodBundleServed ==
    [][\A p \in Predictors :
        LET finished == engine = "loading" /\ loader.predictor = p
                        /\ (loader'.predictor # p \/ engine' = "serving")
            good == \A f \in Pickles : bundle[f] \notin {NoFile, Torn} /\ sums[f] = bundle[f]
        IN  (finished /\ quiet /\ good /\ bundle["columns"] # NoFile) => served'[p].enabled]_vars

=============================================================================
