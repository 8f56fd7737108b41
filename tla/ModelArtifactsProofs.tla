------------------------ MODULE ModelArtifactsProofs ------------------------
(***************************************************************************)
(* What holds of bundles, archives and loads for every number of trainings *)
(* and every content of the training data.                                 *)
(***************************************************************************)
EXTENDS ModelArtifacts, TLAPS

Loads == {"files", "verify_model", "verify_encoder", "load_model", "load_encoder"}

Typed ==
    /\ TypeOK
    /\ trainer \in [pc : {"idle", "fit", "zip"} \cup Archived, run : 0..MaxTrainings,
                    classes : LabelSets \cup {{}}]
    /\ trainer.pc # "idle" => trainer.run # 0
    /\ loader \in [predictor : Predictors, step : Loads, model : Content, encoder : Content]

\* The place of a file in the order of the writes.
Place == [model |-> 1, encoder |-> 2, columns |-> 3, report |-> 4, metadata |-> 5, manifest |-> 6,
          zip |-> 7]

\* The trainer has written every file before the one it comes to.
Writing ==
    trainer.pc \in DOMAIN Place =>
        \A f \in Archived : Place[f] < Place[trainer.pc] => out[f] = trainer.run

\* What a load will end with, if the bundle stays as it is and no file of it is torn.
Outcome ==
    IF (\A f \in Copied : bundle[f] # NoFile) /\ Matches("model") /\ Matches("encoder")
    THEN [enabled |-> TRUE, model |-> bundle["model"], encoder |-> bundle["encoder"]]
    ELSE Nothing

\* While nothing disturbs the startup, each step of a load has found what the next one
\* relies on, and the second predictor will find what the first one found.
Loading ==
    engine = "loading" =>
        /\ served["completed"] = Nothing
        /\ loader.predictor = "live" => served["live"] = Nothing
        /\ quiet =>
            /\ loader.predictor = "completed" => served["live"] = Outcome
            /\ loader.step # "files" => \A f \in Copied : bundle[f] # NoFile
            /\ loader.step \in {"verify_encoder", "load_model", "load_encoder"} => Matches("model")
            /\ loader.step \in {"load_model", "load_encoder"} => Matches("encoder")
            /\ loader.step = "load_encoder" => loader.model = bundle["model"]

IInv == Typed /\ Writing /\ ZipIsOneTraining /\ Loading /\ PredictorsAgree

-----------------------------------------------------------------------------
LEMMA ContentKinds == {NoFile, Torn, 0} \subseteq Content
BY BoundAssumption DEF Content

LEMMA InitIInv == Init => IInv
<1> SUFFICES ASSUME Init PROVE IInv OBVIOUS
<1>1. Nothing \in [enabled : BOOLEAN, model : Content, encoder : Content]
      BY ContentKinds DEF Nothing
<1>2. loader \in [predictor : Predictors, step : Loads, model : Content, encoder : Content]
      BY ContentKinds DEF Init, NoLoad, Predictors, Loads
<1>3. /\ out \in [Archived -> Content] /\ bundle \in [Copied -> Content] /\ sums \in [Pickles -> Content]
      BY ContentKinds DEF Init
<1>4. trainer \in [pc : {"idle", "fit", "zip"} \cup Archived, run : 0..MaxTrainings,
                   classes : LabelSets \cup {{}}]
      BY BoundAssumption DEF Init
<1>5. served \in [Predictors -> [enabled : BOOLEAN, model : Content, encoder : Content]]
      BY <1>1 DEF Init
<1>6. TypeOK BY <1>3, <1>4, <1>5 DEF Init, TypeOK
<1>7. Typed BY <1>2, <1>4, <1>6 DEF Init, Typed
<1>8. Writing BY DEF Init, Writing, Place
<1>9. ZipIsOneTraining /\ Loading /\ PredictorsAgree
      BY DEF Init, ZipIsOneTraining, Loading, PredictorsAgree
<1> QED BY <1>7, <1>8, <1>9 DEF IInv

\* Steps of the trainer and of the checksum walk that the engine does not see.
LEMMA EngineStill ==
    ASSUME IInv, UNCHANGED <<bundle, sums, engine, loader, served, quiet>>
    PROVE  Loading' /\ PredictorsAgree'
BY DEF IInv, Loading, PredictorsAgree, Outcome, Matches

\* A file of the bundle changes: a startup in progress is no longer quiet.
LEMMA DisturbedEngine ==
    ASSUME IInv, Disturb, UNCHANGED <<engine, loader, served>>
    PROVE  Loading' /\ PredictorsAgree'
BY DEF IInv, Loading, PredictorsAgree, Disturb

\* Steps that leave the trainer and its files alone.
LEMMA TrainerStill ==
    ASSUME IInv, UNCHANGED <<out, zip, trainer>>
    PROVE  Writing' /\ ZipIsOneTraining'
BY DEF IInv, Writing, ZipIsOneTraining

-----------------------------------------------------------------------------
\* The trainer comes to its next step.
LEMMA Goes ==
    ASSUME IInv, NEW to \in {"idle", "fit", "zip"} \cup Archived, TrainerGoes(to), trainer.pc # "idle"
    PROVE  /\ trainer' \in [pc : {"idle", "fit", "zip"} \cup Archived, run : 0..MaxTrainings,
                            classes : LabelSets \cup {{}}]
           /\ trainer'.pc = to /\ trainer'.run = trainer.run
           /\ trainer'.pc # "idle" => trainer'.run # 0
BY DEF IInv, Typed, TrainerGoes

LEMMA TypedAfterTraining ==
    ASSUME IInv, UNCHANGED <<bundle, sums, generator, engine, loader, served, quiet>>,
           out' \in [Archived -> Content],
           trainer' \in [pc : {"idle", "fit", "zip"} \cup Archived, run : 0..MaxTrainings,
                         classes : LabelSets \cup {{}}],
           trainer'.pc # "idle" => trainer'.run # 0
    PROVE  Typed'
BY DEF IInv, Typed, TypeOK

LEMMA CountLabelsStep ==
    ASSUME IInv, NEW labels \in LabelSets, CountLabels(labels)
    PROVE  IInv'
<1>1. /\ trainer.run < MaxTrainings
      /\ trainer' = [pc |-> "fit", run |-> trainer.run + 1, classes |-> labels]
      /\ UNCHANGED <<out, zip, bundle, sums, generator, engine, loader, served, quiet>>
      BY DEF CountLabels, engine_vars
<1>2. trainer.run \in Nat /\ trainer.run + 1 \in 0..MaxTrainings
      BY <1>1, BoundAssumption DEF IInv, Typed
<1>3. /\ trainer' \in [pc : {"idle", "fit", "zip"} \cup Archived, run : 0..MaxTrainings,
                       classes : LabelSets \cup {{}}]
      /\ trainer'.run # 0
      BY <1>1, <1>2
<1>4. Typed' BY <1>1, <1>3, TypedAfterTraining DEF IInv, Typed, TypeOK
<1>5. Writing' BY <1>1 DEF Writing, Place
<1>6. ZipIsOneTraining' BY <1>1 DEF IInv, ZipIsOneTraining
<1>7. Loading' /\ PredictorsAgree' BY <1>1, EngineStill
<1> QED BY <1>4, <1>5, <1>6, <1>7 DEF IInv

\* A training that ends where it is, or goes from its first to its second pass.
LEMMA LeaveTraining ==
    ASSUME IInv, trainer.pc # "idle", NEW to \in {"idle", "model"}, TrainerGoes(to),
           UNCHANGED <<bundle, sums, generator, engine, loader, served, quiet>>,
           out' \in [Archived -> Content], zip' \in {zip, Torn}
    PROVE  IInv'
<1>1. /\ trainer' \in [pc : {"idle", "fit", "zip"} \cup Archived, run : 0..MaxTrainings,
                       classes : LabelSets \cup {{}}]
      /\ trainer'.pc = to
      /\ trainer'.pc # "idle" => trainer'.run # 0
      BY Goes DEF Archived, Copied, Pickles
<1>2. Typed' BY <1>1, TypedAfterTraining
<1>3. Writing' BY <1>1 DEF Writing, Place, Archived, Copied, Pickles
<1>4. ZipIsOneTraining' BY DEF IInv, ZipIsOneTraining
<1>5. Loading' /\ PredictorsAgree' BY EngineStill
<1> QED BY <1>2, <1>3, <1>4, <1>5 DEF IInv

\* A file is written and the trainer comes to the next.
LEMMA Wrote ==
    ASSUME IInv, trainer.pc \in Archived, out' = [out EXCEPT ![trainer.pc] = trainer.run],
           TrainerGoes(NextFile[trainer.pc]),
           UNCHANGED <<zip, bundle, sums, generator, engine, loader, served, quiet>>
    PROVE  IInv'
<1>1. Archived = {"model", "encoder", "columns", "report", "metadata", "manifest"}
      BY DEF Archived, Copied, Pickles
<1>2. NextFile[trainer.pc] \in {"idle", "fit", "zip"} \cup Archived BY <1>1 DEF NextFile
<1>3. /\ trainer' \in [pc : {"idle", "fit", "zip"} \cup Archived, run : 0..MaxTrainings,
                       classes : LabelSets \cup {{}}]
      /\ trainer'.pc = NextFile[trainer.pc] /\ trainer'.run = trainer.run
      /\ trainer'.pc # "idle" => trainer'.run # 0
      BY <1>1, <1>2, Goes
<1>4. out' \in [Archived -> Content]
  <2>1. trainer.run \in Content BY DEF IInv, Typed, Content
  <2> QED BY <2>1 DEF IInv, Typed, TypeOK
<1>5. Typed' BY <1>3, <1>4, TypedAfterTraining
<1>6. Writing'
  <2>1. /\ out'[trainer.pc] = trainer.run
        /\ \A f \in Archived \ {trainer.pc} : out'[f] = out[f]
        BY DEF IInv, Typed, TypeOK
  <2>2. \A f \in Archived : Place[f] < Place[NextFile[trainer.pc]] => f = trainer.pc \/ Place[f] < Place[trainer.pc]
        BY <1>1 DEF Place, NextFile
  <2>3. trainer.pc \in DOMAIN Place BY <1>1 DEF Place
  <2> QED BY <1>3, <2>1, <2>2, <2>3 DEF IInv, Writing
<1>7. ZipIsOneTraining' BY DEF IInv, ZipIsOneTraining
<1>8. Loading' /\ PredictorsAgree' BY EngineStill
<1> QED BY <1>5, <1>6, <1>7, <1>8 DEF IInv

LEMMA TrainSteps == ASSUME IInv, Train PROVE IInv'
<1> USE DEF engine_vars
<1>1. out \in [Archived -> Content] /\ Torn \in Content BY ContentKinds DEF IInv, Typed, TypeOK
<1>2. Archived = {"model", "encoder", "columns", "report", "metadata", "manifest"}
      BY DEF Archived, Copied, Pickles
<1>3. ASSUME NEW found \in LabelSets \cup {NoFile}, Fit(found) PROVE IInv'
      BY <1>1, <1>3, LeaveTraining DEF Fit
<1>4. ASSUME NEW found \in LabelSets \cup {NoFile}, WriteReport(found) PROVE IInv'
  <2>1. CASE ReportOf(found) # NoFile
    <3>1. ReportOf(found) = trainer.run BY <2>1 DEF ReportOf
    <3> QED BY <1>2, <1>4, <2>1, <3>1, Wrote DEF WriteReport
  <2>2. CASE ReportOf(found) = NoFile BY <1>1, <1>4, <2>2, LeaveTraining DEF WriteReport
  <2> QED BY <2>1, <2>2
<1>5. CASE WriteFile BY <1>5, Wrote DEF WriteFile
<1>6. CASE WriteZip
  <2>1. /\ trainer.pc = "zip" /\ zip' = out /\ TrainerGoes("idle")
        /\ UNCHANGED <<out, bundle, sums, generator, engine, loader, served, quiet>>
        BY <1>6 DEF WriteZip
  <2>2. /\ trainer' \in [pc : {"idle", "fit", "zip"} \cup Archived, run : 0..MaxTrainings,
                         classes : LabelSets \cup {{}}]
        /\ trainer'.pc = "idle"
        BY <2>1, Goes
  <2>3. \A f \in Archived : out[f] = trainer.run
    <3>1. "zip" \in DOMAIN Place /\ \A f \in Archived : Place[f] < Place["zip"] BY <1>2 DEF Place
    <3> QED BY <2>1, <3>1 DEF IInv, Writing
  <2>4. trainer.run \in 1..MaxTrainings BY <2>1, BoundAssumption DEF IInv, Typed
  <2>5. ZipIsOneTraining' BY <2>1, <2>3, <2>4 DEF ZipIsOneTraining
  <2>6. Writing' BY <2>2 DEF Writing, Place
  <2>7. Typed' BY <1>1, <2>1, <2>2, TypedAfterTraining
  <2>8. Loading' /\ PredictorsAgree' BY <2>1, EngineStill
  <2> QED BY <2>5, <2>6, <2>7, <2>8 DEF IInv
<1>7. CASE SkipZip BY <1>1, <1>7, LeaveTraining DEF SkipZip
<1>8. CASE InterruptTraining
  <2>1. out' \in [Archived -> Content] /\ zip' \in {zip, Torn}
        BY <1>1, <1>8 DEF InterruptTraining
  <2> QED BY <1>8, <2>1, LeaveTraining DEF InterruptTraining
<1> QED BY <1>3, <1>4, <1>5, <1>6, <1>7, <1>8, CountLabelsStep DEF Train

-----------------------------------------------------------------------------
LEMMA BundleSteps == ASSUME IInv, (\E f \in Copied : Copy(f)) \/ Generate PROVE IInv'
<1> USE DEF train_vars, engine_vars
<1>1. Copied \subseteq Archived /\ Pickles \subseteq Copied BY DEF Copied, Archived
<1>2. /\ out \in [Archived -> Content] /\ bundle \in [Copied -> Content]
      /\ sums \in [Pickles -> Content] /\ Torn \in Content
      BY ContentKinds DEF IInv, Typed, TypeOK
<1>3. ASSUME NEW f \in Copied, Copy(f) PROVE IInv'
  <2>1. ContentOf(f) \in Content BY <1>1, <1>2, ContentKinds DEF ContentOf
  <2>2. bundle' \in [Copied -> Content] BY <1>2, <1>3, <2>1 DEF Copy
  <2>3. Typed' BY <1>3, <2>2 DEF Copy, IInv, Typed, TypeOK
  <2>4. Writing' /\ ZipIsOneTraining' BY <1>3, TrainerStill DEF Copy
  <2>5. Loading' /\ PredictorsAgree' BY <1>3, DisturbedEngine DEF Copy
  <2> QED BY <2>3, <2>4, <2>5 DEF IInv
<1>4. CASE StartGenerate
  <2>1. Typed' BY <1>4 DEF StartGenerate, IInv, Typed, TypeOK, Pickles
  <2>2. Writing' /\ ZipIsOneTraining' BY <1>4, TrainerStill DEF StartGenerate
  <2>3. Loading' /\ PredictorsAgree' BY <1>4, EngineStill DEF StartGenerate
  <2> QED BY <2>1, <2>2, <2>3 DEF IInv
<1>5. CASE WriteChecksum \/ InterruptGenerate
  <2>1. /\ generator \in Pickles /\ generator' \in Pickles \cup {"idle"}
        /\ UNCHANGED <<out, zip, trainer, bundle, engine, loader, served>> /\ Disturb
        BY <1>5 DEF WriteChecksum, InterruptGenerate, NextPickle, Pickles, IInv, Typed, TypeOK
  <2>2. sums' \in [Pickles -> Content]
    <3>1. bundle[generator] \in Content BY <1>1, <1>2, <2>1
    <3>2. sums' \in {sums, [sums EXCEPT ![generator] = bundle[generator]],
                     [sums EXCEPT ![generator] = Torn]}
          BY <1>5 DEF WriteChecksum, InterruptGenerate
    <3> QED BY <1>2, <2>1, <3>1, <3>2
  <2>3. Typed' BY <2>1, <2>2 DEF IInv, Typed, TypeOK
  <2>4. Writing' /\ ZipIsOneTraining' BY <2>1, TrainerStill
  <2>5. Loading' /\ PredictorsAgree' BY <2>1, DisturbedEngine
  <2> QED BY <2>3, <2>4, <2>5 DEF IInv
<1> QED BY <1>3, <1>4, <1>5 DEF Generate

-----------------------------------------------------------------------------
LEMMA StillFiles ==
    ASSUME IInv, Untouched,
           loader' \in [predictor : Predictors, step : Loads, model : Content, encoder : Content],
           engine' \in {"stopped", "loading", "serving", "died_loading", "died_predicting"},
           served' \in [Predictors -> [enabled : BOOLEAN, model : Content, encoder : Content]]
    PROVE  /\ Typed' /\ Writing' /\ ZipIsOneTraining' /\ Outcome' = Outcome
           /\ \A pickle \in Pickles : Matches(pickle)' = Matches(pickle)
<1>1. UNCHANGED <<out, zip, trainer, bundle, sums, generator, quiet>>
      BY DEF Untouched, train_vars
<1>2. Typed' BY <1>1 DEF IInv, Typed, TypeOK
<1>3. Writing' /\ ZipIsOneTraining' BY <1>1, TrainerStill
<1>4. Outcome' = Outcome /\ \A pickle \in Pickles : Matches(pickle)' = Matches(pickle)
      BY <1>1 DEF Outcome, Matches
<1> QED BY <1>2, <1>3, <1>4

\* The end of a load, with what the bundle allows.
LEMMA LoadedStep ==
    ASSUME IInv, engine = "loading", Untouched,
           NEW result \in [enabled : BOOLEAN, model : Content, encoder : Content],
           Loaded(result), quiet => result = Outcome
    PROVE  IInv'
<1>1. /\ loader \in [predictor : Predictors, step : Loads, model : Content, encoder : Content]
      /\ served \in [Predictors -> [enabled : BOOLEAN, model : Content, encoder : Content]]
      BY DEF IInv, Typed, TypeOK
<1>2. /\ NoLoad \in [predictor : Predictors, step : Loads, model : Content, encoder : Content]
      /\ NoLoad.step = "files" /\ NoLoad.predictor = "live"
      BY ContentKinds DEF NoLoad, Predictors, Loads
<1>3. served' = [served EXCEPT ![loader.predictor] = result] BY DEF Loaded
<1>4. served' \in [Predictors -> [enabled : BOOLEAN, model : Content, encoder : Content]]
      BY <1>1, <1>3
<1>5. UNCHANGED quiet BY DEF Untouched
<1>6. CASE loader.predictor = "live"
  <2>1. loader' = [NoLoad EXCEPT !.predictor = "completed"] /\ engine' = engine
        BY <1>6 DEF Loaded
  <2>2. /\ loader' \in [predictor : Predictors, step : Loads, model : Content, encoder : Content]
        /\ loader'.step = "files" /\ loader'.predictor = "completed"
        BY <1>2, <2>1 DEF Predictors
  <2>3. /\ Typed' /\ Writing' /\ ZipIsOneTraining' /\ Outcome' = Outcome
        BY <1>4, <2>1, <2>2, StillFiles
  <2>4. served'["live"] = result /\ served'["completed"] = Nothing
        BY <1>1, <1>3, <1>6 DEF IInv, Loading, Predictors
  <2>5. Loading' BY <1>5, <2>2, <2>3, <2>4 DEF Loading
  <2>6. PredictorsAgree' BY <2>1 DEF PredictorsAgree
  <2> QED BY <2>3, <2>5, <2>6 DEF IInv
<1>7. CASE loader.predictor = "completed"
  <2>1. loader' = NoLoad /\ engine' = "serving" BY <1>7 DEF Loaded
  <2>2. Typed' /\ Writing' /\ ZipIsOneTraining' BY <1>2, <1>4, <2>1, StillFiles
  <2>3. served'["completed"] = result /\ served'["live"] = served["live"]
        BY <1>1, <1>3, <1>7 DEF Predictors
  <2>4. quiet => served["live"] = Outcome BY <1>7 DEF IInv, Loading
  <2>5. Loading' BY <2>1 DEF Loading
  <2>6. PredictorsAgree' BY <1>5, <2>3, <2>4 DEF PredictorsAgree
  <2> QED BY <2>2, <2>5, <2>6 DEF IInv
<1> QED BY <1>1, <1>6, <1>7 DEF Predictors

\* The next step of a load, when it has found what the invariant asks of it.
LEMMA ContinueStep ==
    ASSUME IInv, engine = "loading", Untouched, NEW next, Continue(next),
           next \in [predictor : Predictors, step : Loads, model : Content, encoder : Content],
           next.predictor = loader.predictor, next.step # "files",
           quiet => /\ \A f \in Copied : bundle[f] # NoFile
                    /\ next.step \in {"verify_encoder", "load_model", "load_encoder"} => Matches("model")
                    /\ next.step \in {"load_model", "load_encoder"} => Matches("encoder")
                    /\ next.step = "load_encoder" => next.model = bundle["model"]
    PROVE  IInv'
<1>1. loader' = next /\ UNCHANGED <<engine, served, bundle, quiet>> BY DEF Continue, Untouched
<1>2. /\ Typed' /\ Writing' /\ ZipIsOneTraining' /\ Outcome' = Outcome
      /\ \A pickle \in Pickles : Matches(pickle)' = Matches(pickle)
      BY <1>1, StillFiles DEF IInv, Typed, TypeOK
<1>3. Matches("model")' = Matches("model") /\ Matches("encoder")' = Matches("encoder")
      BY <1>2 DEF Pickles
<1>4. Loading' BY <1>1, <1>2, <1>3 DEF IInv, Loading
<1>5. PredictorsAgree' BY <1>1 DEF PredictorsAgree
<1> QED BY <1>2, <1>4, <1>5 DEF IInv

\* A load is rejected only when the bundle, left as it is, does not allow it.
LEMMA RejectedStep ==
    ASSUME IInv, engine = "loading", Untouched, Rejected, quiet => Outcome = Nothing
    PROVE  IInv'
<1>1. Nothing \in [enabled : BOOLEAN, model : Content, encoder : Content]
      BY ContentKinds DEF Nothing
<1> QED BY <1>1, LoadedStep DEF Rejected

LEMMA LoadSteps == ASSUME IInv, Load PROVE IInv'
<1>1. /\ loader \in [predictor : Predictors, step : Loads, model : Content, encoder : Content]
      /\ bundle \in [Copied -> Content]
      /\ {"model", "encoder"} \subseteq Copied
      BY DEF IInv, Typed, TypeOK, Copied, Pickles
<1>2. CASE CheckFiles
  <2>1. At("files") /\ Untouched /\ engine = "loading" BY <1>2 DEF CheckFiles, At
  <2>2. CASE \E f \in Copied : bundle[f] = NoFile
        BY <1>2, <2>1, <2>2, RejectedStep DEF CheckFiles, Outcome
  <2>3. CASE ~(\E f \in Copied : bundle[f] = NoFile) /\ bundle["columns"] = Torn
    <3>1. engine' = "died_loading" /\ UNCHANGED <<loader, served>> BY <1>2, <2>3 DEF CheckFiles
    <3>2. Typed' /\ Writing' /\ ZipIsOneTraining'
          BY <2>1, <3>1, StillFiles DEF IInv, Typed, TypeOK
    <3>3. Loading' /\ PredictorsAgree' BY <3>1 DEF Loading, PredictorsAgree
    <3> QED BY <3>2, <3>3 DEF IInv
  <2>4. CASE ~(\E f \in Copied : bundle[f] = NoFile) /\ bundle["columns"] # Torn
    <3> DEFINE next == [loader EXCEPT !.step = "verify_model"]
    <3>1. Continue(next) BY <1>2, <2>4 DEF CheckFiles
    <3>2. /\ next \in [predictor : Predictors, step : Loads, model : Content, encoder : Content]
          /\ next.predictor = loader.predictor /\ next.step = "verify_model"
          BY <1>1 DEF Loads
    <3> HIDE DEF next
    <3> QED BY <2>1, <2>4, <3>1, <3>2, ContinueStep
  <2> QED BY <2>2, <2>3, <2>4
<1>3. CASE VerifyModel
  <2>1. loader.step = "verify_model" /\ Untouched /\ engine = "loading" BY <1>3 DEF VerifyModel, At
  <2>2. CASE ~Matches("model") BY <1>3, <2>1, <2>2, RejectedStep DEF VerifyModel, Outcome
  <2>3. CASE Matches("model")
    <3> DEFINE next == [loader EXCEPT !.step = "verify_encoder"]
    <3>1. Continue(next) BY <1>3, <2>3 DEF VerifyModel
    <3>2. /\ next \in [predictor : Predictors, step : Loads, model : Content, encoder : Content]
          /\ next.predictor = loader.predictor /\ next.step = "verify_encoder"
          BY <1>1 DEF Loads
    <3>3. quiet => \A f \in Copied : bundle[f] # NoFile BY <2>1 DEF IInv, Loading
    <3> HIDE DEF next
    <3> QED BY <2>1, <2>3, <3>1, <3>2, <3>3, ContinueStep
  <2> QED BY <2>2, <2>3
<1>4. CASE VerifyEncoder
  <2>1. loader.step = "verify_encoder" /\ Untouched /\ engine = "loading" BY <1>4 DEF VerifyEncoder, At
  <2>2. CASE ~Matches("encoder") BY <1>4, <2>1, <2>2, RejectedStep DEF VerifyEncoder, Outcome
  <2>3. CASE Matches("encoder")
    <3> DEFINE next == [loader EXCEPT !.step = "load_model"]
    <3>1. Continue(next) BY <1>4, <2>3 DEF VerifyEncoder
    <3>2. /\ next \in [predictor : Predictors, step : Loads, model : Content, encoder : Content]
          /\ next.predictor = loader.predictor /\ next.step = "load_model"
          BY <1>1 DEF Loads
    <3>3. quiet => (\A f \in Copied : bundle[f] # NoFile) /\ Matches("model")
          BY <2>1 DEF IInv, Loading
    <3> HIDE DEF next
    <3> QED BY <2>1, <2>3, <3>1, <3>2, <3>3, ContinueStep
  <2> QED BY <2>2, <2>3
<1>5. CASE LoadModel
  <2>1. loader.step = "load_model" /\ Untouched /\ engine = "loading" BY <1>5 DEF LoadModel, At
  <2>2. quiet => /\ \A f \in Copied : bundle[f] # NoFile
                 /\ Matches("model") /\ Matches("encoder")
        BY <2>1 DEF IInv, Loading
  <2>3. quiet => bundle["model"] \notin {NoFile, Torn} BY <2>2 DEF Matches
  <2>4. CASE bundle["model"] \in {NoFile, Torn} BY <1>5, <2>1, <2>3, <2>4, RejectedStep DEF LoadModel
  <2>5. CASE bundle["model"] \notin {NoFile, Torn}
    <3> DEFINE next == [loader EXCEPT !.step = "load_encoder", !.model = bundle["model"]]
    <3>1. Continue(next) BY <1>5, <2>5 DEF LoadModel
    <3>2. /\ next \in [predictor : Predictors, step : Loads, model : Content, encoder : Content]
          /\ next.predictor = loader.predictor /\ next.step = "load_encoder"
          /\ next.model = bundle["model"]
          BY <1>1 DEF Loads
    <3> HIDE DEF next
    <3> QED BY <2>1, <2>2, <3>1, <3>2, ContinueStep
  <2> QED BY <2>4, <2>5
<1>6. CASE LoadEncoder
  <2>1. loader.step = "load_encoder" /\ Untouched /\ engine = "loading" BY <1>6 DEF LoadEncoder, At
  <2>2. quiet => /\ \A f \in Copied : bundle[f] # NoFile
                 /\ Matches("model") /\ Matches("encoder")
                 /\ loader.model = bundle["model"]
        BY <2>1 DEF IInv, Loading
  <2>3. quiet => bundle["encoder"] \notin {NoFile, Torn} BY <2>2 DEF Matches
  <2>4. CASE bundle["encoder"] \in {NoFile, Torn} BY <1>6, <2>1, <2>3, <2>4, RejectedStep DEF LoadEncoder
  <2>5. CASE bundle["encoder"] \notin {NoFile, Torn}
    <3> DEFINE result == [enabled |-> TRUE, model |-> loader.model, encoder |-> bundle["encoder"]]
    <3>1. Loaded(result) BY <1>6, <2>5 DEF LoadEncoder
    <3>2. result \in [enabled : BOOLEAN, model : Content, encoder : Content] BY <1>1
    <3>3. quiet => result = Outcome BY <2>2 DEF Outcome
    <3> HIDE DEF result
    <3> QED BY <2>1, <3>1, <3>2, <3>3, LoadedStep
  <2> QED BY <2>4, <2>5
<1> QED BY <1>2, <1>3, <1>4, <1>5, <1>6 DEF Load

-----------------------------------------------------------------------------
LEMMA OtherEngineSteps ==
    ASSUME IInv, Start \/ (\E p \in Predictors : Predict(p)) \/ Stop
    PROVE  IInv'
<1> USE DEF train_vars
<1>1. Nothing \in [enabled : BOOLEAN, model : Content, encoder : Content]
      BY ContentKinds DEF Nothing
<1>2. [p \in Predictors |-> Nothing] \in [Predictors -> [enabled : BOOLEAN, model : Content, encoder : Content]]
      BY <1>1
<1>3. CASE Start
  <2>1. /\ engine' = "loading" /\ loader' = NoLoad /\ quiet' = TRUE
        /\ served' = [p \in Predictors |-> Nothing]
        /\ UNCHANGED <<out, zip, trainer, bundle, sums, generator>>
        BY <1>3 DEF Start
  <2>2. /\ loader' \in [predictor : Predictors, step : Loads, model : Content, encoder : Content]
        /\ loader'.step = "files" /\ loader'.predictor = "live"
        BY <2>1, ContentKinds DEF NoLoad, Predictors, Loads
  <2>3. Typed' BY <1>2, <2>1, <2>2 DEF IInv, Typed, TypeOK
  <2>4. Writing' /\ ZipIsOneTraining' BY <2>1, TrainerStill
  <2>5. served'["completed"] = Nothing /\ served'["live"] = Nothing BY <2>1 DEF Predictors
  <2>6. Loading' /\ PredictorsAgree' BY <2>1, <2>2, <2>5 DEF Loading, PredictorsAgree
  <2> QED BY <2>3, <2>4, <2>6 DEF IInv
<1>4. ASSUME NEW p \in Predictors, Predict(p) PROVE IInv'
  <2>1. /\ engine = "serving" /\ engine' \in {"serving", "died_predicting"}
        /\ UNCHANGED <<out, zip, trainer, bundle, sums, generator, loader, served, quiet>>
        BY <1>4 DEF Predict
  <2>2. Typed' BY <2>1 DEF IInv, Typed, TypeOK
  <2>3. Writing' /\ ZipIsOneTraining' BY <2>1, TrainerStill
  <2>4. Loading' /\ PredictorsAgree' BY <2>1 DEF IInv, Loading, PredictorsAgree
  <2> QED BY <2>2, <2>3, <2>4 DEF IInv
<1>5. CASE Stop
  <2>1. /\ engine' = "stopped" /\ served' = [p \in Predictors |-> Nothing]
        /\ UNCHANGED <<out, zip, trainer, bundle, sums, generator, loader, quiet>>
        BY <1>5 DEF Stop
  <2>2. Typed' BY <1>2, <2>1 DEF IInv, Typed, TypeOK
  <2>3. Writing' /\ ZipIsOneTraining' BY <2>1, TrainerStill
  <2>4. Loading' /\ PredictorsAgree' BY <2>1 DEF Loading, PredictorsAgree
  <2> QED BY <2>2, <2>3, <2>4 DEF IInv
<1> QED BY <1>3, <1>4, <1>5

LEMMA NextIInv == IInv /\ [Next]_vars => IInv'
<1> SUFFICES ASSUME IInv, [Next]_vars PROVE IInv' OBVIOUS
<1>1. CASE Train BY <1>1, TrainSteps
<1>2. CASE (\E f \in Copied : Copy(f)) \/ Generate BY <1>2, BundleSteps
<1>3. CASE Load BY <1>3, LoadSteps
<1>4. CASE Start \/ (\E p \in Predictors : Predict(p)) \/ Stop BY <1>4, OtherEngineSteps
<1>5. CASE UNCHANGED vars
  <2>1. UNCHANGED <<out, zip, trainer, bundle, sums, generator, engine, loader, served, quiet>>
        BY <1>5 DEF vars, train_vars, engine_vars
  <2>2. Typed' BY <2>1 DEF IInv, Typed, TypeOK
  <2>3. Writing' /\ ZipIsOneTraining' BY <2>1, TrainerStill
  <2>4. Loading' /\ PredictorsAgree' BY <2>1, EngineStill
  <2> QED BY <2>2, <2>3, <2>4 DEF IInv
<1> QED BY <1>1, <1>2, <1>3, <1>4, <1>5 DEF Next, Engine

LEMMA Inductive == Spec => []IInv
BY InitIInv, NextIInv, PTL DEF Spec

\* Every file of the trainer, the bundle and the checksums is missing, torn or of a training
\* that was started, and the engine and the tools are at one of their steps.
THEOREM ArtifactTypes == Spec => []TypeOK
<1>1. IInv => TypeOK BY DEF IInv, Typed
<1> QED BY <1>1, Inductive, PTL

\* However often trainings are cut off, raise at the report or are copied in part, a closed
\* archive holds the files of one training, and two predictors loaded while nobody touched
\* the bundle serve the same model and encoder.
THEOREM ArtifactsAlwaysAgree == Spec => []ArtifactsAgree
<1>1. IInv => ArtifactsAgree BY DEF IInv, ArtifactsAgree
<1> QED BY <1>1, Inductive, PTL

-----------------------------------------------------------------------------
\* The one step that enables a predictor is the last of a load that verified both pickles.
LEMMA EnablingStep ==
    ASSUME IInv, Next, NEW p \in Predictors, served'[p].enabled, ~served[p].enabled
    PROVE  LoadEncoder /\ p = loader.predictor
           /\ served'[p] = [enabled |-> TRUE, model |-> loader.model, encoder |-> bundle["encoder"]]
<1> USE DEF engine_vars, train_vars
<1>1. served \in [Predictors -> [enabled : BOOLEAN, model : Content, encoder : Content]]
      BY DEF IInv, Typed, TypeOK
<1>2. Nothing.enabled = FALSE BY DEF Nothing
<1>3. served' # served BY <1>1
<1>4. ASSUME NEW result, Loaded(result)
      PROVE  p = loader.predictor /\ served'[p] = result
      BY <1>1, <1>4 DEF Loaded
<1>5. ~Rejected BY <1>2, <1>4 DEF Rejected
<1>6. ~Start /\ ~Stop BY <1>2 DEF Start, Stop
<1>7. ~Train
  <2>1. \A labels \in LabelSets : ~CountLabels(labels) BY <1>3 DEF CountLabels
  <2>2. \A found : ~Fit(found) /\ ~WriteReport(found) BY <1>3 DEF Fit, WriteReport
  <2>3. ~WriteFile /\ ~WriteZip /\ ~SkipZip /\ ~InterruptTraining
        BY <1>3 DEF WriteFile, WriteZip, SkipZip, InterruptTraining
  <2> QED BY <2>1, <2>2, <2>3 DEF Train
<1>8. \A f \in Copied : ~Copy(f) BY <1>3 DEF Copy
<1>9. ~Generate BY <1>3 DEF Generate, StartGenerate, WriteChecksum, InterruptGenerate
<1>10. \A q \in Predictors : ~Predict(q) BY <1>3 DEF Predict
<1>11. ~CheckFiles /\ ~VerifyModel /\ ~VerifyEncoder /\ ~LoadModel
       BY <1>3, <1>5 DEF CheckFiles, VerifyModel, VerifyEncoder, LoadModel, Continue
<1>12. LoadEncoder
       BY <1>6, <1>7, <1>8, <1>9, <1>10, <1>11 DEF Next, Engine, Load
<1>13. Loaded([enabled |-> TRUE, model |-> loader.model, encoder |-> bundle["encoder"]])
       BY <1>5, <1>12 DEF LoadEncoder
<1> QED BY <1>4, <1>12, <1>13

\* Verification covers both halves of the pair: without changes to the bundle during startup,
\* a predictor serves model and encoder of two trainings only if the digests say so too.
THEOREM OnlyOnePair == Spec => ServesOnePair
<1>1. ASSUME IInv, [Next]_vars, NEW p \in Predictors, served'[p].enabled, ~served[p].enabled, quiet
      PROVE  served'[p].model = served'[p].encoder \/ sums["model"] # sums["encoder"]
  <2>1. Next BY <1>1 DEF vars, engine_vars
  <2>2. /\ LoadEncoder
        /\ served'[p] = [enabled |-> TRUE, model |-> loader.model, encoder |-> bundle["encoder"]]
        BY <1>1, <2>1, EnablingStep
  <2>3. engine = "loading" /\ loader.step = "load_encoder" BY <2>2 DEF LoadEncoder, At
  <2>4. Matches("model") /\ Matches("encoder") /\ loader.model = bundle["model"]
        BY <1>1, <2>3 DEF IInv, Loading
  <2> QED BY <2>2, <2>4 DEF Matches
<1>2. IInv /\ [Next]_vars =>
        [\A p \in Predictors :
            (served'[p].enabled /\ ~served[p].enabled /\ quiet) =>
                \/ served'[p].model = served'[p].encoder
                \/ sums["model"] # sums["encoder"]]_vars
      BY <1>1
<1> QED BY <1>2, Inductive, PTL DEF Spec, ServesOnePair

\* A load that nothing disturbs, of a bundle that is complete and matches its digests, ends
\* with the predictor enabled.
THEOREM GoodBundlesServed == Spec => GoodBundleServed
<1> DEFINE finished(p) == engine = "loading" /\ loader.predictor = p
                          /\ (loader'.predictor # p \/ engine' = "serving")
           good == \A f \in Pickles : bundle[f] \notin {NoFile, Torn} /\ sums[f] = bundle[f]
<1>1. ASSUME IInv, [Next]_vars, NEW p \in Predictors, finished(p), quiet, good, bundle["columns"] # NoFile
      PROVE  served'[p].enabled
  <2> USE DEF engine_vars, train_vars
  <2>1. Next BY <1>1 DEF vars
  <2>2. engine = "loading" /\ loader.predictor = p
        /\ (loader' # loader \/ engine' # engine) BY <1>1
  <2>3. /\ served \in [Predictors -> [enabled : BOOLEAN, model : Content, encoder : Content]]
        /\ loader \in [predictor : Predictors, step : Loads, model : Content, encoder : Content]
        BY <1>1 DEF IInv, Typed, TypeOK
  <2>4. Matches("model") /\ Matches("encoder") /\ (\A f \in Copied : bundle[f] # NoFile)
        BY <1>1 DEF Matches, Copied, Pickles
  <2>5. ~Start /\ ~Stop /\ \A q \in Predictors : ~Predict(q) BY <2>2 DEF Start, Stop, Predict
  <2>6. ~Train
    <3>1. \A labels \in LabelSets : ~CountLabels(labels) BY <2>2 DEF CountLabels
    <3>2. \A found : ~Fit(found) /\ ~WriteReport(found) BY <2>2 DEF Fit, WriteReport
    <3>3. ~WriteFile /\ ~WriteZip /\ ~SkipZip /\ ~InterruptTraining
          BY <2>2 DEF WriteFile, WriteZip, SkipZip, InterruptTraining
    <3> QED BY <3>1, <3>2, <3>3 DEF Train
  <2>7. (\A f \in Copied : ~Copy(f)) /\ ~Generate
        BY <2>2 DEF Copy, Generate, StartGenerate, WriteChecksum, InterruptGenerate
  <2>8. ASSUME NEW next, Continue(next), next.predictor = loader.predictor PROVE FALSE
        BY <1>1, <2>8 DEF Continue
  <2>9. ~CheckFiles /\ ~VerifyModel /\ ~VerifyEncoder
    <3>1. \A step \in Loads : [loader EXCEPT !.step = step].predictor = loader.predictor BY <2>3
    <3>2. ~CheckFiles
      <4>1. SUFFICES ASSUME CheckFiles PROVE FALSE OBVIOUS
      <4>2. engine' = "died_loading" /\ UNCHANGED loader
            BY <2>4, <2>8, <3>1, <4>1 DEF CheckFiles, Loads
      <4> QED BY <1>1, <4>2
    <3>3. ~VerifyModel BY <2>4, <2>8, <3>1 DEF VerifyModel, Loads
    <3>4. ~VerifyEncoder BY <2>4, <2>8, <3>1 DEF VerifyEncoder, Loads
    <3> QED BY <3>2, <3>3, <3>4
  <2>10. ~LoadModel
    <3>1. bundle["model"] \notin {NoFile, Torn} BY <1>1 DEF Pickles
    <3>2. [loader EXCEPT !.step = "load_encoder", !.model = bundle["model"]].predictor = loader.predictor
          BY <2>3
    <3> QED BY <2>8, <3>1, <3>2 DEF LoadModel
  <2>11. LoadEncoder BY <2>1, <2>5, <2>6, <2>7, <2>9, <2>10 DEF Next, Engine, Load
  <2>12. bundle["encoder"] \notin {NoFile, Torn} BY <1>1 DEF Pickles
  <2> QED BY <2>2, <2>3, <2>11, <2>12 DEF LoadEncoder, Loaded
<1>2. IInv /\ [Next]_vars =>
        [\A p \in Predictors :
            (finished(p) /\ quiet /\ good /\ bundle["columns"] # NoFile) => served'[p].enabled]_vars
      BY <1>1
<1> QED BY <1>2, Inductive, PTL DEF Spec, GoodBundleServed
=============================================================================
