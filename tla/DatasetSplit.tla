---------------------------- MODULE DatasetSplit ----------------------------
(***************************************************************************)
(* The two command line tools that build training and test data:           *)
(* ml/datasets/split_prepared_cicids2018.py (split) and                    *)
(* ml/datasets/prepare_cicids2018.py (prepare).  Both write                *)
(* cicids2018_train.csv and cicids2018_test.csv into the same directory,   *)
(* each with a metadata file of its own.  A run may end at any point, also *)
(* in the middle of a write, and be repeated with other arguments.         *)
(***************************************************************************)
EXTENDS Integers, FiniteSets, SequencesExt

CONSTANTS
    Prepared,     \* prepared sources: name -> sequence of files -> sequence of labels
    Raw,          \* raw sources: name -> sequence of <<value, label>>
    BadLabel,     \* a label the cleaning drops (empty, "nan", a repeated header)
    ChunkSizes,   \* the values of --chunk-size
    TestSizes,    \* the values of --test-size, as <<numerator, denominator>>
    MaxRuns,      \* bound: runs of either tool
    NoFile, Torn, \* a file that does not exist; one a write was cut off in
    Header        \* the header line of a csv file

ASSUME SizesAssumption ==
    /\ ChunkSizes \subseteq Nat \ {0}
    /\ TestSizes # {}
    /\ \A s \in TestSizes : s[2] \in Nat /\ s[1] \in 1..(s[2] - 1)
    /\ MaxRuns \in Nat

VARIABLES
    train, test, cleaned,   \* the csv files: NoFile or a sequence of rows
    split_meta, prep_meta,  \* the metadata files: NoFile, Torn, or what they describe
    pc,                     \* the next step of the tool that runs
    job,                    \* its arguments, targets and position
    seen, tested,           \* seen_counts and test_counts
    runs                    \* runs so far (bound)

files == <<train, test, cleaned, split_meta, prep_meta>>
counters == <<seen, tested>>
vars == <<files, pc, job, counters, runs>>

-----------------------------------------------------------------------------
(* Rows and cleaning.  A row is named by where it comes from.              *)

Label(row) == IF row[1] \in DOMAIN Prepared THEN Prepared[row[1]][row[2]][row[3]]
                                            ELSE row[3]
Labels == (UNION {UNION {ToSet(file) : file \in ToSet(Prepared[s])} : s \in DOMAIN Prepared}) \ {BadLabel}

\* The elements of s that are in S, in their order: SelectSeq with its condition as a set,
\* which leaves no operator for a proof to instantiate.
Only(s, S) ==
    LET kept[i \in 0..Len(s)] ==
            IF i = 0 THEN <<>> ELSE IF s[i] \in S THEN Append(kept[i - 1], s[i]) ELSE kept[i - 1]
    IN  kept[Len(s)]

\* sanitize_prepared_chunk repairs features and drops rows only for their label.
Sanitize(chunk) == Only(chunk, {row \in ToSet(chunk) : Label(row) # BadLabel})

\* _iter_clean_chunks over all files: chunks never cross a file, empty ones are skipped.
FileRows(source, f) == [i \in 1..Len(Prepared[source][f]) |-> <<source, f, i>>]
ChunksOfFile(rows, size) ==
    [k \in 1..((Len(rows) + size - 1) \div size) |->
        Sanitize(SubSeq(rows, (k - 1) * size + 1, Min({k * size, Len(rows)})))]
AllChunks(source, size) ==
    FlattenSeq([f \in DOMAIN Prepared[source] |-> ChunksOfFile(FileRows(source, f), size)])
CleanChunks ==
    [source \in DOMAIN Prepared |-> [size \in ChunkSizes |->
        LET chunks == AllChunks(source, size) IN Only(chunks, ToSet(chunks) \ {<<>>})]]

CleanRows ==
    [source \in DOMAIN Prepared |->
        {r \in UNION {ToSet(FileRows(source, f)) : f \in DOMAIN Prepared[source]} : Label(r) # BadLabel}]
CountOf(rows, label) == Cardinality({r \in rows : Label(r) = label})

\* Python's round: to the nearest integer, halves to the even one.
Round(n, d) ==
    LET q == n \div d
        twice == 2 * (n % d)
    IN  IF twice > d \/ (twice = d /\ q % 2 = 1) THEN q + 1 ELSE q

\* Mutant: the share of a label may be all of it.
TestTargetsUncappedMutant ==
    [source \in DOMAIN Prepared |-> [size \in TestSizes |->
        [l \in Labels |-> Round(CountOf(CleanRows[source], l) * size[1], size[2])]]]
\* _compute_test_targets: a label with more than one row keeps one for training.
TestTargets ==
    [source \in DOMAIN Prepared |-> [size \in TestSizes |->
        [l \in Labels |->
            LET count == CountOf(CleanRows[source], l)
                target == Round(count * size[1], size[2])
            IN  IF count > 1 /\ target >= count THEN count - 1 ELSE target]]]

\* Mutant: a row counts itself among those already seen, so the last ones come up short.
TestPicksSelfMutant(chunk) ==
    {pick \in SUBSET ToSet(chunk) :
        \A i \in DOMAIN chunk :
            LET l == Label(chunk[i])
                before == {chunk[j] : j \in {j \in 1..i : Label(chunk[j]) = l}}
                remaining_total == job.totals[l] - (seen[l] + Cardinality(before))
                remaining_test  == job.targets[l] - (tested[l] + Cardinality((before \ {chunk[i]}) \cap pick))
            IN  /\ remaining_test <= 0 => chunk[i] \notin pick
                /\ (remaining_test > 0 /\ remaining_total = remaining_test) => chunk[i] \in pick}
\* Mutant: the draw is made without looking whether the target is reached.
TestPicksUnboundedMutant(chunk) == SUBSET ToSet(chunk)
\* The sets of rows of a chunk that the sequential sampling may send to the test file.
TestPicks(chunk) ==
    {pick \in SUBSET ToSet(chunk) :
        \A i \in DOMAIN chunk :
            LET l == Label(chunk[i])
                before == {chunk[j] : j \in {j \in 1..(i - 1) : Label(chunk[j]) = l}}
                remaining_total == job.totals[l] - (seen[l] + Cardinality(before))
                remaining_test  == job.targets[l] - (tested[l] + Cardinality(before \cap pick))
            IN  /\ remaining_test <= 0 => chunk[i] \notin pick
                /\ (remaining_test > 0 /\ remaining_total = remaining_test) => chunk[i] \in pick}

-----------------------------------------------------------------------------
NoCounts == [l \in Labels |-> 0]
Idle == [source |-> CHOOSE s \in DOMAIN Prepared : TRUE, size |-> CHOOSE s \in TestSizes : TRUE,
         chunks |-> <<>>, totals |-> NoCounts, targets |-> NoCounts, pick |-> {},
         train_header |-> TRUE, test_header |-> TRUE]

Init ==
    /\ train = NoFile /\ test = NoFile /\ cleaned = NoFile
    /\ split_meta = NoFile /\ prep_meta = NoFile
    /\ pc = "idle" /\ job = Idle /\ seen = NoCounts /\ tested = NoCounts
    /\ runs = 0

Goto(from, to) == pc = from /\ pc' = to

-----------------------------------------------------------------------------
(* split_prepared_dataset                                                  *)

\* Existing outputs are refused without force; a refused run changes nothing.
StartSplit(source, size, chunk_size, force) ==
    /\ Goto("idle", "count") /\ runs < MaxRuns
    /\ force \/ ({train, test} = {NoFile} /\ split_meta = NoFile)
    /\ job' = [Idle EXCEPT !.source = source, !.size = size,
                           !.chunks = CleanChunks[source][chunk_size]]
    /\ runs' = runs + 1
    /\ UNCHANGED <<files, counters>>

\* The first pass; a source without a valid row ends the run before anything is removed.
CountLabels ==
    /\ pc = "count"
    /\ IF job.chunks = <<>>
       THEN pc' = "idle" /\ UNCHANGED <<job, counters>>
       ELSE /\ pc' = "unlink_train"
            /\ job' = [job EXCEPT
                        !.totals = [l \in Labels |-> CountOf(CleanRows[job.source], l)],
                        !.targets = TestTargets[job.source][job.size]]
            /\ seen' = NoCounts /\ tested' = NoCounts
    /\ UNCHANGED <<files, runs>>

UnlinkTrain == Goto("unlink_train", "unlink_test") /\ train' = NoFile
               /\ UNCHANGED <<test, cleaned, split_meta, prep_meta, job, counters, runs>>
UnlinkTest == Goto("unlink_test", "unlink_meta") /\ test' = NoFile
              /\ UNCHANGED <<train, cleaned, split_meta, prep_meta, job, counters, runs>>
\* Mutant: the metadata is left to be overwritten at the end.
UnlinkMetaKeepsMutant == Goto("unlink_meta", "choose") /\ UNCHANGED <<files, job, counters, runs>>
UnlinkMeta == Goto("unlink_meta", "choose") /\ split_meta' = NoFile
              /\ UNCHANGED <<train, test, cleaned, prep_meta, job, counters, runs>>

\* The rows of one chunk are dealt out, in memory.
ChooseRows ==
    /\ Goto("choose", "append_train") /\ job.chunks # <<>>
    /\ LET chunk == Head(job.chunks)
       IN  \E pick \in TestPicks(chunk) :
            /\ job' = [job EXCEPT !.pick = pick]
            /\ seen' = [l \in Labels |-> seen[l] + CountOf(ToSet(chunk), l)]
            /\ tested' = [l \in Labels |-> tested[l] + CountOf(pick, l)]
    /\ UNCHANGED <<files, runs>>

\* What to_csv(mode="a") appends, and the file it leaves; no rows, no write.
Appended(rows, header) == (IF header THEN <<Header>> ELSE <<>>) \o rows
Append2(file, rows) == (IF file = NoFile THEN <<>> ELSE file) \o rows
TrainRows == Only(Head(job.chunks), ToSet(Head(job.chunks)) \ job.pick)
TestRows == Only(Head(job.chunks), job.pick)

AppendTrain ==
    /\ Goto("append_train", "append_test")
    /\ IF TrainRows = <<>> THEN UNCHANGED <<train, job>>
       ELSE /\ train' = Append2(train, Appended(TrainRows, job.train_header))
            /\ job' = [job EXCEPT !.train_header = FALSE]
    /\ UNCHANGED <<test, cleaned, split_meta, prep_meta, counters, runs>>

AppendTest ==
    /\ Goto("append_test", "choose")
    /\ IF TestRows = <<>>
       THEN test' = test /\ job' = [job EXCEPT !.chunks = Tail(@), !.pick = {}]
       ELSE /\ test' = Append2(test, Appended(TestRows, job.test_header))
            /\ job' = [job EXCEPT !.chunks = Tail(@), !.pick = {}, !.test_header = FALSE]
    /\ UNCHANGED <<train, cleaned, split_meta, prep_meta, counters, runs>>

\* The digests need both files: a part without a row was never created, and the run
\* ends with FileNotFoundError, the other part written and no metadata.
WriteMetadata ==
    /\ Goto("choose", "idle") /\ job.chunks = <<>>
    /\ split_meta' = IF NoFile \in {train, test} THEN NoFile
                     ELSE [source |-> job.source, size |-> job.size, train |-> train, test |-> test]
    /\ UNCHANGED <<train, test, cleaned, prep_meta, job, counters, runs>>

-----------------------------------------------------------------------------
(* prepare_dataset                                                         *)

\* Duplicates and rows without a label go; what is left is one table.
PreparedTable(raw) == {<<raw, v[1], v[2]>> : v \in {v \in ToSet(Raw[raw]) : v[2] # BadLabel}}

Rows == (UNION {CleanRows[s] : s \in DOMAIN Prepared}) \cup UNION {PreparedTable(raw) : raw \in DOMAIN Raw}

\* The sources are finite, and what is not a row or a file is not mistaken for one.
ASSUME DataAssumption ==
    /\ DOMAIN Prepared # {} /\ DOMAIN Prepared \cap DOMAIN Raw = {}
    /\ \A s \in DOMAIN Prepared : /\ Prepared[s] \in Seq(ToSet(Prepared[s]))
                                  /\ \A file \in ToSet(Prepared[s]) : file \in Seq(ToSet(file))
    /\ \A raw \in DOMAIN Raw : Raw[raw] \in Seq(ToSet(Raw[raw]))
    /\ Header \notin Rows
    /\ NoFile \notin Seq(Rows \cup {Header})

\* train_test_split (external): some test part of the size asked for.  It raises, before
\* anything is written, when a label has one row only or a part has fewer rows than labels;
\* prepare_dataset raises before it on an empty table.
TestParts(table, size) ==
    LET n == (Cardinality(table) * size[1] + size[2] - 1) \div size[2]
        classes == {r[3] : r \in table}
    IN  {part \in SUBSET table :
            /\ table # {} /\ Cardinality(part) = n
            /\ Cardinality(classes) <= n /\ Cardinality(classes) <= Cardinality(table) - n
            /\ \A l \in classes : Cardinality({r \in table : r[3] = l}) > 1}

CsvOf(rows) == <<Header>> \o SetToSeq(rows)

\* Everything is read, cleaned and split in memory before the first write.
StartPrepare(raw, size, force) ==
    /\ Goto("idle", "prep_cleaned") /\ runs < MaxRuns
    /\ force \/ ({train, test, cleaned} = {NoFile} /\ prep_meta = NoFile)
    /\ \E part \in TestParts(PreparedTable(raw), size) :
        job' = [Idle EXCEPT !.source = raw, !.size = size, !.pick = part]
    /\ runs' = runs + 1
    /\ UNCHANGED <<files, counters>>

\* to_csv opens the file anew: the old content is gone, whatever the metadata says.
WriteCleaned == Goto("prep_cleaned", "prep_train")
    /\ cleaned' = CsvOf(PreparedTable(job.source))
    /\ UNCHANGED <<train, test, split_meta, prep_meta, job, counters, runs>>
WriteTrain == Goto("prep_train", "prep_test")
    /\ train' = CsvOf(PreparedTable(job.source) \ job.pick)
    /\ UNCHANGED <<test, cleaned, split_meta, prep_meta, job, counters, runs>>
WriteTest == Goto("prep_test", "prep_meta") /\ test' = CsvOf(job.pick)
    /\ UNCHANGED <<train, cleaned, split_meta, prep_meta, job, counters, runs>>
WritePrepMeta == Goto("prep_meta", "idle")
    /\ prep_meta' = [cleaned |-> cleaned, train |-> train, test |-> test]
    /\ UNCHANGED <<train, test, cleaned, split_meta, job, counters, runs>>

-----------------------------------------------------------------------------
\* A beginning of what the interrupted write was to put after old.
CutOff(old, new) == {Append2(old, p) : p \in Prefixes(new)}

\* The process ends; the write it was in may have got part of the way.
Interrupt ==
    /\ pc # "idle" /\ pc' = "idle"
    /\ train' \in CASE pc = "append_train" /\ TrainRows # <<>> ->
                            {train} \cup CutOff(train, Appended(TrainRows, job.train_header))
                    [] pc = "prep_train" -> {train} \cup CutOff(NoFile, <<Header>>)
                    [] OTHER -> {train}
    /\ test' \in CASE pc = "append_test" /\ TestRows # <<>> ->
                            {test} \cup CutOff(test, Appended(TestRows, job.test_header))
                   [] pc = "prep_test" -> {test} \cup CutOff(NoFile, <<Header>>)
                   [] OTHER -> {test}
    /\ cleaned' \in IF pc = "prep_cleaned" THEN {cleaned, <<>>} ELSE {cleaned}
    /\ split_meta' \in IF pc = "choose" /\ job.chunks = <<>> /\ NoFile \notin {train, test}
                       THEN {split_meta, Torn} ELSE {split_meta}
    /\ prep_meta' \in IF pc = "prep_meta" THEN {prep_meta, Torn} ELSE {prep_meta}
    /\ UNCHANGED <<job, counters, runs>>

Split ==
    \/ \E s \in DOMAIN Prepared, size \in TestSizes, c \in ChunkSizes, force \in BOOLEAN :
            StartSplit(s, size, c, force)
    \/ CountLabels \/ UnlinkTrain \/ UnlinkTest \/ UnlinkMeta
    \/ ChooseRows \/ AppendTrain \/ AppendTest \/ WriteMetadata

Prepare ==
    \/ \E raw \in DOMAIN Raw, size \in TestSizes, force \in BOOLEAN : StartPrepare(raw, size, force)
    \/ WriteCleaned \/ WriteTrain \/ WriteTest \/ WritePrepMeta

Next == Split \/ Prepare \/ Interrupt

Spec == Init /\ [][Next]_vars

-----------------------------------------------------------------------------
(* Properties                                                              *)

IsMeta(m) == m \notin {NoFile, Torn}
RowsOf(file) == IF file = NoFile THEN {} ELSE ToSet(file) \ {Header}
Sources(file) == {r[1] : r \in RowsOf(file)}

\* The types of the variables; the counters never exceed the totals of the first pass.
TypeOK ==
    /\ pc \in {"idle", "count", "unlink_train", "unlink_test", "unlink_meta", "choose",
               "append_train", "append_test", "prep_cleaned", "prep_train", "prep_test", "prep_meta"}
    /\ \A l \in Labels : tested[l] \in 0..seen[l] /\ seen[l] \in Nat
    /\ pc \in {"choose", "append_train", "append_test"} =>
            \A l \in Labels : tested[l] <= job.targets[l] /\ seen[l] <= job.totals[l]
    /\ runs \in 0..MaxRuns

\* The split's metadata is the last file of a run and is removed before the first row of the
\* next: whenever it can be read, each part is the one it describes, is missing, or was
\* written by prepare, which shares the file names and not the metadata.
SplitMetaCurrent ==
    IsMeta(split_meta) =>
        /\ train \in {NoFile, split_meta.train} \/ Sources(train) \subseteq DOMAIN Raw
        /\ test \in {NoFile, split_meta.test} \/ Sources(test) \subseteq DOMAIN Raw

\* Parts are built by appending to files that were removed first: no file ever mixes the rows
\* of two sources, repeats a row or carries a second header, however runs are cut off.
OneRunPerFile ==
    \A file \in {train, test} \ {NoFile} :
        /\ Cardinality(Sources(file)) <= 1
        /\ IsInjective(file)
        /\ file # <<>> => file[1] = Header

\* What lies in the output directory is never mistaken, although split and prepare share it
\* and either may be cut off between two files.
FilesSound == SplitMetaCurrent /\ OneRunPerFile

\* A completed split leaves every label that has more than one row with a row to train on, so
\* the label encoder fitted to the training file knows every such label of the test file.
TrainKnowsLabels ==
    IsMeta(split_meta) =>
        \A l \in Labels :
            CountOf(CleanRows[split_meta.source], l) > 1 => CountOf(RowsOf(split_meta.train), l) > 0

-----------------------------------------------------------------------------
(* The split implements the abstract one: it is running from the removal of *)
(* the old metadata on, and complete while its metadata describes the files.*)

RequestOf(source, size) == [rows |-> CleanRows[source], quota |-> TestTargets[source][size]]
Requests == {RequestOf(s, size) : s \in DOMAIN Prepared, size \in TestSizes}

Complete == IsMeta(split_meta) /\ split_meta.train = train /\ split_meta.test = test
SplitStatus ==
    IF pc \in {"choose", "append_train", "append_test"} THEN "running"
    ELSE IF Complete THEN "complete" ELSE "none"

Abstract == INSTANCE StratifiedSplit WITH
    Requests <- Requests,
    LabelOf  <- Label,
    status   <- SplitStatus,
    request  <- IF SplitStatus = "complete" THEN RequestOf(split_meta.source, split_meta.size)
                ELSE IF job.source \in DOMAIN Prepared THEN RequestOf(job.source, job.size)
                ELSE RequestOf(Idle.source, Idle.size),
    train    <- IF SplitStatus = "none" THEN {} ELSE RowsOf(train),
    test     <- IF SplitStatus = "none" THEN {} ELSE RowsOf(test)

\* split_prepared_dataset is a stratified split: each clean row goes to exactly one part, no
\* label ever has more test rows than its target, and a run only completes on the exact targets.
ImplementsSplit == Abstract!Spec
=============================================================================
