------------------------------ MODULE Commands -----------------------------
(***************************************************************************)
(* Processes started from the command line: `ingest' runs nine stages in   *)
(* a row and writes one batch manifest, every other command runs one stage *)
(* and writes the manifest of that stage.  A manifest and its Markdown     *)
(* summary are each replaced through a temporary file.  Any stage and any  *)
(* write may raise, a process may die anywhere, and a backend may scan the *)
(* run directories any time.                                               *)
(***************************************************************************)
EXTENDS RunCatalog, FiniteSets

CONSTANTS
    Jobs,           \* processes
    Datasets,       \* datasets that may be selected
    Invocations,    \* commands they may be started with, as << command, dataset >>
    EarlierDirs,    \* directories of runs made before
    NoManifest,     \* a file with nothing in it yet
    MaxCrashes      \* bound

StageOf == [c \in {"ingest-structured", "ingest-pdf", "extract-claims", "resolve-entities",
                   "ask", "ask-all"} |->
    CASE c = "ingest-structured" -> "structured_ingest"
      [] c = "ingest-pdf" -> "pdf_ingest"
      [] c = "extract-claims" -> "claim_and_mention_extraction"
      [] c = "resolve-entities" -> "entity_resolution"
      [] c \in {"ask", "ask-all"} -> "retrieval_and_qa"]
AllCommands == DOMAIN StageOf \cup {"ingest"}

ASSUME DatasetsAssumption == NoDataset \notin Datasets
ASSUME InvocationsAssumption == Invocations \subseteq AllCommands \X Datasets
ASSUME EarlierAssumption ==
    /\ IsFiniteSet(EarlierDirs)
    /\ \A d \in EarlierDirs : d = << d[1], d[2] >> /\ d[1] \in RunId /\ d[1].at = 0
ASSUME CommandBoundsAssumption == MaxCrashes \in Nat

VARIABLES
    job,        \* command, dataset and run ids of each process
    at,         \* how many steps of its program it has done
    ended,      \* "no", or how it ended before its last step
    results     \* what the stages it ran returned

VARIABLES
    dirs,       \* directories runs/<run>/<name>, as << run, name >>
    files,      \* manifests and their summaries: [path, ext, text]
    temps       \* temporary files

VARIABLES
    met,        \* auxiliary: processes whose manifest writes overlapped
    used        \* what the bounds count

jobVars == << job, at, ended, results >>
fileVars == << dirs, files, temps >>
vars == << jobVars, fileVars, met, used >>

\* run_orchestrated_request_context.
BatchStages == << "pdf_ingest", "claim_and_mention_extraction", "claim_participation",
    "entity_resolution_unstructured_only", "retrieval_and_qa_unstructured_only",
    "structured_ingest", "entity_resolution_hybrid", "retrieval_and_qa",
    "retrieval_benchmark" >>
StagesOf(cmd) == IF cmd = "ingest" THEN BatchStages ELSE << StageOf[cmd] >>

\* Fault of the next definition: the target is replaced before the text is written.
RenameThenFill == << "temp", "replace", "fill" >>

\* write_manifest, write_manifest_md.
WriteSteps == << "temp", "fill", "replace" >>

\* Fault of the next definition: the summary is written before the manifest.
SummaryFirst(cmd) ==
    [k \in DOMAIN StagesOf(cmd) |-> << "stage", StagesOf(cmd)[k] >>]
    \o [k \in 1..3 |-> << WriteSteps[k], "md" >>] \o [k \in 1..3 |-> << WriteSteps[k], "json" >>]

\* write_batch_manifest_artifacts, write_stage_manifest_artifacts.
Program(cmd) ==
    [k \in DOMAIN StagesOf(cmd) |-> << "stage", StagesOf(cmd)[k] >>]
    \o [k \in 1..3 |-> << WriteSteps[k], "json" >>] \o [k \in 1..3 |-> << WriteSteps[k], "md" >>]

Over(j) == at[j] = Len(Program(job[j].cmd))
Active(j) == job[j].cmd # "none" /\ ended[j] = "no" /\ ~Over(j)
Doing(j) == IF Active(j) THEN Program(job[j].cmd)[at[j] + 1] ELSE << "none", "none" >>
Writing(j) == Doing(j)[1] \in {"temp", "fill", "replace"}
Forward(j) == at' = [at EXCEPT ![j] = @ + 1]

RunOfStage(j, stage) == IF stage = "structured_ingest" THEN job[j].structured ELSE job[j].run

\* Where a stage puts its artifacts.
ArtifactDirs(stage) ==
    CASE stage = "claim_and_mention_extraction" -> {"claim_extraction"}
      [] stage = "structured_ingest" -> {"structured_clean", "structured_ingest"}
      [] stage \in {"retrieval_and_qa", "retrieval_and_qa_unstructured_only"} -> {}
      [] OTHER -> {stage}

\* What a stage returns, as far as the manifest's signals tell it apart.
Outputs(stage) ==
    IF stage \in {"retrieval_and_qa", "retrieval_and_qa_unstructured_only"}
        THEN {"full", "degraded"} ELSE {"ok"}

AllStages == { StageOf[c] : c \in DOMAIN StageOf } \cup { BatchStages[k] : k \in DOMAIN BatchStages }
Returned == AllStages \X RunId \X {"ok", "full", "degraded", "error"}

\* An empty file is no manifest.
ASSUME NoManifestAssumption == NoManifest \notin
    [by : Jobs, run : RunId, dataset : Datasets \cup {NoDataset}, stages : Seq(Returned),
     signals : {"none", "ok", "full", "degraded", "error"}]

\* compute_batch_manifest_path, compute_stage_manifest_path.
Path(j) == IF job[j].cmd = "ingest" THEN << "batch" >>
           ELSE << job[j].run, StageOf[job[j].cmd] >>

-----------------------------------------------------------------------------
(* The processes.                                                          *)

NoScopeRun == [prefix |-> "dry_run_no_scope", at |-> 0]

\* resolve_independent_stage_run_id; ids of earlier runs come from their directories.
RunIds(cmd) ==
    LET new(prefix) == {[prefix |-> prefix, at |-> used.starts + 1]}
        ingested == { d[1] : d \in { d \in dirs : d[1].prefix = "unstructured_ingest" } }
    IN  CASE cmd \in {"extract-claims", "resolve-entities"} -> ingested
          [] cmd = "ask" -> ingested \cup {NoScopeRun}
          [] cmd = "ask-all" -> new("ask")
          [] cmd = "ingest-structured" -> new("structured_ingest")
          [] cmd \in {"ingest-pdf", "ingest"} -> new("unstructured_ingest")

Start(j) ==
    /\ job[j].cmd = "none"
    /\ \E i \in Invocations : \E r \in RunIds(i[1]) :
        job' = [job EXCEPT ![j] =
            [cmd |-> i[1], run |-> r, dataset |-> IF i[1] = "ask-all" THEN NoDataset ELSE i[2],
             structured |-> IF i[1] = "ingest-structured" THEN r
                            ELSE [prefix |-> "structured_ingest", at |-> used.starts + 1]]]
    /\ used' = [used EXCEPT !.starts = @ + 1]
    /\ UNCHANGED << at, ended, results, fileVars, met >>

RunStage(j) ==
    LET stage == Doing(j)[2] IN
    /\ Doing(j)[1] = "stage"
    /\ \E out \in Outputs(stage) :
        results' = [results EXCEPT ![j] = Append(@, << stage, RunOfStage(j, stage), out >>)]
    /\ dirs' = dirs \cup ({RunOfStage(j, stage)} \X ArtifactDirs(stage))
    /\ Forward(j)
    /\ UNCHANGED << job, ended, files, temps, met, used >>

\* Fault of the next definition: nothing is caught.
CaughtNothing(cmd, stage) == FALSE

\* Only the benchmark of a batch runs inside try.
Caught(cmd, stage) == cmd = "ingest" /\ stage = "retrieval_benchmark"

\* It has made its directory by then, as it does for all but invalid arguments.
StageRaises(j) ==
    LET stage == Doing(j)[2]
        caught == Caught(job[j].cmd, stage) IN
    /\ Doing(j)[1] = "stage"
    /\ dirs' = dirs \cup ({RunOfStage(j, stage)} \X ArtifactDirs(stage))
    /\ results' = [results EXCEPT ![j] =
                     Append(@, << stage, RunOfStage(j, stage), "error" >>)]
    /\ IF caught THEN Forward(j) /\ UNCHANGED ended
       ELSE ended' = [ended EXCEPT ![j] = "stage"] /\ UNCHANGED at
    /\ UNCHANGED << job, files, temps, met, used >>

ResultOf(j, stage) ==
    LET k == CHOOSE k \in DOMAIN results[j] : results[j][k][1] = stage IN results[j][k][3]

\* The part of build_batch_manifest that reads the last retrieval's output.
Signals(j) == IF job[j].cmd = "ingest" THEN ResultOf(j, "retrieval_and_qa") ELSE "none"

\* build_batch_manifest, build_stage_manifest.
Manifest(j) ==
    [by |-> j, run |-> job[j].run, dataset |-> job[j].dataset,
     stages |-> results[j], signals |-> Signals(j)]

\* mkdir, mkstemp.
MakeTemp(j) ==
    LET ext == Doing(j)[2] IN
    /\ Doing(j)[1] = "temp"
    /\ temps' = temps \cup {[by |-> j, ext |-> ext, text |-> NoManifest]}
    /\ dirs' = dirs \cup (IF job[j].cmd = "ingest" THEN {} ELSE {Path(j)})
    /\ met' = [k \in Jobs |->
                 IF k = j THEN met[k] \cup { i \in Jobs \ {j} : Writing(i) }
                 ELSE IF Writing(k) THEN met[k] \cup {j} ELSE met[k]]
    /\ Forward(j)
    /\ UNCHANGED << job, ended, results, files, used >>

TempOf(j) == { t \in temps : t.by = j /\ t.ext = Doing(j)[2] }

FillTemp(j) ==
    /\ Doing(j)[1] = "fill"
    /\ temps' = (temps \ TempOf(j)) \cup { [t EXCEPT !.text = Manifest(j)] : t \in TempOf(j) }
    /\ Forward(j)
    /\ UNCHANGED << job, ended, results, dirs, files, met, used >>

Replace(j) ==
    LET ext == Doing(j)[2] IN
    /\ Doing(j)[1] = "replace"
    /\ files' = { f \in files : f.path # Path(j) \/ f.ext # ext }
                \cup { [path |-> Path(j), ext |-> ext, text |-> t.text] : t \in TempOf(j) }
    /\ temps' = temps \ TempOf(j)
    /\ Forward(j)
    /\ UNCHANGED << job, ended, results, dirs, met, used >>

\* A write or a rename raises; the finally clause removes the temporary file.
FailWrite(j) ==
    /\ Writing(j)
    /\ temps' = temps \ TempOf(j)
    /\ ended' = [ended EXCEPT ![j] = "write"]
    /\ UNCHANGED << job, at, results, dirs, files, met, used >>

\* The process is killed: nothing is cleaned up.
Crash(j) ==
    /\ Active(j) /\ used.crashes < MaxCrashes
    /\ used' = [used EXCEPT !.crashes = @ + 1]
    /\ ended' = [ended EXCEPT ![j] = "crash"]
    /\ UNCHANGED << job, at, results, fileVars, met >>

-----------------------------------------------------------------------------
(* The backend's scan.  Manifests change by a rename and nothing below runs/ *)
(* goes away, so a scan is taken to see one state.                         *)

StageManifests ==
    LET stored == { f \in files : f.ext = "json" /\ f.path \in dirs /\ f.text # NoManifest }
    IN  [p \in { f.path : f \in stored } |-> (CHOOSE f \in stored : f.path = p).text]
Shown(query) ==
    LET entries == Catalog(Entries(dirs, StageManifests), query)
    IN  { entries[k] : k \in DOMAIN entries }

-----------------------------------------------------------------------------
NoJob == [cmd |-> "none", run |-> NoScopeRun, structured |-> NoScopeRun, dataset |-> NoDataset]

Init ==
    /\ job = [j \in Jobs |-> NoJob]
    /\ at = [j \in Jobs |-> 0]
    /\ ended = [j \in Jobs |-> "no"]
    /\ results = [j \in Jobs |-> << >>]
    /\ dirs = EarlierDirs /\ files = {} /\ temps = {}
    /\ met = [j \in Jobs |-> {}]
    /\ used = [starts |-> 0, crashes |-> 0]

Next ==
    \E j \in Jobs : Start(j) \/ RunStage(j) \/ StageRaises(j) \/ MakeTemp(j) \/ FillTemp(j)
                     \/ Replace(j) \/ FailWrite(j) \/ Crash(j)

Spec == Init /\ [][Next]_vars

-----------------------------------------------------------------------------
(* Properties.                                                             *)

Finished(j) == job[j].cmd # "none" /\ Over(j)
Failed(j) == ended[j] # "no"
StagesDone(j) == at[j] >= Len(StagesOf(job[j].cmd))

\* Whatever is at a manifest's path is the whole text of a process that ran all of its
\* stages, and below that process's own run; a temporary file is left only by a process
\* that was killed.
ManifestsWhole ==
    /\ \A f \in files :
        /\ f.text # NoManifest
        /\ LET j == f.text.by IN
           StagesDone(j) /\ f.text = Manifest(j) /\ f.path = Path(j)
    /\ \A f, g \in files : f.path = g.path /\ f.ext = g.ext => f = g
    /\ \A t \in temps : ended[t.by] = "crash" \/ Doing(t.by)[1] \in {"fill", "replace"}

\* A process stops at the stage that failed, and leaves no manifest of its own, unless the
\* stage is the benchmark.  A batch manifest reports nine stages, only the benchmark among
\* them failed, all but the structured ingest under the run of the PDF; its signals are
\* those of the answer given after the hybrid pass.
BatchTrue ==
    /\ \A j \in Jobs :
        /\ Finished(j) => \E f \in files : f.path = Path(j) /\ f.ext = "json"
        /\ ended[j] = "stage" =>
            /\ results[j][Len(results[j])][1] # "retrieval_benchmark"
            /\ \A f \in files : f.text.by # j
    /\ \A f \in files : f.path = << "batch" >> =>
        LET s == f.text.stages
            last == CHOOSE k \in DOMAIN s : s[k][1] = "retrieval_and_qa"
            hybrid == CHOOSE k \in DOMAIN s : s[k][1] = "entity_resolution_hybrid"
        IN  /\ { s[k][1] : k \in DOMAIN s } = { BatchStages[k] : k \in DOMAIN BatchStages }
            /\ hybrid < last /\ f.text.signals = s[last][3]
            /\ \A k \in DOMAIN s :
                /\ s[k][3] = "error" => s[k][1] = "retrieval_benchmark"
                /\ s[k][2] = f.text.run <=> s[k][1] # "structured_ingest"

\* manifest.md and manifest.json tell of the same process, unless writes of two processes
\* overlapped or the last writer did not get to its end.
SummaryFollows ==
    \A f, g \in files : f.path = g.path /\ f.ext = "json" /\ g.ext = "md" =>
        LET i == f.text.by k == g.text.by IN
        i = k \/ ~Finished(i) \/ (i \in met[k] /\ Finished(k))

\* All processes that worked on a run had dataset d selected.
Uniform(run, d) ==
    \A j \in Jobs : job[j].run = run /\ job[j].cmd \in DOMAIN StageOf => job[j].dataset = d

\* /runs/current misses no run whose stage manifests name the asked dataset, unless it
\* shows a newer one; it shows one run of a prefix, and a dataset only if a process
\* completed a stage of that run with it.
CurrentIsNewest ==
    \A asked \in Datasets \cup {NoDataset}, stage \in {"any", "pdf_ingest"} :
        LET shown == Shown([dataset |-> asked, stage |-> stage, latest |-> TRUE]) IN
        /\ \A path \in DOMAIN StageManifests, d \in Datasets :
            Uniform(path[1], d) /\ asked \in {d, NoDataset} /\ stage \in {path[2], "any"} =>
                \E e \in shown : e.run.prefix = path[1].prefix /\ e.run.at >= path[1].at
        /\ \A e, f \in shown : e.run.prefix = f.run.prefix => e = f
        /\ \A e \in shown : e.dataset # NoDataset =>
            \E j \in Jobs : job[j].run = e.run /\ job[j].dataset = e.dataset /\ StagesDone(j)
=============================================================================
