---------------------------- MODULE CommandProofs ---------------------------
(***************************************************************************)
(* Manifests are whole and true of the process that wrote them, whatever   *)
(* stages and writes of other processes raise or die around it, for any    *)
(* processes and any runs they share.                                      *)
(***************************************************************************)
EXTENDS Commands, SequenceTheorems, FiniteSetTheorems, TLAPS

-----------------------------------------------------------------------------
(* The program of a command.                                               *)

Stages(j) == Len(StagesOf(job[j].cmd))

\* A batch has nine stages, every other command one.
LEMMA StageCount ==
    ASSUME NEW cmd
    PROVE  /\ Len(StagesOf(cmd)) = IF cmd = "ingest" THEN 9 ELSE 1
           /\ DOMAIN StagesOf(cmd) = 1..Len(StagesOf(cmd))
  <1>1. CASE cmd = "ingest"
    <2>1. StagesOf(cmd) = BatchStages
      BY <1>1 DEF StagesOf
    <2>2. Len(BatchStages) = 9 /\ DOMAIN BatchStages = 1..9
      BY DEF BatchStages
    <2> QED
      BY <1>1, <2>1, <2>2
  <1>2. CASE cmd # "ingest"
    <2>1. StagesOf(cmd) = << StageOf[cmd] >>
      BY <1>2 DEF StagesOf
    <2>2. Len(<< StageOf[cmd] >>) = 1 /\ DOMAIN << StageOf[cmd] >> = 1..1
      OBVIOUS
    <2> QED
      BY <1>2, <2>1, <2>2
  <1> QED
    BY <1>1, <1>2

\* After the stages come three steps for the manifest and three for its summary.
LEMMA ProgramSteps ==
    ASSUME NEW cmd
    PROVE  LET n == Len(StagesOf(cmd))
               p == Program(cmd)
           IN  /\ Len(p) = n + 6
               /\ \A k \in 1..n : p[k] = << "stage", StagesOf(cmd)[k] >>
               /\ p[n + 1] = << "temp", "json" >> /\ p[n + 2] = << "fill", "json" >>
               /\ p[n + 3] = << "replace", "json" >> /\ p[n + 4] = << "temp", "md" >>
               /\ p[n + 5] = << "fill", "md" >> /\ p[n + 6] = << "replace", "md" >>
  <1> DEFINE n == Len(StagesOf(cmd))
             a == [k \in DOMAIN StagesOf(cmd) |-> << "stage", StagesOf(cmd)[k] >>]
             b == [k \in 1..3 |-> << WriteSteps[k], "json" >>]
             c == [k \in 1..3 |-> << WriteSteps[k], "md" >>]
             S == { a[k] : k \in 1..n } \cup { b[k] : k \in 1..3 } \cup { c[k] : k \in 1..3 }
  <1>1. n \in Nat /\ DOMAIN StagesOf(cmd) = 1..n
    BY StageCount
  <1>2. /\ a \in [1..n -> S] /\ \A k \in 1..n : a[k] = << "stage", StagesOf(cmd)[k] >>
        /\ b \in [1..3 -> S] /\ c \in [1..3 -> S]
    BY <1>1
  <1>3. /\ b[1] = << "temp", "json" >> /\ b[2] = << "fill", "json" >> /\ b[3] = << "replace", "json" >>
        /\ c[1] = << "temp", "md" >> /\ c[2] = << "fill", "md" >> /\ c[3] = << "replace", "md" >>
    BY DEF WriteSteps
  <1>4. Program(cmd) = (a \o b) \o c
    BY DEF Program
  <1> HIDE DEF a, b, c, S, n
  <1>5. a \in Seq(S) /\ b \in Seq(S) /\ c \in Seq(S) /\ Len(a) = n /\ Len(b) = 3 /\ Len(c) = 3
    <2>1. a \in Seq(S) /\ b \in Seq(S) /\ c \in Seq(S)
      BY <1>1, <1>2, SeqDef
    <2>2. DOMAIN a = 1..n /\ DOMAIN b = 1..3 /\ DOMAIN c = 1..3
      BY <1>2
    <2> QED
      BY <1>1, <2>1, <2>2, LenProperties
  <1>6. /\ a \o b \in Seq(S) /\ Len(a \o b) = n + 3
        /\ \A i \in 1..(n + 3) : (a \o b)[i] = IF i <= n THEN a[i] ELSE b[i - n]
    <2>1. /\ a \o b \in Seq(S) /\ Len(a \o b) = Len(a) + Len(b)
          /\ \A i \in 1..(Len(a) + Len(b)) : (a \o b)[i] = IF i <= Len(a) THEN a[i] ELSE b[i - Len(a)]
      BY <1>5, ConcatProperties
    <2> QED
      BY <1>5, <2>1
  <1>7. /\ Len((a \o b) \o c) = n + 6
        /\ \A i \in 1..(n + 6) : ((a \o b) \o c)[i] = IF i <= n + 3 THEN (a \o b)[i] ELSE c[i - (n + 3)]
    BY <1>1, <1>5, <1>6, ConcatProperties
  <1>8. ASSUME NEW k \in 1..n
        PROVE  Program(cmd)[k] = << "stage", StagesOf(cmd)[k] >>
    <2>1. k <= n /\ k <= n + 3 /\ k \in 1..(n + 3) /\ k \in 1..(n + 6)
      BY <1>1
    <2> QED
      BY <1>2, <1>4, <1>6, <1>7, <2>1
  <1>9. ASSUME NEW k \in 1..3
        PROVE  Program(cmd)[n + k] = b[k] /\ Program(cmd)[n + 3 + k] = c[k]
    <2>1. /\ n + k \in 1..(n + 3) /\ n + k \in 1..(n + 6) /\ ~(n + k <= n) /\ n + k <= n + 3
          /\ n + 3 + k \in 1..(n + 6) /\ ~(n + 3 + k <= n + 3)
          /\ (n + k) - n = k /\ (n + 3 + k) - (n + 3) = k
      BY <1>1
    <2> QED
      BY <1>4, <1>6, <1>7, <2>1
  <1>10. /\ Program(cmd)[n + 1] = b[1] /\ Program(cmd)[n + 2] = b[2] /\ Program(cmd)[n + 3] = b[3]
         /\ Program(cmd)[n + 3 + 1] = c[1] /\ Program(cmd)[n + 3 + 2] = c[2]
         /\ Program(cmd)[n + 3 + 3] = c[3]
    BY <1>9
  <1>11. n + 3 + 1 = n + 4 /\ n + 3 + 2 = n + 5 /\ n + 3 + 3 = n + 6
    BY <1>1
  <1> QED
    BY <1>3, <1>4, <1>7, <1>8, <1>10, <1>11 DEF n

-----------------------------------------------------------------------------
(* The inductive invariant.                                                *)

Typed ==
    /\ job \in [Jobs -> [cmd : AllCommands \cup {"none"}, run : RunId, structured : RunId,
                         dataset : Datasets \cup {NoDataset}]]
    /\ at \in [Jobs -> Nat]
    /\ ended \in [Jobs -> {"no", "stage", "write", "crash"}]
    /\ results \in [Jobs -> Seq(Returned)]
    /\ met \in [Jobs -> SUBSET Jobs]
    /\ used \in [starts : Nat, crashes : Nat]
    /\ \A d \in dirs : d[1] \in RunId

\* The results of a process are those of the stages it went through, in their order.
Progress(j) ==
    LET n == Stages(j)
        r == results[j]
    IN  /\ at[j] <= n + 6
        /\ job[j].cmd = "none" => at[j] = 0 /\ ended[j] = "no"
        /\ job[j].cmd = "ingest" => job[j].run.prefix # job[j].structured.prefix
        /\ Len(r) = (IF at[j] < n THEN at[j] ELSE n) + (IF ended[j] = "stage" THEN 1 ELSE 0)
        /\ ended[j] = "stage" => at[j] < n /\ ~Caught(job[j].cmd, StagesOf(job[j].cmd)[at[j] + 1])
        /\ \A k \in 1..Len(r) :
            /\ r[k][1] = StagesOf(job[j].cmd)[k]
            /\ r[k][2] = RunOfStage(j, r[k][1])
            /\ r[k][3] = "error" => Caught(job[j].cmd, r[k][1]) \/ ended[j] = "stage"

Alive(j) == job[j].cmd # "none" /\ ended[j] = "no" /\ at[j] < Stages(j) + 6

\* The temporary file of a process that is not dead.
Expected(t) ==
    LET j == t.by
        n == Stages(j)
    IN  /\ Alive(j)
        /\ \/ t.ext = "json" /\ at[j] = n + 1 /\ t.text = NoManifest
           \/ t.ext = "json" /\ at[j] = n + 2 /\ t.text = Manifest(j)
           \/ t.ext = "md" /\ at[j] = n + 4 /\ t.text = NoManifest
           \/ t.ext = "md" /\ at[j] = n + 5 /\ t.text = Manifest(j)
TempsOwned ==
    \A t \in temps :
        /\ t = [by |-> t.by, ext |-> t.ext, text |-> t.text]
        /\ t.by \in Jobs
        /\ ended[t.by] = "crash" \/ Expected(t)
TempsThere ==
    \A j \in Jobs : Alive(j) =>
        /\ at[j] \in {Stages(j) + 1, Stages(j) + 2} =>
            \E t \in temps : t.by = j /\ t.ext = "json"
        /\ at[j] \in {Stages(j) + 4, Stages(j) + 5} =>
            \E t \in temps : t.by = j /\ t.ext = "md"

\* Each file is the whole manifest of a process that got as far as replacing it.
FilesOwned ==
    \A f \in files :
        LET j == f.text.by
        IN  /\ j \in Jobs
            /\ f.text = Manifest(j) /\ f.path = Path(j)
            /\ \/ f.ext = "json" /\ at[j] >= Stages(j) + 3
               \/ f.ext = "md" /\ at[j] = Stages(j) + 6
FilesUnique == \A f, g \in files : f.path = g.path /\ f.ext = g.ext => f = g
FilesThere ==
    \A j \in Jobs : at[j] >= Stages(j) + 3 =>
        \E f \in files : f.path = Path(j) /\ f.ext = "json"

\* A process that is still to replace its summary has met the one whose manifest stands at
\* its path, when that one has begun its own summary.
MetInTime ==
    \A f \in files : \A k \in Jobs :
        LET i == f.text.by
        IN  (/\ f.ext = "json" /\ k # i /\ Path(k) = f.path
             /\ at[i] >= Stages(i) + 4
             /\ Alive(k) /\ at[k] >= Stages(k) + 3) => i \in met[k]
MetAtLast ==
    \A f, g \in files :
        LET i == f.text.by
            k == g.text.by
        IN  (/\ f.path = g.path /\ f.ext = "json" /\ g.ext = "md"
             /\ i # k /\ at[i] = Stages(i) + 6) => i \in met[k]

CommandInv ==
    /\ Typed
    /\ \A j \in Jobs : Progress(j)
    /\ TempsOwned /\ TempsThere
    /\ FilesOwned /\ FilesUnique /\ FilesThere
    /\ MetInTime /\ MetAtLast

-----------------------------------------------------------------------------
(* What a process does next.                                               *)

\* A process goes through its stages, then makes, fills and renames each temporary file.
LEMMA NextStep ==
    ASSUME NEW j \in Jobs, at[j] \in Nat, at[j] <= Stages(j) + 6
    PROVE  LET n == Stages(j) IN
           /\ n \in Nat /\ n >= 1
           /\ Active(j) <=> Alive(j)
           /\ Doing(j)[1] = "stage" <=> Alive(j) /\ at[j] < n
           /\ Doing(j)[1] = "stage" => Doing(j)[2] = StagesOf(job[j].cmd)[at[j] + 1]
           /\ Doing(j)[1] = "temp" <=> Alive(j) /\ at[j] \in {n, n + 3}
           /\ Doing(j)[1] = "fill" <=> Alive(j) /\ at[j] \in {n + 1, n + 4}
           /\ Doing(j)[1] = "replace" <=> Alive(j) /\ at[j] \in {n + 2, n + 5}
           /\ Alive(j) /\ at[j] \in {n, n + 1, n + 2} => Doing(j)[2] = "json"
           /\ Alive(j) /\ at[j] \in {n + 3, n + 4, n + 5} => Doing(j)[2] = "md"
           /\ Writing(j) <=> Alive(j) /\ at[j] >= n
  <1> DEFINE n == Stages(j)
             p == Program(job[j].cmd)
             a == at[j]
  <1>1. n \in Nat /\ n >= 1
    <2>1. Len(StagesOf(job[j].cmd)) = IF job[j].cmd = "ingest" THEN 9 ELSE 1
      BY StageCount
    <2> QED
      BY <2>1 DEF Stages
  <1>2. /\ Len(p) = n + 6
        /\ \A k \in 1..n : p[k] = << "stage", StagesOf(job[j].cmd)[k] >>
        /\ p[n + 1] = << "temp", "json" >> /\ p[n + 2] = << "fill", "json" >>
        /\ p[n + 3] = << "replace", "json" >> /\ p[n + 4] = << "temp", "md" >>
        /\ p[n + 5] = << "fill", "md" >> /\ p[n + 6] = << "replace", "md" >>
    BY ProgramSteps DEF Stages
  <1>3. Active(j) <=> Alive(j)
    BY <1>1, <1>2 DEF Active, Over, Alive
  <1>4. Doing(j) = IF Alive(j) THEN p[a + 1] ELSE << "none", "none" >>
    BY <1>3 DEF Doing
  <1>5. a \in Nat /\ a <= n + 6 /\ (Alive(j) => a < n + 6)
    BY DEF Alive
  <1>6. Writing(j) <=> Doing(j)[1] \in {"temp", "fill", "replace"}
    BY DEF Writing
  <1> HIDE DEF n, p, a
  <1>7. CASE ~Alive(j)
    BY <1>1, <1>3, <1>4, <1>6, <1>7 DEF n
  <1>8. CASE Alive(j) /\ a < n
    <2>1. Doing(j) = << "stage", StagesOf(job[j].cmd)[a + 1] >>
      BY <1>1, <1>2, <1>4, <1>5, <1>8
    <2>2. Doing(j)[1] = "stage" /\ Doing(j)[2] = StagesOf(job[j].cmd)[a + 1]
      BY <2>1
    <2> QED
      BY <1>1, <1>3, <1>5, <1>6, <1>8, <2>2 DEF n, a
  <1>9. ASSUME Alive(j), ~(a < n)
        PROVE  \/ a = n /\ Doing(j) = << "temp", "json" >>
               \/ a = n + 1 /\ Doing(j) = << "fill", "json" >>
               \/ a = n + 2 /\ Doing(j) = << "replace", "json" >>
               \/ a = n + 3 /\ Doing(j) = << "temp", "md" >>
               \/ a = n + 4 /\ Doing(j) = << "fill", "md" >>
               \/ a = n + 5 /\ Doing(j) = << "replace", "md" >>
    <2>1. a \in {n, n + 1, n + 2, n + 3, n + 4, n + 5}
      BY <1>1, <1>5, <1>9
    <2>2. Doing(j) = p[a + 1]
      BY <1>4, <1>9
    <2>3. n + 1 + 1 = n + 2 /\ n + 2 + 1 = n + 3 /\ n + 3 + 1 = n + 4 /\ n + 4 + 1 = n + 5
          /\ n + 5 + 1 = n + 6
      BY <1>1
    <2> QED
      BY <1>2, <2>1, <2>2, <2>3
  <1>10. CASE Alive(j) /\ ~(a < n)
    <2>1. PICK d \in {<< "temp", "json" >>, << "fill", "json" >>, << "replace", "json" >>,
                      << "temp", "md" >>, << "fill", "md" >>, << "replace", "md" >>} :
            /\ Doing(j) = d
            /\ d = << "temp", "json" >> => a = n
            /\ d = << "fill", "json" >> => a = n + 1
            /\ d = << "replace", "json" >> => a = n + 2
            /\ d = << "temp", "md" >> => a = n + 3
            /\ d = << "fill", "md" >> => a = n + 4
            /\ d = << "replace", "md" >> => a = n + 5
      BY <1>9, <1>10
    <2> QED
      BY <1>1, <1>3, <1>6, <1>10, <2>1 DEF n, a
  <1> QED
    BY <1>7, <1>8, <1>10

\* The run ids a command is given are run ids, and a batch's is that of a PDF ingest.
LEMMA RunIdsTyped ==
    ASSUME Typed, NEW cmd \in AllCommands
    PROVE  /\ RunIds(cmd) \subseteq RunId
           /\ cmd = "ingest" => \A r \in RunIds(cmd) : r.prefix = "unstructured_ingest"
           /\ [prefix |-> "structured_ingest", at |-> used.starts + 1] \in RunId
  <1> DEFINE names == { ScopeNames[k] : k \in DOMAIN ScopeNames }
  <1>1. /\ "ask" \in names /\ "structured_ingest" \in names /\ "unstructured_ingest" \in names
        /\ "dry_run_no_scope" \in names
    <2>1. 1 \in DOMAIN ScopeNames /\ 2 \in DOMAIN ScopeNames /\ 3 \in DOMAIN ScopeNames
          /\ 4 \in DOMAIN ScopeNames
      BY DEF ScopeNames
    <2>2. /\ ScopeNames[1] = "ask" /\ ScopeNames[2] = "dry_run_no_scope"
          /\ ScopeNames[3] = "structured_ingest" /\ ScopeNames[4] = "unstructured_ingest"
      BY DEF ScopeNames
    <2> QED
      BY <2>1, <2>2
  <1>2. RunId = [prefix : names, at : Nat]
    BY DEF RunId
  <1>3. used.starts + 1 \in Nat
    BY DEF Typed
  <1> HIDE DEF names
  <1>4. /\ [prefix |-> "ask", at |-> used.starts + 1] \in RunId
        /\ [prefix |-> "structured_ingest", at |-> used.starts + 1] \in RunId
        /\ [prefix |-> "unstructured_ingest", at |-> used.starts + 1] \in RunId
        /\ NoScopeRun \in RunId
    BY <1>1, <1>2, <1>3 DEF NoScopeRun
  <1>5. { d[1] : d \in { d \in dirs : d[1].prefix = "unstructured_ingest" } } \subseteq RunId
    BY DEF Typed
  <1>6. cmd \in {"ingest-structured", "ingest-pdf", "extract-claims", "resolve-entities",
                 "ask", "ask-all", "ingest"}
    BY DEF AllCommands, StageOf
  <1>7. RunIds(cmd) \subseteq RunId
    BY <1>4, <1>5, <1>6 DEF RunIds
  <1>8. ASSUME cmd = "ingest"
        PROVE  RunIds(cmd) = {[prefix |-> "unstructured_ingest", at |-> used.starts + 1]}
    BY <1>8 DEF RunIds
  <1> QED
    BY <1>4, <1>7, <1>8

\* The benchmark is a stage of batches alone.
LEMMA StageNamed ==
    ASSUME NEW cmd \in AllCommands, NEW k \in 1..Len(StagesOf(cmd))
    PROVE  /\ StagesOf(cmd)[k] \in AllStages
           /\ StagesOf(cmd)[k] = "retrieval_benchmark" => cmd = "ingest"
  <1>1. CASE cmd = "ingest"
    <2>1. StagesOf(cmd) = BatchStages /\ k \in DOMAIN BatchStages
      BY <1>1, StageCount DEF StagesOf
    <2> QED
      BY <1>1, <2>1 DEF AllStages
  <1>2. CASE cmd # "ingest"
    <2>1. StagesOf(cmd) = << StageOf[cmd] >> /\ k = 1
      BY <1>2, StageCount DEF StagesOf
    <2>2. cmd \in DOMAIN StageOf
      BY <1>2 DEF AllCommands
    <2>3. cmd \in {"ingest-structured", "ingest-pdf", "extract-claims", "resolve-entities",
                   "ask", "ask-all"}
      BY <2>2 DEF StageOf
    <2>4. StageOf[cmd] \in {"structured_ingest", "pdf_ingest", "claim_and_mention_extraction",
                            "entity_resolution", "retrieval_and_qa"}
      BY <2>3 DEF StageOf
    <2>5. << StageOf[cmd] >>[1] = StageOf[cmd]
      OBVIOUS
    <2> QED
      BY <2>1, <2>2, <2>4, <2>5 DEF AllStages
  <1> QED
    BY <1>1, <1>2

\* What is known of the stage a process is about to run.
LEMMA StageFacts ==
    ASSUME Typed, NEW j \in Jobs, Progress(j), Doing(j)[1] = "stage"
    PROVE  /\ Alive(j) /\ at[j] \in Nat /\ Stages(j) \in Nat /\ at[j] < Stages(j)
           /\ job[j].cmd \in AllCommands
           /\ Doing(j)[2] = StagesOf(job[j].cmd)[at[j] + 1]
           /\ Doing(j)[2] \in AllStages
           /\ RunOfStage(j, Doing(j)[2]) \in RunId
           /\ Len(results[j]) = at[j] /\ results[j] \in Seq(Returned)
           /\ Doing(j)[2] = "retrieval_benchmark" => Caught(job[j].cmd, Doing(j)[2])
  <1>1. /\ at[j] \in Nat /\ results[j] \in Seq(Returned)
        /\ job[j] \in [cmd : AllCommands \cup {"none"}, run : RunId, structured : RunId,
                       dataset : Datasets \cup {NoDataset}]
    BY DEF Typed
  <1>2. at[j] <= Stages(j) + 6
    BY DEF Progress
  <1>3. /\ Stages(j) \in Nat /\ Alive(j) /\ at[j] < Stages(j)
        /\ Doing(j)[2] = StagesOf(job[j].cmd)[at[j] + 1]
    BY <1>1, <1>2, NextStep
  <1>4. job[j].cmd \in AllCommands
    BY <1>1, <1>3 DEF Alive
  <1>5. at[j] + 1 \in 1..Len(StagesOf(job[j].cmd))
    BY <1>1, <1>3 DEF Stages
  <1>6. /\ Doing(j)[2] \in AllStages
        /\ Doing(j)[2] = "retrieval_benchmark" => job[j].cmd = "ingest"
    BY <1>3, <1>4, <1>5, StageNamed
  <1>7. RunOfStage(j, Doing(j)[2]) \in RunId
    BY <1>1 DEF RunOfStage
  <1>8. Len(results[j]) = at[j]
    BY <1>1, <1>3 DEF Progress, Alive
  <1> QED
    BY <1>1, <1>3, <1>4, <1>6, <1>7, <1>8 DEF Caught

\* A result appended to what a process had.
LEMMA Appended ==
    ASSUME NEW r \in Seq(Returned), NEW e \in Returned
    PROVE  /\ Append(r, e) \in Seq(Returned) /\ Len(r) \in Nat /\ Len(Append(r, e)) = Len(r) + 1
           /\ \A k \in 1..Len(r) : Append(r, e)[k] = r[k]
           /\ Append(r, e)[Len(r) + 1] = e
  BY AppendProperties, LenProperties

\* A process that starts gets a command, and a run for it.
LEMMA Started ==
    ASSUME Typed, NEW j \in Jobs, Start(j)
    PROVE  \E new \in [cmd : AllCommands \cup {"none"}, run : RunId, structured : RunId,
                        dataset : Datasets \cup {NoDataset}] :
              /\ job' = [job EXCEPT ![j] = new]
              /\ new.cmd \in AllCommands
              /\ new.cmd = "ingest" => new.run.prefix # new.structured.prefix
  <1>1. PICK i \in Invocations : \E r \in RunIds(i[1]) :
            job' = [job EXCEPT ![j] =
                [cmd |-> i[1], run |-> r, dataset |-> IF i[1] = "ask-all" THEN NoDataset ELSE i[2],
                 structured |-> IF i[1] = "ingest-structured" THEN r
                                ELSE [prefix |-> "structured_ingest", at |-> used.starts + 1]]]
    BY DEF Start
  <1>2. PICK r \in RunIds(i[1]) :
            job' = [job EXCEPT ![j] =
                [cmd |-> i[1], run |-> r, dataset |-> IF i[1] = "ask-all" THEN NoDataset ELSE i[2],
                 structured |-> IF i[1] = "ingest-structured" THEN r
                                ELSE [prefix |-> "structured_ingest", at |-> used.starts + 1]]]
    BY <1>1
  <1>3. i[1] \in AllCommands /\ i[2] \in Datasets
    BY InvocationsAssumption
  <1>4. /\ r \in RunId /\ [prefix |-> "structured_ingest", at |-> used.starts + 1] \in RunId
        /\ i[1] = "ingest" => r.prefix = "unstructured_ingest"
    BY <1>2, <1>3, RunIdsTyped
  <1> DEFINE new == [cmd |-> i[1], run |-> r,
                     dataset |-> IF i[1] = "ask-all" THEN NoDataset ELSE i[2],
                     structured |-> IF i[1] = "ingest-structured" THEN r
                                    ELSE [prefix |-> "structured_ingest", at |-> used.starts + 1]]
  <1>5. /\ new \in [cmd : AllCommands \cup {"none"}, run : RunId, structured : RunId,
                    dataset : Datasets \cup {NoDataset}]
        /\ new.cmd \in AllCommands
        /\ new.cmd = "ingest" => new.run.prefix # new.structured.prefix
    BY <1>3, <1>4
  <1> QED
    BY <1>2, <1>5

\* Every step keeps the types.
LEMMA TypedKept ==
    ASSUME Typed, \A j \in Jobs : Progress(j), [Next]_vars
    PROVE  Typed'
  <1> DEFINE Record == [cmd : AllCommands \cup {"none"}, run : RunId, structured : RunId,
                        dataset : Datasets \cup {NoDataset}]
  <1>1. /\ job \in [Jobs -> Record] /\ at \in [Jobs -> Nat]
        /\ ended \in [Jobs -> {"no", "stage", "write", "crash"}]
        /\ results \in [Jobs -> Seq(Returned)] /\ met \in [Jobs -> SUBSET Jobs]
        /\ used \in [starts : Nat, crashes : Nat] /\ \A d \in dirs : d[1] \in RunId
    BY DEF Typed
  <1> SUFFICES /\ job' \in [Jobs -> Record] /\ at' \in [Jobs -> Nat]
               /\ ended' \in [Jobs -> {"no", "stage", "write", "crash"}]
               /\ results' \in [Jobs -> Seq(Returned)] /\ met' \in [Jobs -> SUBSET Jobs]
               /\ used' \in [starts : Nat, crashes : Nat] /\ \A d \in dirs' : d[1] \in RunId
    BY DEF Typed
  <1>2. CASE UNCHANGED vars
    BY <1>1, <1>2 DEF vars, jobVars, fileVars
  <1>3. ASSUME NEW j \in Jobs, Start(j)
        PROVE  job' \in [Jobs -> Record] /\ used' \in [starts : Nat, crashes : Nat]
               /\ UNCHANGED << at, ended, results, met, dirs >>
    <2>1. PICK new \in Record : job' = [job EXCEPT ![j] = new]
      BY <1>3, Started
    <2>2. job' \in [Jobs -> Record]
      BY <1>1, <2>1
    <2>3. used' \in [starts : Nat, crashes : Nat]
      <3>1. used' = [used EXCEPT !.starts = @ + 1]
        BY <1>3 DEF Start
      <3>2. used.starts + 1 \in Nat
        BY <1>1
      <3>3. \A n \in Nat : [used EXCEPT !.starts = n] \in [starts : Nat, crashes : Nat]
        BY <1>1
      <3> QED
        BY <3>1, <3>2, <3>3
    <2> QED
      BY <1>3, <2>2, <2>3 DEF Start, fileVars
  <1>4. ASSUME NEW j \in Jobs, RunStage(j) \/ StageRaises(j)
        PROVE  /\ results' \in [Jobs -> Seq(Returned)] /\ \A d \in dirs' : d[1] \in RunId
               /\ at' \in [Jobs -> Nat] /\ ended' \in [Jobs -> {"no", "stage", "write", "crash"}]
               /\ UNCHANGED << job, met, used >>
    <2> DEFINE stage == Doing(j)[2]
               run == RunOfStage(j, stage)
    <2>1. Doing(j)[1] = "stage"
      BY <1>4 DEF RunStage, StageRaises
    <2>2. stage \in AllStages /\ run \in RunId
      BY <2>1, StageFacts
    <2>3. PICK out \in {"ok", "full", "degraded", "error"} :
            results' = [results EXCEPT ![j] = Append(@, << stage, run, out >>)]
      BY <1>4 DEF RunStage, StageRaises, Outputs
    <2>4. dirs' = dirs \cup ({run} \X ArtifactDirs(stage))
      BY <1>4 DEF RunStage, StageRaises
    <2> HIDE DEF stage, run
    <2>5. << stage, run, out >> \in Returned
      BY <2>2 DEF Returned
    <2>6. results[j] \in Seq(Returned)
      BY <1>1
    <2>7. Append(results[j], << stage, run, out >>) \in Seq(Returned)
      BY <2>5, <2>6, Appended
    <2>8. results' \in [Jobs -> Seq(Returned)]
      BY <1>1, <2>3, <2>7
    <2>9. \A d \in dirs' : d[1] \in RunId
      BY <1>1, <2>2, <2>4
    <2>10. at' = at \/ at' = [at EXCEPT ![j] = @ + 1]
      BY <1>4 DEF RunStage, StageRaises, Forward
    <2>11. at' \in [Jobs -> Nat]
      BY <1>1, <2>10
    <2>12. ended' = ended \/ ended' = [ended EXCEPT ![j] = "stage"]
      BY <1>4 DEF RunStage, StageRaises
    <2> QED
      BY <1>1, <1>4, <2>8, <2>9, <2>11, <2>12 DEF RunStage, StageRaises
  <1>5. ASSUME NEW j \in Jobs, MakeTemp(j)
        PROVE  /\ at' \in [Jobs -> Nat] /\ met' \in [Jobs -> SUBSET Jobs]
               /\ \A d \in dirs' : d[1] \in RunId
               /\ UNCHANGED << job, ended, results, used >>
    <2>1. at' \in [Jobs -> Nat]
      BY <1>1, <1>5 DEF MakeTemp, Forward
    <2>2. met' \in [Jobs -> SUBSET Jobs]
      BY <1>1, <1>5 DEF MakeTemp
    <2>3. \A d \in dirs' : d \in dirs \/ (job[j].cmd # "ingest" /\ d = Path(j))
      BY <1>5 DEF MakeTemp
    <2>4. job[j].run \in RunId
      BY <1>1
    <2>5. job[j].cmd # "ingest" => Path(j)[1] \in RunId
      BY <2>4 DEF Path
    <2> QED
      BY <1>1, <1>5, <2>1, <2>2, <2>3, <2>5 DEF MakeTemp
  <1>6. ASSUME NEW j \in Jobs, FillTemp(j) \/ Replace(j)
        PROVE  at' \in [Jobs -> Nat] /\ UNCHANGED << job, ended, results, dirs, met, used >>
    <2>1. at' = [at EXCEPT ![j] = @ + 1] /\ UNCHANGED << job, ended, results, dirs, met, used >>
      BY <1>6 DEF FillTemp, Replace, Forward
    <2> QED
      BY <1>1, <2>1
  <1>7. ASSUME NEW j \in Jobs, FailWrite(j)
        PROVE  /\ ended' \in [Jobs -> {"no", "stage", "write", "crash"}]
               /\ UNCHANGED << job, at, results, dirs, met, used >>
    BY <1>1, <1>7 DEF FailWrite
  <1>8. ASSUME NEW j \in Jobs, Crash(j)
        PROVE  /\ ended' \in [Jobs -> {"no", "stage", "write", "crash"}]
               /\ used' \in [starts : Nat, crashes : Nat]
               /\ UNCHANGED << job, at, results, dirs, met >>
    <2>1. /\ used' = [used EXCEPT !.crashes = @ + 1] /\ ended' = [ended EXCEPT ![j] = "crash"]
          /\ UNCHANGED << job, at, results, dirs, met >>
      BY <1>8 DEF Crash, fileVars
    <2>2. used.crashes + 1 \in Nat
      BY <1>1
    <2>3. \A n \in Nat : [used EXCEPT !.crashes = n] \in [starts : Nat, crashes : Nat]
      BY <1>1
    <2>4. ended' \in [Jobs -> {"no", "stage", "write", "crash"}]
      BY <1>1, <2>1
    <2> QED
      BY <2>1, <2>2, <2>3, <2>4
  <1> HIDE DEF Record
  <1> QED
    <2>1. CASE Next
      <3>1. PICK j \in Jobs : Start(j) \/ RunStage(j) \/ StageRaises(j) \/ MakeTemp(j)
                               \/ FillTemp(j) \/ Replace(j) \/ FailWrite(j) \/ Crash(j)
        BY <2>1 DEF Next
      <3>2. CASE Start(j)
        BY <1>1, <1>3, <3>2
      <3>3. CASE RunStage(j) \/ StageRaises(j)
        BY <1>1, <1>4, <3>3
      <3>4. CASE MakeTemp(j)
        BY <1>1, <1>5, <3>4
      <3>5. CASE FillTemp(j) \/ Replace(j)
        BY <1>1, <1>6, <3>5
      <3>6. CASE FailWrite(j) \/ Crash(j)
        BY <1>1, <1>7, <1>8, <3>6
      <3> QED
        BY <3>1, <3>2, <3>3, <3>4, <3>5, <3>6
    <2> QED
      BY <1>2, <2>1

-----------------------------------------------------------------------------
(* How a step moves the process that takes it.                             *)

Rests(k) ==
    /\ job'[k] = job[k] /\ at'[k] = at[k] /\ ended'[k] = ended[k] /\ results'[k] = results[k]
Starts(j) ==
    /\ job[j].cmd = "none"
    /\ job'[j].cmd \in AllCommands
    /\ job'[j].cmd = "ingest" => job'[j].run.prefix # job'[j].structured.prefix
    /\ at'[j] = at[j] /\ ended'[j] = ended[j] /\ results'[j] = results[j]
Advances(j) ==
    /\ Alive(j) /\ at[j] < Stages(j)
    /\ job'[j] = job[j]
    /\ \E out \in {"ok", "full", "degraded", "error"} :
        LET stage == StagesOf(job[j].cmd)[at[j] + 1] IN
        /\ results'[j] = Append(results[j], << stage, RunOfStage(j, stage), out >>)
        /\ \/ /\ at'[j] = at[j] + 1 /\ ended'[j] = ended[j]
              /\ out = "error" => Caught(job[j].cmd, stage)
           \/ /\ at'[j] = at[j] /\ ended'[j] = "stage"
              /\ ~Caught(job[j].cmd, stage)
Writes(j) ==
    /\ Alive(j) /\ at[j] >= Stages(j)
    /\ job'[j] = job[j] /\ results'[j] = results[j] /\ ended'[j] = ended[j]
    /\ at'[j] = at[j] + 1
Stops(j) ==
    /\ Alive(j)
    /\ job'[j] = job[j] /\ results'[j] = results[j] /\ at'[j] = at[j]
    /\ ended'[j] \in {"write", "crash"}

\* A start moves a process from nothing to its first step.
LEMMA StartMoves ==
    ASSUME Typed, NEW j \in Jobs, Start(j)
    PROVE  Starts(j) /\ \A k \in Jobs \ {j} : Rests(k)
  <1>1. PICK new \in [cmd : AllCommands \cup {"none"}, run : RunId, structured : RunId,
                      dataset : Datasets \cup {NoDataset}] :
            /\ job' = [job EXCEPT ![j] = new]
            /\ new.cmd \in AllCommands
            /\ new.cmd = "ingest" => new.run.prefix # new.structured.prefix
    BY Started
  <1>2. job'[j] = new /\ \A k \in Jobs \ {j} : job'[k] = job[k]
    BY <1>1 DEF Typed
  <1>3. job[j].cmd = "none" /\ UNCHANGED << at, ended, results >>
    BY DEF Start
  <1> QED
    BY <1>1, <1>2, <1>3 DEF Starts, Rests

\* A stage that returns or raises moves its process one stage on, or ends it.
LEMMA StageMoves ==
    ASSUME Typed, NEW j \in Jobs, Progress(j), RunStage(j) \/ StageRaises(j)
    PROVE  /\ Doing(j)[1] = "stage"
           /\ Advances(j) /\ \A k \in Jobs \ {j} : Rests(k)
           /\ UNCHANGED << files, temps, met >>
  <1>1. Doing(j)[1] = "stage"
    BY DEF RunStage, StageRaises
  <1> DEFINE stage == Doing(j)[2]
             run == RunOfStage(j, stage)
  <1>2. /\ Alive(j) /\ at[j] < Stages(j)
        /\ stage = StagesOf(job[j].cmd)[at[j] + 1]
    BY <1>1, StageFacts
  <1>3. PICK out \in {"ok", "full", "degraded", "error"} :
            /\ results' = [results EXCEPT ![j] = Append(@, << stage, run, out >>)]
            /\ \/ /\ at' = [at EXCEPT ![j] = @ + 1] /\ ended' = ended
                  /\ out = "error" => Caught(job[j].cmd, stage)
               \/ /\ at' = at /\ ended' = [ended EXCEPT ![j] = "stage"]
                  /\ ~Caught(job[j].cmd, stage)
    <2>1. CASE RunStage(j)
      <3>1. PICK out \in Outputs(stage) :
              results' = [results EXCEPT ![j] = Append(@, << stage, run, out >>)]
        BY <2>1 DEF RunStage
      <3>2. out \in {"ok", "full", "degraded"}
        BY <3>1 DEF Outputs
      <3>3. at' = [at EXCEPT ![j] = @ + 1] /\ ended' = ended
        BY <2>1 DEF RunStage, Forward
      <3> HIDE DEF stage, run
      <3> QED
        BY <3>1, <3>2, <3>3
    <2>2. CASE StageRaises(j)
      <3>1. results' = [results EXCEPT ![j] = Append(@, << stage, run, "error" >>)]
        BY <2>2 DEF StageRaises
      <3>2. \/ /\ at' = [at EXCEPT ![j] = @ + 1] /\ ended' = ended
               /\ Caught(job[j].cmd, stage)
            \/ /\ at' = at /\ ended' = [ended EXCEPT ![j] = "stage"]
               /\ ~Caught(job[j].cmd, stage)
        BY <2>2 DEF StageRaises, Forward
      <3> HIDE DEF stage, run
      <3> QED
        BY <3>1, <3>2
    <2> QED
      BY <2>1, <2>2
  <1>4. UNCHANGED << job, files, temps, met >>
    BY DEF RunStage, StageRaises
  <1>5. run = RunOfStage(j, StagesOf(job[j].cmd)[at[j] + 1])
    BY <1>2
  <1> HIDE DEF stage, run
  <1>6. \A k \in Jobs \ {j} : Rests(k)
    BY <1>3, <1>4 DEF Typed, Rests
  <1>7. /\ results'[j] = Append(results[j], << stage, run, out >>)
        /\ at' = [at EXCEPT ![j] = @ + 1] => at'[j] = at[j] + 1
        /\ ended' = [ended EXCEPT ![j] = "stage"] => ended'[j] = "stage"
    BY <1>3 DEF Typed
  <1>8. Advances(j)
    BY <1>2, <1>3, <1>4, <1>5, <1>7 DEF Advances
  <1> QED
    BY <1>1, <1>4, <1>6, <1>8

\* A step of a manifest write moves its process one step on.
LEMMA WriteMoves ==
    ASSUME Typed, NEW j \in Jobs, Progress(j), MakeTemp(j) \/ FillTemp(j) \/ Replace(j)
    PROVE  Writes(j) /\ \A k \in Jobs \ {j} : Rests(k)
  <1>1. Doing(j)[1] \in {"temp", "fill", "replace"}
    BY DEF MakeTemp, FillTemp, Replace
  <1>2. at[j] \in Nat /\ at[j] <= Stages(j) + 6
    BY DEF Typed, Progress
  <1>3. Stages(j) \in Nat /\ Alive(j) /\ at[j] >= Stages(j)
    BY <1>1, <1>2, NextStep
  <1>4. at' = [at EXCEPT ![j] = @ + 1] /\ UNCHANGED << job, results, ended >>
    BY DEF MakeTemp, FillTemp, Replace, Forward
  <1>5. at'[j] = at[j] + 1 /\ \A k \in Jobs \ {j} : at'[k] = at[k]
    BY <1>4 DEF Typed
  <1> QED
    BY <1>3, <1>4, <1>5 DEF Writes, Rests

\* A write that raises and a kill end a process and move nothing else.
LEMMA StopMoves ==
    ASSUME Typed, NEW j \in Jobs, Progress(j), FailWrite(j) \/ Crash(j)
    PROVE  Stops(j) /\ (\A k \in Jobs \ {j} : Rests(k)) /\ UNCHANGED << at, files, met >>
  <1>1. Active(j)
    BY DEF FailWrite, Crash, Writing, Doing
  <1>2. at[j] \in Nat /\ at[j] <= Stages(j) + 6
    BY DEF Typed, Progress
  <1>3. Alive(j)
    BY <1>1, <1>2, NextStep
  <1>4. /\ UNCHANGED << job, results, at, files, met >>
        /\ \E e \in {"write", "crash"} : ended' = [ended EXCEPT ![j] = e]
    BY DEF FailWrite, Crash, fileVars
  <1>5. ended'[j] \in {"write", "crash"} /\ \A k \in Jobs \ {j} : ended'[k] = ended[k]
    BY <1>4 DEF Typed
  <1> QED
    BY <1>3, <1>4, <1>5 DEF Stops, Rests

\* One process moves at a time.
LEMMA Moves ==
    ASSUME Typed, \A j \in Jobs : Progress(j), Next
    PROVE  \E j \in Jobs : /\ Starts(j) \/ Advances(j) \/ Writes(j) \/ Stops(j)
                           /\ \A k \in Jobs \ {j} : Rests(k)
  <1>1. PICK j \in Jobs : Start(j) \/ RunStage(j) \/ StageRaises(j) \/ MakeTemp(j)
                           \/ FillTemp(j) \/ Replace(j) \/ FailWrite(j) \/ Crash(j)
    BY DEF Next
  <1>2. CASE Start(j)
    BY <1>2, StartMoves
  <1>3. CASE RunStage(j) \/ StageRaises(j)
    BY <1>3, StageMoves
  <1>4. CASE MakeTemp(j) \/ FillTemp(j) \/ Replace(j)
    BY <1>4, WriteMoves
  <1>5. CASE FailWrite(j) \/ Crash(j)
    BY <1>5, StopMoves
  <1> QED
    BY <1>1, <1>2, <1>3, <1>4, <1>5

-----------------------------------------------------------------------------
(* A process keeps to its program.                                         *)

\* A process that rests stands where it stood.
LEMMA RestsKeep ==
    ASSUME NEW k, Rests(k)
    PROVE  /\ Progress(k)' <=> Progress(k)
           /\ Alive(k)' <=> Alive(k)
           /\ Stages(k)' = Stages(k) /\ Path(k)' = Path(k)
  BY DEF Rests, Progress, Stages, Alive, Path, RunOfStage

\* Every step keeps each process to its program.
LEMMA ProgressKept ==
    ASSUME Typed, Typed', \A j \in Jobs : Progress(j), Next
    PROVE  \A j \in Jobs : Progress(j)'
  <1>1. PICK j \in Jobs : /\ Starts(j) \/ Advances(j) \/ Writes(j) \/ Stops(j)
                          /\ \A k \in Jobs \ {j} : Rests(k)
    BY Moves
  <1>2. \A k \in Jobs \ {j} : Progress(k)'
    BY <1>1, RestsKeep
  <1> DEFINE n == Stages(j)
             r == results[j]
  <1>3. at[j] \in Nat /\ r \in Seq(Returned) /\ Len(r) \in Nat /\ at'[j] \in Nat
    BY LenProperties DEF Typed
  <1>4. n \in Nat /\ n >= 1
    BY <1>3, NextStep DEF Progress
  <1>5. /\ at[j] <= n + 6
        /\ job[j].cmd = "none" => at[j] = 0 /\ ended[j] = "no"
        /\ job[j].cmd = "ingest" => job[j].run.prefix # job[j].structured.prefix
        /\ Len(r) = (IF at[j] < n THEN at[j] ELSE n) + (IF ended[j] = "stage" THEN 1 ELSE 0)
        /\ ended[j] = "stage" => at[j] < n /\ ~Caught(job[j].cmd, StagesOf(job[j].cmd)[at[j] + 1])
        /\ \A k \in 1..Len(r) :
            /\ r[k][1] = StagesOf(job[j].cmd)[k]
            /\ r[k][2] = RunOfStage(j, r[k][1])
            /\ r[k][3] = "error" => Caught(job[j].cmd, r[k][1]) \/ ended[j] = "stage"
    BY DEF Progress
  <1>6. ASSUME Starts(j)
        PROVE  Progress(j)'
    <2>1. Stages(j)' \in Nat /\ Stages(j)' >= 1
      <3>1. Len(StagesOf(job'[j].cmd)) = IF job'[j].cmd = "ingest" THEN 9 ELSE 1
        BY StageCount
      <3> QED
        BY <3>1 DEF Stages
    <2>2. at'[j] = 0 /\ ended'[j] = "no" /\ results'[j] = r /\ Len(r) = 0
      BY <1>4, <1>5, <1>6 DEF Starts
    <2>3. job'[j].cmd # "none"
      BY <1>6 DEF Starts, AllCommands, StageOf
    <2> QED
      BY <1>6, <2>1, <2>2, <2>3 DEF Progress, Starts, Stages, RunOfStage
  <1>7. ASSUME Advances(j)
        PROVE  Progress(j)'
    <2> DEFINE stage == StagesOf(job[j].cmd)[at[j] + 1]
               run == RunOfStage(j, stage)
    <2>1. PICK out \in {"ok", "full", "degraded", "error"} :
            /\ results'[j] = Append(r, << stage, run, out >>)
            /\ \/ /\ at'[j] = at[j] + 1 /\ ended'[j] = ended[j]
                  /\ out = "error" => Caught(job[j].cmd, stage)
               \/ /\ at'[j] = at[j] /\ ended'[j] = "stage"
                  /\ ~Caught(job[j].cmd, stage)
      BY <1>7 DEF Advances
    <2>2. /\ Alive(j) /\ at[j] < n /\ job'[j] = job[j] /\ ended[j] = "no" /\ job[j].cmd # "none"
      BY <1>7 DEF Advances, Alive
    <2>4. Len(r) = at[j]
      BY <1>3, <1>4, <1>5, <2>2
    <2> DEFINE e == << stage, run, out >>
               q == results'[j]
    <2>5. e[1] = stage /\ e[2] = run /\ e[3] = out
      OBVIOUS
    <2>6. stage \in AllStages /\ run \in RunId
      <3>1. job[j] \in [cmd : AllCommands \cup {"none"}, run : RunId, structured : RunId,
                        dataset : Datasets \cup {NoDataset}]
        BY DEF Typed
      <3>2. at[j] + 1 \in 1..Len(StagesOf(job[j].cmd)) /\ job[j].cmd \in AllCommands
        BY <1>3, <2>2, <3>1 DEF Stages
      <3> QED
        BY <3>1, <3>2, StageNamed DEF RunOfStage
    <2>7. run = RunOfStage(j, stage)
      OBVIOUS
    <2> HIDE DEF stage, run
    <2>8. e \in Returned
      BY <2>6 DEF Returned
    <2>9. /\ Len(q) = at[j] + 1
          /\ \A k \in 1..at[j] : q[k] = r[k]
          /\ q[at[j] + 1] = e
      BY <1>3, <2>1, <2>4, <2>8, Appended
    <2> HIDE DEF q, e
    <2>10. ASSUME NEW k \in 1..Len(q)
           PROVE  /\ q[k][1] = StagesOf(job[j].cmd)[k]
                  /\ q[k][2] = RunOfStage(j, q[k][1])
                  /\ q[k][3] = "error" => Caught(job[j].cmd, q[k][1]) \/ ended'[j] = "stage"
      <3>1. CASE k \in 1..at[j]
        BY <1>5, <2>2, <2>4, <2>9, <3>1
      <3>2. CASE k = at[j] + 1
        BY <2>1, <2>5, <2>7, <2>9, <3>2 DEF stage
      <3> QED
        BY <1>3, <2>9, <3>1, <3>2
    <2>11. /\ at'[j] <= n + 6
           /\ Len(q) = (IF at'[j] < n THEN at'[j] ELSE n) + (IF ended'[j] = "stage" THEN 1 ELSE 0)
      BY <1>3, <1>4, <2>1, <2>2, <2>9
    <2>12. ended'[j] = "stage" => at'[j] < n /\ ~Caught(job[j].cmd, StagesOf(job[j].cmd)[at'[j] + 1])
      BY <2>1, <2>2 DEF stage
    <2>13. /\ job'[j].cmd # "none"
           /\ job'[j].cmd = "ingest" => job'[j].run.prefix # job'[j].structured.prefix
      BY <1>5, <2>2
    <2>14. Stages(j)' = n
      BY <2>2 DEF Stages
    <2>15. \A k \in 1..Len(q) :
              /\ q[k][1] = StagesOf(job'[j].cmd)[k]
              /\ q[k][2] = IF q[k][1] = "structured_ingest" THEN job'[j].structured ELSE job'[j].run
              /\ q[k][3] = "error" => Caught(job'[j].cmd, q[k][1]) \/ ended'[j] = "stage"
      BY <2>2, <2>10 DEF RunOfStage
    <2>16. ended'[j] = "stage" => ~Caught(job'[j].cmd, StagesOf(job'[j].cmd)[at'[j] + 1])
      BY <2>2, <2>12
    <2> HIDE DEF n
    <2> QED
      BY <2>11, <2>12, <2>13, <2>14, <2>15, <2>16 DEF Progress, q, RunOfStage
  <1>8. ASSUME Writes(j)
        PROVE  Progress(j)'
    <2>1. /\ Alive(j) /\ at[j] >= n /\ at[j] < n + 6 /\ job[j].cmd # "none" /\ ended[j] = "no"
          /\ job'[j] = job[j] /\ results'[j] = r /\ ended'[j] = "no" /\ at'[j] = at[j] + 1
      BY <1>8 DEF Writes, Alive
    <2>3. at'[j] <= n + 6 /\ ~(at'[j] < n) /\ Len(r) = n
      BY <1>3, <1>4, <1>5, <2>1
    <2> QED
      BY <1>4, <1>5, <2>1, <2>3 DEF Progress, Stages, RunOfStage
  <1>9. ASSUME Stops(j)
        PROVE  Progress(j)'
    <2>1. /\ job[j].cmd # "none" /\ ended[j] = "no" /\ ended'[j] # "stage"
          /\ job'[j] = job[j] /\ results'[j] = r /\ at'[j] = at[j]
      BY <1>9 DEF Stops, Alive
    <2> QED
      BY <1>5, <2>1 DEF Progress, Stages, RunOfStage
  <1>10. Progress(j)'
    BY <1>1, <1>6, <1>7, <1>8, <1>9
  <1> QED
    BY <1>2, <1>10

-----------------------------------------------------------------------------
(* Temporary files.                                                        *)

\* A manifest is made of what a process was asked and of what its stages returned.
LEMMA SameManifest ==
    ASSUME NEW k, job'[k] = job[k], results'[k] = results[k]
    PROVE  Manifest(k)' = Manifest(k) /\ Path(k)' = Path(k) /\ Stages(k)' = Stages(k)
  <1>1. ResultOf(k, "retrieval_and_qa")' = ResultOf(k, "retrieval_and_qa")
    BY Zenon DEF ResultOf
  <1>2. Signals(k)' = Signals(k)
    BY <1>1 DEF Signals
  <1> QED
    BY <1>2 DEF Manifest, Path, Stages

\* Once its stages are done, a process no longer changes what its manifest says.
LEMMA ManifestFixed ==
    ASSUME Typed, \A j \in Jobs : Progress(j), Next, NEW i \in Jobs, at[i] >= Stages(i)
    PROVE  /\ job'[i] = job[i] /\ results'[i] = results[i]
           /\ Manifest(i)' = Manifest(i) /\ Path(i)' = Path(i) /\ Stages(i)' = Stages(i)
           /\ at'[i] \in {at[i], at[i] + 1}
           /\ Alive(i)' => Alive(i)
           /\ ~Alive(i) => at'[i] = at[i]
  <1>1. PICK j \in Jobs : /\ Starts(j) \/ Advances(j) \/ Writes(j) \/ Stops(j)
                          /\ \A k \in Jobs \ {j} : Rests(k)
    BY Moves
  <1>2. at[i] \in Nat /\ Stages(i) \in Nat /\ Stages(i) >= 1
    BY NextStep DEF Typed, Progress
  <1>3. ~(Starts(i) \/ Advances(i))
    BY <1>2 DEF Starts, Advances, Progress
  <1>4. Rests(i) \/ Writes(i) \/ Stops(i)
    BY <1>1, <1>3
  <1>5. /\ job'[i] = job[i] /\ results'[i] = results[i] /\ at'[i] \in {at[i], at[i] + 1}
        /\ ended'[i] = "no" => ended[i] = "no"
        /\ ~Alive(i) => at'[i] = at[i]
    BY <1>4 DEF Rests, Writes, Stops
  <1>6. Manifest(i)' = Manifest(i) /\ Path(i)' = Path(i) /\ Stages(i)' = Stages(i)
    BY <1>5, SameManifest
  <1>7. Alive(i)' => Alive(i)
    BY <1>2, <1>5, <1>6 DEF Alive
  <1> QED
    BY <1>5, <1>6, <1>7

\* The temporary files of a process that works are those it is about to fill or rename.
LEMMA OwnTemps ==
    ASSUME Typed, TempsOwned, NEW j \in Jobs, Progress(j), Alive(j),
           NEW t \in temps, t.by = j
    PROVE  /\ Expected(t)
           /\ at[j] \in {Stages(j) + 1, Stages(j) + 2, Stages(j) + 4, Stages(j) + 5}
           /\ t \in TempOf(j)
  <1>1. ended[j] = "no"
    BY DEF Alive
  <1>2. Expected(t)
    BY <1>1 DEF TempsOwned
  <1>3. at[j] \in Nat /\ at[j] <= Stages(j) + 6
    BY DEF Typed, Progress
  <1>4. /\ at[j] \in {Stages(j) + 1, Stages(j) + 2, Stages(j) + 4, Stages(j) + 5}
        /\ at[j] \in {Stages(j) + 1, Stages(j) + 2} => t.ext = "json"
        /\ at[j] \in {Stages(j) + 4, Stages(j) + 5} => t.ext = "md"
    <2>1. Stages(j) \in Nat
      BY <1>3, NextStep
    <2> QED
      BY <1>2, <1>3, <2>1 DEF Expected
  <1>5. t.ext = Doing(j)[2]
    BY <1>3, <1>4, NextStep
  <1> QED
    BY <1>2, <1>4, <1>5 DEF TempOf

\* The temporary files of a process that rests are what they were.
LEMMA OthersTemps ==
    ASSUME TempsOwned, NEW t \in temps, Rests(t.by)
    PROVE  ended'[t.by] = "crash" \/ Expected(t)'
  <1>1. Manifest(t.by)' = Manifest(t.by) /\ Stages(t.by)' = Stages(t.by)
    BY SameManifest DEF Rests
  <1>2. at'[t.by] = at[t.by] /\ ended'[t.by] = ended[t.by] /\ (Alive(t.by)' <=> Alive(t.by))
    BY RestsKeep DEF Rests
  <1>3. ended[t.by] = "crash" \/ Expected(t)
    BY DEF TempsOwned
  <1> QED
    BY <1>1, <1>2, <1>3 DEF Expected

\* Every step leaves temporary files of working processes as expected.
LEMMA TempsOwnedKept ==
    ASSUME Typed, Typed', \A j \in Jobs : Progress(j), TempsOwned, Next
    PROVE  TempsOwned'
  <1>1. PICK j \in Jobs : Start(j) \/ RunStage(j) \/ StageRaises(j) \/ MakeTemp(j)
                           \/ FillTemp(j) \/ Replace(j) \/ FailWrite(j) \/ Crash(j)
    BY DEF Next
  <1> DEFINE n == Stages(j)
             Fine(t) == /\ t = [by |-> t.by, ext |-> t.ext, text |-> t.text]
                        /\ t.by \in Jobs
                        /\ ended'[t.by] = "crash" \/ Expected(t)'
  <1>2. at[j] \in Nat /\ at[j] <= n + 6 /\ n \in Nat /\ n >= 1
    <2>1. at[j] \in Nat /\ at[j] <= n + 6
      BY DEF Typed, Progress
    <2> QED
      BY <2>1, NextStep
  <1>3. \A t \in temps : t = [by |-> t.by, ext |-> t.ext, text |-> t.text] /\ t.by \in Jobs
    BY DEF TempsOwned
  <1>4. ASSUME \A k \in Jobs \ {j} : Rests(k)
        PROVE  \A t \in temps : t.by # j => Fine(t)
    BY <1>3, <1>4, OthersTemps
  <1> SUFFICES \A t \in temps' : Fine(t)
    BY DEF TempsOwned
  <1>5. ASSUME Start(j)
        PROVE  \A t \in temps' : Fine(t)
    <2>1. Starts(j) /\ \A k \in Jobs \ {j} : Rests(k)
      BY <1>5, StartMoves
    <2>2. \A t \in temps : t.by # j
      BY <2>1 DEF TempsOwned, Starts, Expected, Alive, Progress
    <2> QED
      BY <1>4, <1>5, <2>1, <2>2 DEF Start, fileVars
  <1>6. ASSUME RunStage(j) \/ StageRaises(j)
        PROVE  \A t \in temps' : Fine(t)
    <2>1. Advances(j) /\ (\A k \in Jobs \ {j} : Rests(k)) /\ temps' = temps
      BY <1>6, StageMoves
    <2>2. Alive(j) /\ at[j] < n
      BY <2>1 DEF Advances
    <2>3. \A t \in temps : t.by # j
      BY <1>2, <2>2, OwnTemps
    <2> QED
      BY <1>4, <2>1, <2>3
  <1>7. ASSUME MakeTemp(j)
        PROVE  \A t \in temps' : Fine(t)
    <2>1. Writes(j) /\ \A k \in Jobs \ {j} : Rests(k)
      BY <1>7, WriteMoves
    <2>2. /\ Alive(j) /\ at[j] \in {n, n + 3}
          /\ at[j] = n => Doing(j)[2] = "json"
          /\ at[j] = n + 3 => Doing(j)[2] = "md"
      BY <1>2, <1>7, NextStep DEF MakeTemp
    <2>3. \A t \in temps : t.by # j
      BY <1>2, <2>2, OwnTemps
    <2>4. temps' = temps \cup {[by |-> j, ext |-> Doing(j)[2], text |-> NoManifest]}
      BY <1>7 DEF MakeTemp
    <2>6. Stages(j)' = n /\ at'[j] = at[j] + 1 /\ job'[j] = job[j] /\ ended'[j] = ended[j]
      BY <2>1, SameManifest DEF Writes
    <2>7. Alive(j)'
      BY <1>2, <2>2, <2>6 DEF Alive
    <2>8. ASSUME NEW t, t = [by |-> j, ext |-> Doing(j)[2], text |-> NoManifest]
          PROVE  Fine(t)
      <3>1. t.by = j /\ t.ext = Doing(j)[2] /\ t.text = NoManifest
            /\ t = [by |-> t.by, ext |-> t.ext, text |-> t.text]
        BY <2>8
      <3>2. \/ t.ext = "json" /\ at'[j] = n + 1 /\ t.text = NoManifest
            \/ t.ext = "md" /\ at'[j] = n + 4 /\ t.text = NoManifest
        BY <1>2, <2>2, <2>6, <3>1
      <3>3. Expected(t)'
        BY <2>6, <2>7, <3>1, <3>2 DEF Expected
      <3> QED
        BY <3>1, <3>3
    <2> HIDE DEF Fine
    <2> QED
      BY <1>4, <2>1, <2>3, <2>4, <2>8
  <1>8. ASSUME FillTemp(j)
        PROVE  \A t \in temps' : Fine(t)
    <2>1. Writes(j) /\ \A k \in Jobs \ {j} : Rests(k)
      BY <1>8, WriteMoves
    <2>2. /\ Alive(j) /\ at[j] \in {n + 1, n + 4}
          /\ at[j] = n + 1 => Doing(j)[2] = "json"
          /\ at[j] = n + 4 => Doing(j)[2] = "md"
      BY <1>2, <1>8, NextStep DEF FillTemp
    <2>3. Stages(j)' = n /\ Manifest(j)' = Manifest(j) /\ at'[j] = at[j] + 1
          /\ job'[j] = job[j] /\ ended'[j] = ended[j]
      BY <2>1, SameManifest DEF Writes
    <2>4. Alive(j)'
      BY <1>2, <2>2, <2>3 DEF Alive
    <2>5. temps' = (temps \ TempOf(j)) \cup { [t EXCEPT !.text = Manifest(j)] : t \in TempOf(j) }
      BY <1>8 DEF FillTemp
    <2>6. ASSUME NEW t \in temps, t \notin TempOf(j)
          PROVE  Fine(t)
      BY <1>4, <2>1, <2>2, <2>6, OwnTemps
    <2>7. ASSUME NEW t \in TempOf(j), NEW u, u = [t EXCEPT !.text = Manifest(j)]
          PROVE  Fine(u)
      <3>1. t \in temps /\ t.by = j /\ t.ext = Doing(j)[2]
        BY DEF TempOf
      <3>2. t = [by |-> j, ext |-> Doing(j)[2], text |-> t.text]
        BY <1>3, <3>1
      <3>3. \A v : [t EXCEPT !.text = v] = [by |-> j, ext |-> Doing(j)[2], text |-> v]
        BY <3>2
      <3>4. u = [by |-> j, ext |-> Doing(j)[2], text |-> Manifest(j)]
        BY <2>7, <3>3
      <3>5. u.by = j /\ u.ext = Doing(j)[2] /\ u.text = Manifest(j)
            /\ u = [by |-> u.by, ext |-> u.ext, text |-> u.text]
        BY <3>4
      <3>6. \/ u.ext = "json" /\ at'[j] = n + 2 /\ u.text = Manifest(j)'
            \/ u.ext = "md" /\ at'[j] = n + 5 /\ u.text = Manifest(j)'
        BY <1>2, <2>2, <2>3, <3>5
      <3>7. Expected(u)'
        BY <2>3, <2>4, <3>5, <3>6 DEF Expected
      <3> QED
        BY <3>5, <3>7
    <2> HIDE DEF Fine
    <2> QED
      BY <2>5, <2>6, <2>7
  <1>9. ASSUME Replace(j) \/ FailWrite(j)
        PROVE  \A t \in temps' : Fine(t)
    <2>1. (Writes(j) \/ Stops(j)) /\ \A k \in Jobs \ {j} : Rests(k)
      BY <1>9, WriteMoves, StopMoves
    <2>2. Alive(j)
      BY <2>1 DEF Writes, Stops
    <2>3. temps' = temps \ TempOf(j)
      BY <1>9 DEF Replace, FailWrite
    <2>4. \A t \in temps' : t.by # j
      BY <2>2, <2>3, OwnTemps
    <2> QED
      BY <1>4, <2>1, <2>3, <2>4
  <1>10. ASSUME Crash(j)
         PROVE  \A t \in temps' : Fine(t)
    <2>1. \A k \in Jobs \ {j} : Rests(k)
      BY <1>10, StopMoves
    <2>2. temps' = temps /\ ended'[j] = "crash"
      BY <1>10 DEF Crash, fileVars, Typed
    <2> QED
      BY <1>3, <1>4, <2>1, <2>2
  <1> QED
    BY <1>1, <1>5, <1>6, <1>7, <1>8, <1>9, <1>10

\* A process that is to fill or rename a temporary file still has it.
LEMMA TempsThereKept ==
    ASSUME Typed, \A j \in Jobs : Progress(j), TempsOwned, TempsThere, Next
    PROVE  TempsThere'
  <1>1. PICK j \in Jobs : Start(j) \/ RunStage(j) \/ StageRaises(j) \/ MakeTemp(j)
                           \/ FillTemp(j) \/ Replace(j) \/ FailWrite(j) \/ Crash(j)
    BY DEF Next
  <1> DEFINE n == Stages(j)
             There(k) == Alive(k)' =>
                /\ at'[k] \in {Stages(k)' + 1, Stages(k)' + 2} =>
                    \E t \in temps' : t.by = k /\ t.ext = "json"
                /\ at'[k] \in {Stages(k)' + 4, Stages(k)' + 5} =>
                    \E t \in temps' : t.by = k /\ t.ext = "md"
  <1>2. at[j] \in Nat /\ at[j] <= n + 6 /\ n \in Nat /\ n >= 1
    <2>1. at[j] \in Nat /\ at[j] <= n + 6
      BY DEF Typed, Progress
    <2> QED
      BY <2>1, NextStep
  <1>3. ASSUME NEW k \in Jobs, Rests(k), \A t \in temps : t.by = k => t \in temps'
        PROVE  There(k)
    <2>1. Stages(k)' = Stages(k) /\ (Alive(k)' <=> Alive(k)) /\ at'[k] = at[k]
      BY <1>3, RestsKeep DEF Rests
    <2> QED
      BY <1>3, <2>1 DEF TempsThere
  <1> SUFFICES \A k \in Jobs : There(k)
    BY DEF TempsThere
  <1>4. CASE Start(j)
    <2>1. Starts(j) /\ (\A k \in Jobs \ {j} : Rests(k)) /\ temps' = temps
      BY <1>4, StartMoves DEF Start, fileVars
    <2>2. at'[j] = 0
      BY <2>1 DEF Starts, Progress
    <2>3. Stages(j)' \in Nat
      <3>1. Len(StagesOf(job'[j].cmd)) = IF job'[j].cmd = "ingest" THEN 9 ELSE 1
        BY StageCount
      <3> QED
        BY <3>1 DEF Stages
    <2>4. There(j)
      BY <2>2, <2>3
    <2> QED
      BY <1>3, <2>1, <2>4
  <1>5. CASE RunStage(j) \/ StageRaises(j)
    <2>1. Advances(j) /\ (\A k \in Jobs \ {j} : Rests(k)) /\ temps' = temps
      BY <1>5, StageMoves
    <2>2. at[j] < n /\ at'[j] \in {at[j], at[j] + 1} /\ Stages(j)' = n
      BY <2>1 DEF Advances, Stages
    <2>3. There(j)
      BY <1>2, <2>2
    <2> QED
      BY <1>3, <2>1, <2>3
  <1>6. CASE MakeTemp(j)
    <2>1. Writes(j) /\ \A k \in Jobs \ {j} : Rests(k)
      BY <1>6, WriteMoves
    <2>2. /\ Alive(j) /\ at[j] \in {n, n + 3}
          /\ at[j] = n => Doing(j)[2] = "json"
          /\ at[j] = n + 3 => Doing(j)[2] = "md"
      BY <1>2, <1>6, NextStep DEF MakeTemp
    <2>3. Stages(j)' = n /\ at'[j] = at[j] + 1
      BY <2>1, SameManifest DEF Writes
    <2> DEFINE new == [by |-> j, ext |-> Doing(j)[2], text |-> NoManifest]
    <2>4. temps' = temps \cup {new}
      BY <1>6 DEF MakeTemp
    <2>5. new.by = j /\ new.ext = Doing(j)[2]
      OBVIOUS
    <2> HIDE DEF new
    <2>6. There(j)
      BY <1>2, <2>2, <2>3, <2>4, <2>5
    <2> QED
      BY <1>3, <2>1, <2>4, <2>6
  <1>7. CASE FillTemp(j)
    <2>1. Writes(j) /\ \A k \in Jobs \ {j} : Rests(k)
      BY <1>7, WriteMoves
    <2>2. /\ Alive(j) /\ at[j] \in {n + 1, n + 4}
          /\ at[j] = n + 1 => Doing(j)[2] = "json"
          /\ at[j] = n + 4 => Doing(j)[2] = "md"
      BY <1>2, <1>7, NextStep DEF FillTemp
    <2>3. Stages(j)' = n /\ at'[j] = at[j] + 1
      BY <2>1, SameManifest DEF Writes
    <2>4. temps' = (temps \ TempOf(j)) \cup { [t EXCEPT !.text = Manifest(j)] : t \in TempOf(j) }
      BY <1>7 DEF FillTemp
    <2>5. PICK t \in temps : t.by = j /\ t.ext = Doing(j)[2]
      BY <1>2, <2>2 DEF TempsThere
    <2>6. t = [by |-> j, ext |-> Doing(j)[2], text |-> t.text] /\ t \in TempOf(j)
      BY <2>5 DEF TempsOwned, TempOf
    <2>7. \A v : [t EXCEPT !.text = v].by = j /\ [t EXCEPT !.text = v].ext = Doing(j)[2]
      BY <2>6
    <2>8. \E u \in temps' : u.by = j /\ u.ext = Doing(j)[2]
      BY <2>4, <2>6, <2>7
    <2>9. There(j)
      BY <1>2, <2>2, <2>3, <2>8
    <2>10. \A u \in temps : u.by # j => u \in temps'
      BY <2>4 DEF TempOf
    <2> QED
      BY <1>3, <2>1, <2>9, <2>10
  <1>8. CASE Replace(j)
    <2>1. Writes(j) /\ \A k \in Jobs \ {j} : Rests(k)
      BY <1>8, WriteMoves
    <2>2. at[j] \in {n + 2, n + 5}
      BY <1>2, <1>8, NextStep DEF Replace
    <2>3. Stages(j)' = n /\ at'[j] = at[j] + 1
      BY <2>1, SameManifest DEF Writes
    <2>4. There(j)
      BY <1>2, <2>2, <2>3
    <2>5. \A u \in temps : u.by # j => u \in temps'
      BY <1>8 DEF Replace, TempOf
    <2> QED
      BY <1>3, <2>1, <2>4, <2>5
  <1>9. CASE FailWrite(j) \/ Crash(j)
    <2>1. Stops(j) /\ \A k \in Jobs \ {j} : Rests(k)
      BY <1>9, StopMoves
    <2>2. There(j)
      BY <2>1 DEF Stops, Alive
    <2>3. \A u \in temps : u.by # j => u \in temps'
      BY <1>9 DEF FailWrite, Crash, fileVars, TempOf
    <2> QED
      BY <1>3, <2>1, <2>2, <2>3
  <1> QED
    BY <1>1, <1>4, <1>5, <1>6, <1>7, <1>8, <1>9

-----------------------------------------------------------------------------
(* Manifests and summaries.                                                *)

\* A rename puts the whole manifest at its path.
LEMMA Replaced ==
    ASSUME Typed, TempsOwned, TempsThere, NEW j \in Jobs, Progress(j), Replace(j)
    PROVE  \E ext \in {"json", "md"} :
              /\ Alive(j)
              /\ ext = "json" => at[j] = Stages(j) + 2
              /\ ext = "md" => at[j] = Stages(j) + 5
              /\ \A f : f \in files' <=>
                    \/ f \in files /\ ~(f.path = Path(j) /\ f.ext = ext)
                    \/ f = [path |-> Path(j), ext |-> ext, text |-> Manifest(j)]
  <1> DEFINE n == Stages(j)
             ext == Doing(j)[2]
  <1>1. at[j] \in Nat /\ at[j] <= n + 6
    BY DEF Typed, Progress
  <1>2. /\ n \in Nat /\ Alive(j) /\ at[j] \in {n + 2, n + 5}
        /\ at[j] = n + 2 => ext = "json"
        /\ at[j] = n + 5 => ext = "md"
    BY <1>1, NextStep DEF Replace
  <1>3. ASSUME NEW t \in TempOf(j)
        PROVE  t.text = Manifest(j)
    <2>1. t \in temps /\ t.by = j
      BY DEF TempOf
    <2>2. Expected(t)
      BY <1>2, <2>1, OwnTemps
    <2> QED
      BY <1>1, <1>2, <2>1, <2>2 DEF Expected
  <1>4. PICK t \in temps : t.by = j /\ t.ext = ext
    BY <1>2 DEF TempsThere
  <1>5. t \in TempOf(j)
    BY <1>4 DEF TempOf
  <1>6. files' = { f \in files : f.path # Path(j) \/ f.ext # ext }
                 \cup { [path |-> Path(j), ext |-> ext, text |-> u.text] : u \in TempOf(j) }
    BY DEF Replace
  <1> HIDE DEF ext
  <1>7. \A f : f \in files' <=>
            \/ f \in files /\ ~(f.path = Path(j) /\ f.ext = ext)
            \/ f = [path |-> Path(j), ext |-> ext, text |-> Manifest(j)]
    BY <1>3, <1>5, <1>6
  <1>8. ext \in {"json", "md"} /\ (ext = "json" => at[j] = n + 2) /\ (ext = "md" => at[j] = n + 5)
    BY <1>1, <1>2
  <1> QED
    BY <1>2, <1>7, <1>8

\* A process comes to its summary by renaming its manifest, and to its end by renaming the
\* summary.
LEMMA Late ==
    ASSUME Typed, \A j \in Jobs : Progress(j), Next, NEW k \in Jobs
    PROVE  /\ Stages(k) \in Nat /\ Stages(k) >= 1 /\ at[k] \in Nat
           /\ at'[k] >= Stages(k)' + 3 =>
                /\ at[k] >= Stages(k) + 3 \/ (Replace(k) /\ at[k] = Stages(k) + 2)
                /\ at[k] >= Stages(k)
           /\ at[k] = Stages(k) + 3 /\ at'[k] = Stages(k) + 4 => MakeTemp(k)
           /\ at[k] = Stages(k) + 5 /\ at'[k] = Stages(k) + 6 => Replace(k)
           /\ met[k] \subseteq met'[k]
  <1>1. PICK j \in Jobs : Start(j) \/ RunStage(j) \/ StageRaises(j) \/ MakeTemp(j)
                           \/ FillTemp(j) \/ Replace(j) \/ FailWrite(j) \/ Crash(j)
    BY DEF Next
  <1> DEFINE n == Stages(k)
  <1>2. at[k] \in Nat /\ at[k] <= n + 6 /\ n \in Nat /\ n >= 1
    <2>1. at[k] \in Nat /\ at[k] <= n + 6
      BY DEF Typed, Progress
    <2> QED
      BY <2>1, NextStep
  <1>3. met[k] \subseteq met'[k]
    <2>1. CASE MakeTemp(j)
      <3>1. met' = [i \in Jobs |->
                      IF i = j THEN met[i] \cup { l \in Jobs \ {j} : Writing(l) }
                      ELSE IF Writing(i) THEN met[i] \cup {j} ELSE met[i]]
        BY <2>1 DEF MakeTemp
      <3> QED
        BY <3>1
    <2>2. CASE ~MakeTemp(j)
      <3>1. met' = met
        BY <1>1, <2>2 DEF Start, RunStage, StageRaises, FillTemp, Replace, FailWrite, Crash
      <3> QED
        BY <3>1
    <2> QED
      BY <2>1, <2>2
  <1>4. CASE Rests(k)
    <2>1. Stages(k)' = n /\ at'[k] = at[k]
      BY <1>4, RestsKeep DEF Rests
    <2> QED
      BY <1>2, <1>3, <2>1
  <1>5. CASE Start(k)
    <2>1. at'[k] = 0 /\ at[k] = 0
      BY <1>5, StartMoves DEF Starts, Progress
    <2>2. Stages(k)' \in Nat
      <3>1. Len(StagesOf(job'[k].cmd)) = IF job'[k].cmd = "ingest" THEN 9 ELSE 1
        BY StageCount
      <3> QED
        BY <3>1 DEF Stages
    <2> QED
      BY <1>2, <1>3, <2>1, <2>2
  <1>6. CASE RunStage(k) \/ StageRaises(k)
    <2>1. Advances(k)
      BY <1>6, StageMoves
    <2>2. at[k] < n /\ at'[k] \in {at[k], at[k] + 1} /\ Stages(k)' = n
      BY <2>1 DEF Advances, Stages
    <2> QED
      BY <1>2, <1>3, <2>2
  <1>7. CASE MakeTemp(k) \/ FillTemp(k) \/ Replace(k)
    <2>1. Writes(k)
      BY <1>7, WriteMoves
    <2>2. at'[k] = at[k] + 1 /\ Stages(k)' = n
      BY <2>1, SameManifest DEF Writes
    <2>3. /\ MakeTemp(k) => at[k] \in {n, n + 3}
          /\ FillTemp(k) => at[k] \in {n + 1, n + 4}
          /\ Replace(k) => at[k] \in {n + 2, n + 5}
      BY <1>2, NextStep DEF MakeTemp, FillTemp, Replace
    <2> QED
      BY <1>2, <1>3, <1>7, <2>2, <2>3
  <1>8. CASE FailWrite(k) \/ Crash(k)
    <2>1. Stops(k)
      BY <1>8, StopMoves
    <2>2. at'[k] = at[k] /\ Stages(k)' = n
      BY <2>1, SameManifest DEF Stops
    <2> QED
      BY <1>2, <1>3, <2>2
  <1>9. k # j => Rests(k)
    BY <1>1, StartMoves, StageMoves, WriteMoves, StopMoves
  <1> QED
    BY <1>1, <1>4, <1>5, <1>6, <1>7, <1>8, <1>9

\* Files change by a rename only.
LEMMA FilesChange ==
    ASSUME Typed, \A j \in Jobs : Progress(j), TempsOwned, TempsThere, Next
    PROVE  \/ files' = files /\ \A k \in Jobs : ~Replace(k)
           \/ \E j \in Jobs : /\ Replace(j) /\ Writes(j)
                              /\ \A k \in Jobs \ {j} : Rests(k) /\ ~Replace(k)
  <1>1. PICK j \in Jobs : Start(j) \/ RunStage(j) \/ StageRaises(j) \/ MakeTemp(j)
                           \/ FillTemp(j) \/ Replace(j) \/ FailWrite(j) \/ Crash(j)
    BY DEF Next
  <1>2. ASSUME NEW k \in Jobs, Replace(k)
        PROVE  Writes(k) /\ ~Rests(k) /\ \A i \in Jobs \ {k} : Rests(i)
    <2>1. Writes(k) /\ \A i \in Jobs \ {k} : Rests(i)
      BY <1>2, WriteMoves
    <2>2. at[k] \in Nat
      BY DEF Typed
    <2> QED
      BY <2>1, <2>2 DEF Writes, Rests
  <1>3. CASE \E k \in Jobs : Replace(k)
    BY <1>2, <1>3
  <1>4. CASE \A k \in Jobs : ~Replace(k)
    BY <1>1, <1>4 DEF Start, RunStage, StageRaises, MakeTemp, FillTemp, FailWrite, Crash, fileVars
  <1> QED
    BY <1>3, <1>4

\* What stands at a path after a step is an old file, or a new one put over any other.
LEMMA NewFiles ==
    ASSUME Typed, \A j \in Jobs : Progress(j), TempsOwned, TempsThere, Next
    PROVE  \/ files' = files /\ \A k \in Jobs : ~Replace(k)
           \/ \E j \in Jobs, ext \in {"json", "md"} :
                /\ Replace(j) /\ Writes(j) /\ \A k \in Jobs \ {j} : Rests(k) /\ ~Replace(k)
                /\ ext = "json" => at[j] = Stages(j) + 2
                /\ ext = "md" => at[j] = Stages(j) + 5
                /\ \A f : f \in files' <=>
                      \/ f \in files /\ ~(f.path = Path(j) /\ f.ext = ext)
                      \/ f = [path |-> Path(j), ext |-> ext, text |-> Manifest(j)]
  <1>1. CASE files' = files /\ \A k \in Jobs : ~Replace(k)
    BY <1>1
  <1>2. CASE \E j \in Jobs : /\ Replace(j) /\ Writes(j)
                             /\ \A k \in Jobs \ {j} : Rests(k) /\ ~Replace(k)
    <2>1. PICK j \in Jobs : /\ Replace(j) /\ Writes(j)
                            /\ \A k \in Jobs \ {j} : Rests(k) /\ ~Replace(k)
      BY <1>2
    <2>2. PICK ext \in {"json", "md"} :
              /\ ext = "json" => at[j] = Stages(j) + 2
              /\ ext = "md" => at[j] = Stages(j) + 5
              /\ \A f : f \in files' <=>
                    \/ f \in files /\ ~(f.path = Path(j) /\ f.ext = ext)
                    \/ f = [path |-> Path(j), ext |-> ext, text |-> Manifest(j)]
      BY <2>1, Replaced
    <2> QED
      BY <2>1, <2>2
  <1> QED
    BY <1>1, <1>2, FilesChange

\* Every file stays the manifest of a process past its rename.
LEMMA FilesOwnedKept ==
    ASSUME Typed, \A j \in Jobs : Progress(j), TempsOwned, TempsThere, FilesOwned, Next
    PROVE  FilesOwned'
  <1> DEFINE Owned(f, i) == /\ f.text = Manifest(i)' /\ f.path = Path(i)'
                            /\ \/ f.ext = "json" /\ at'[i] >= Stages(i)' + 3
                               \/ f.ext = "md" /\ at'[i] = Stages(i)' + 6
  <1>1. ASSUME NEW f \in files
        PROVE  f.text.by \in Jobs /\ Owned(f, f.text.by)
    <2> DEFINE i == f.text.by
    <2>1. /\ i \in Jobs /\ f.text = Manifest(i) /\ f.path = Path(i)
          /\ \/ f.ext = "json" /\ at[i] >= Stages(i) + 3
             \/ f.ext = "md" /\ at[i] = Stages(i) + 6
      BY DEF FilesOwned
    <2> HIDE DEF i
    <2>2. Stages(i) \in Nat /\ at[i] \in Nat
      BY <2>1, Late
    <2>3. at[i] >= Stages(i)
      BY <2>1, <2>2
    <2>4. /\ Manifest(i)' = Manifest(i) /\ Path(i)' = Path(i) /\ Stages(i)' = Stages(i)
          /\ at'[i] \in {at[i], at[i] + 1} /\ (~Alive(i) => at'[i] = at[i])
      BY <2>1, <2>3, ManifestFixed
    <2>5. at[i] = Stages(i) + 6 => ~Alive(i)
      BY <2>2 DEF Alive
    <2>6. i \in Jobs /\ Owned(f, i)
      BY <2>1, <2>2, <2>4, <2>5
    <2> QED
      BY <2>6 DEF i
  <1> SUFFICES \A f \in files' : f.text.by \in Jobs /\ Owned(f, f.text.by)
    BY DEF FilesOwned
  <1>2. CASE files' = files
    BY <1>1, <1>2
  <1>3. ASSUME NEW j \in Jobs, NEW ext \in {"json", "md"}, Writes(j),
               ext = "json" => at[j] = Stages(j) + 2, ext = "md" => at[j] = Stages(j) + 5,
               NEW f, f = [path |-> Path(j), ext |-> ext, text |-> Manifest(j)]
        PROVE  f.text.by \in Jobs /\ Owned(f, f.text.by)
    <2>1. /\ Manifest(j)' = Manifest(j) /\ Path(j)' = Path(j) /\ Stages(j)' = Stages(j)
          /\ at'[j] = at[j] + 1
      BY <1>3, SameManifest DEF Writes
    <2>2. f.text = Manifest(j) /\ f.path = Path(j) /\ f.ext = ext
      BY <1>3
    <2>3. Manifest(j).by = j
      BY DEF Manifest
    <2>4. Stages(j) \in Nat /\ at[j] \in Nat
      BY Late
    <2>5. Owned(f, j)
      BY <1>3, <2>1, <2>2, <2>4
    <2>6. f.text.by = j
      BY <2>2, <2>3
    <2> HIDE DEF Owned
    <2> QED
      BY <2>5, <2>6
  <1> HIDE DEF Owned
  <1> QED
    BY <1>1, <1>2, <1>3, NewFiles

\* Every path keeps one file of a kind.
LEMMA FilesUniqueKept ==
    ASSUME Typed, \A j \in Jobs : Progress(j), TempsOwned, TempsThere, FilesUnique, Next
    PROVE  FilesUnique'
  <1>1. CASE files' = files
    BY <1>1 DEF FilesUnique
  <1>2. ASSUME NEW j \in Jobs, NEW ext \in {"json", "md"},
               \A f : f \in files' <=>
                      \/ f \in files /\ ~(f.path = Path(j) /\ f.ext = ext)
                      \/ f = [path |-> Path(j), ext |-> ext, text |-> Manifest(j)]
        PROVE  FilesUnique'
    <2> SUFFICES ASSUME NEW f \in files', NEW g \in files', f.path = g.path, f.ext = g.ext
                 PROVE  f = g
      BY DEF FilesUnique
    <2>1. \A h \in files' : /\ h \in files \/ h = [path |-> Path(j), ext |-> ext, text |-> Manifest(j)]
                            /\ h.path = Path(j) /\ h.ext = ext =>
                                  h = [path |-> Path(j), ext |-> ext, text |-> Manifest(j)]
      BY <1>2
    <2>2. \A h : h = [path |-> Path(j), ext |-> ext, text |-> Manifest(j)] =>
                    h.path = Path(j) /\ h.ext = ext
      OBVIOUS
    <2> QED
      BY <2>1, <2>2 DEF FilesUnique
  <1> QED
    BY <1>1, <1>2, NewFiles

\* A manifest written is replaced, never lost.
LEMMA FilesThereKept ==
    ASSUME Typed, \A j \in Jobs : Progress(j), TempsOwned, TempsThere, FilesThere, Next
    PROVE  FilesThere'
  <1> SUFFICES ASSUME NEW k \in Jobs, at'[k] >= Stages(k)' + 3
               PROVE  \E f \in files' : f.path = Path(k)' /\ f.ext = "json"
    BY DEF FilesThere
  <1>1. /\ at[k] >= Stages(k) + 3 \/ (Replace(k) /\ at[k] = Stages(k) + 2)
        /\ at[k] >= Stages(k)
    BY Late
  <1>2. Path(k)' = Path(k)
    BY <1>1, ManifestFixed
  <1>3. CASE files' = files /\ ~Replace(k)
    BY <1>1, <1>2, <1>3 DEF FilesThere
  <1>4. ASSUME NEW j \in Jobs, NEW ext \in {"json", "md"},
               Replace(j), \A i \in Jobs \ {j} : Rests(i) /\ ~Replace(i),
               ext = "json" => at[j] = Stages(j) + 2, ext = "md" => at[j] = Stages(j) + 5,
               \A f : f \in files' <=>
                      \/ f \in files /\ ~(f.path = Path(j) /\ f.ext = ext)
                      \/ f = [path |-> Path(j), ext |-> ext, text |-> Manifest(j)]
        PROVE  \E f \in files' : f.path = Path(k) /\ f.ext = "json"
    <2> DEFINE new == [path |-> Path(j), ext |-> ext, text |-> Manifest(j)]
    <2>1. new \in files' /\ new.path = Path(j) /\ new.ext = ext
      BY <1>4
    <2>2. CASE at[k] >= Stages(k) + 3
      <3>1. PICK f \in files : f.path = Path(k) /\ f.ext = "json"
        BY <2>2 DEF FilesThere
      <3> HIDE DEF new
      <3> QED
        BY <1>4, <2>1, <3>1
    <2>3. CASE Replace(k) /\ at[k] = Stages(k) + 2
      <3>1. k = j /\ ext = "json"
        <4>1. k = j
          BY <1>4, <2>3
        <4>2. Stages(k) \in Nat
          BY Late
        <4> QED
          BY <1>4, <2>3, <4>1, <4>2
      <3> HIDE DEF new
      <3> QED
        BY <2>1, <3>1
    <2> QED
      BY <1>1, <2>2, <2>3
  <1> QED
    BY <1>2, <1>3, <1>4, NewFiles

-----------------------------------------------------------------------------
(* Processes whose writes overlap.                                         *)

\* The process that begins its summary meets those still at work on the same path.
LEMMA MetInTimeKept ==
    ASSUME Typed, \A j \in Jobs : Progress(j), TempsOwned, TempsThere, FilesOwned, MetInTime, Next
    PROVE  MetInTime'
  <1> SUFFICES ASSUME NEW f \in files', NEW k \in Jobs, NEW i, i = f.text.by,
                      f.ext = "json", k # i, Path(k)' = f.path, at'[i] >= Stages(i)' + 4,
                      Alive(k)', at'[k] >= Stages(k)' + 3
               PROVE  i \in met'[k]
    BY DEF MetInTime
  <1>1. /\ at[k] >= Stages(k) + 3 \/ (Replace(k) /\ at[k] = Stages(k) + 2)
        /\ at[k] >= Stages(k) /\ Stages(k) \in Nat /\ at[k] \in Nat
        /\ met[k] \subseteq met'[k]
    BY Late
  <1>2. Path(k)' = Path(k) /\ Alive(k)
    BY <1>1, ManifestFixed
  <1>3. f \in files
    <2> SUFFICES ASSUME f \notin files
                 PROVE  FALSE
      OBVIOUS
    <2>1. PICK j \in Jobs, ext \in {"json", "md"} :
              /\ Writes(j)
              /\ ext = "json" => at[j] = Stages(j) + 2
              /\ f = [path |-> Path(j), ext |-> ext, text |-> Manifest(j)]
      BY NewFiles
    <2>2. f.ext = ext /\ f.text = Manifest(j)
      BY <2>1
    <2>3. i = j /\ ext = "json"
      BY <2>2 DEF Manifest
    <2>4. Stages(j)' = Stages(j) /\ at'[j] = at[j] + 1 /\ Stages(j) \in Nat /\ at[j] \in Nat
      BY <2>1, SameManifest, Late DEF Writes
    <2>5. at'[j] = Stages(j)' + 3
      BY <2>1, <2>3, <2>4
    <2> QED
      BY <2>3, <2>4, <2>5
  <1>4. i \in Jobs /\ f.path = Path(i) /\ at[i] >= Stages(i) + 3
    BY <1>3 DEF FilesOwned
  <1>5. Stages(i) \in Nat /\ at[i] \in Nat
    BY <1>4, Late
  <1>6. Stages(i)' = Stages(i) /\ at'[i] \in {at[i], at[i] + 1}
    BY <1>4, <1>5, ManifestFixed
  <1>7. at[k] >= Stages(k) + 3
    <2> SUFFICES ASSUME Replace(k), at[k] = Stages(k) + 2
                 PROVE  FALSE
      BY <1>1
    <2>1. PICK ext \in {"json", "md"} :
              /\ ext = "md" => at[k] = Stages(k) + 5
              /\ \A g : g \in files' <=>
                    \/ g \in files /\ ~(g.path = Path(k) /\ g.ext = ext)
                    \/ g = [path |-> Path(k), ext |-> ext, text |-> Manifest(k)]
      BY Replaced
    <2>2. ext = "json"
      BY <1>1, <2>1
    <2>3. f = [path |-> Path(k), ext |-> ext, text |-> Manifest(k)]
      BY <1>2, <2>1, <2>2
    <2>4. f.text.by = k
      BY <2>3 DEF Manifest
    <2> QED
      BY <2>4
  <1>8. CASE at[i] >= Stages(i) + 4
    BY <1>1, <1>2, <1>3, <1>7, <1>8 DEF MetInTime
  <1>9. CASE at[i] = Stages(i) + 3
    <2>1. at'[i] = Stages(i) + 4
      BY <1>5, <1>6, <1>9
    <2>2. MakeTemp(i)
      BY <1>4, <1>9, <2>1, Late
    <2>3. Writing(k)
      <3>1. at[k] <= Stages(k) + 6 /\ at[k] >= Stages(k)
        BY <1>1 DEF Progress
      <3> QED
        BY <1>1, <1>2, <3>1, NextStep
    <2>4. met'[k] = met[k] \cup {i}
      BY <2>2, <2>3 DEF MakeTemp
    <2> QED
      BY <2>4
  <1> QED
    BY <1>4, <1>5, <1>8, <1>9

\* A summary outlasts a later manifest only when their writers met.
LEMMA MetAtLastKept ==
    ASSUME Typed, \A j \in Jobs : Progress(j), TempsOwned, TempsThere, FilesOwned,
           MetInTime, MetAtLast, Next
    PROVE  MetAtLast'
  <1> SUFFICES ASSUME NEW f \in files', NEW g \in files', NEW i, i = f.text.by,
                      NEW k, k = g.text.by, f.path = g.path, f.ext = "json", g.ext = "md",
                      i # k, at'[i] = Stages(i)' + 6
               PROVE  i \in met'[k]
    BY DEF MetAtLast
  <1>1. ASSUME f \notin files
        PROVE  FALSE
    <2>1. PICK j \in Jobs, ext \in {"json", "md"} :
              /\ Writes(j)
              /\ ext = "json" => at[j] = Stages(j) + 2
              /\ f = [path |-> Path(j), ext |-> ext, text |-> Manifest(j)]
      BY <1>1, NewFiles
    <2>2. f.ext = ext /\ f.text = Manifest(j)
      BY <2>1
    <2>3. i = j /\ ext = "json"
      BY <2>2 DEF Manifest
    <2>4. Stages(j)' = Stages(j) /\ at'[j] = at[j] + 1 /\ Stages(j) \in Nat /\ at[j] \in Nat
      BY <2>1, SameManifest, Late DEF Writes
    <2>5. at'[j] = Stages(j)' + 3
      BY <2>1, <2>3, <2>4
    <2> QED
      BY <2>3, <2>4, <2>5
  <1>2. f \in files /\ i \in Jobs /\ f.path = Path(i) /\ at[i] >= Stages(i) + 3
    BY <1>1 DEF FilesOwned
  <1>3. Stages(i) \in Nat /\ at[i] \in Nat
    BY <1>2, Late
  <1>4. Stages(i)' = Stages(i) /\ at'[i] \in {at[i], at[i] + 1}
    BY <1>2, <1>3, ManifestFixed
  <1>5. CASE g \in files
    <2>1. k \in Jobs
      BY <1>5 DEF FilesOwned
    <2>2. met[k] \subseteq met'[k]
      BY <2>1, Late
    <2>3. CASE at[i] = Stages(i) + 6
      BY <1>2, <1>5, <2>2, <2>3 DEF MetAtLast
    <2>4. CASE at[i] = Stages(i) + 5
      <3>1. at'[i] = Stages(i) + 6
        BY <1>4
      <3>2. Replace(i)
        BY <1>2, <2>4, <3>1, Late
      <3>3. PICK ext \in {"json", "md"} :
                /\ ext = "json" => at[i] = Stages(i) + 2
                /\ \A h : h \in files' <=>
                      \/ h \in files /\ ~(h.path = Path(i) /\ h.ext = ext)
                      \/ h = [path |-> Path(i), ext |-> ext, text |-> Manifest(i)]
        BY <1>2, <3>2, Replaced
      <3>4. ext = "md"
        BY <1>3, <2>4, <3>3
      <3>5. g = [path |-> Path(i), ext |-> ext, text |-> Manifest(i)]
        BY <1>2, <3>3, <3>4
      <3>6. g.text.by = i
        BY <3>5 DEF Manifest
      <3> QED
        BY <3>6
    <2> QED
      BY <1>3, <1>4, <2>3, <2>4
  <1>6. CASE g \notin files
    <2>1. PICK j \in Jobs, ext \in {"json", "md"} :
              /\ Writes(j) /\ \A l \in Jobs \ {j} : Rests(l)
              /\ ext = "md" => at[j] = Stages(j) + 5
              /\ g = [path |-> Path(j), ext |-> ext, text |-> Manifest(j)]
      BY <1>6, NewFiles
    <2>2. g.ext = ext /\ g.text = Manifest(j) /\ g.path = Path(j)
      BY <2>1
    <2>3. k = j /\ ext = "md"
      BY <2>2 DEF Manifest
    <2>4. Alive(k) /\ at[k] = Stages(k) + 5 /\ Path(k) = f.path /\ k \in Jobs /\ Rests(i)
      BY <1>2, <2>1, <2>2, <2>3 DEF Writes
    <2>5. Stages(k) \in Nat /\ at[k] \in Nat /\ met[k] \subseteq met'[k]
      BY <2>4, Late
    <2>6. at[i] >= Stages(i) + 4 /\ at[k] >= Stages(k) + 3
      BY <1>3, <1>4, <2>4, <2>5 DEF Rests
    <2>7. i \in met[k]
      BY <1>2, <2>4, <2>6 DEF MetInTime
    <2> QED
      BY <2>5, <2>7
  <1> QED
    BY <1>5, <1>6

-----------------------------------------------------------------------------
(* The theorems.                                                           *)

\* The inductive invariant of the processes.
LEMMA CommandInvariant == Spec => []CommandInv
  <1>1. Init => CommandInv
    <2> SUFFICES ASSUME Init
                 PROVE  CommandInv
      OBVIOUS
    <2>1. /\ \A j \in Jobs : job[j] = NoJob /\ at[j] = 0 /\ ended[j] = "no" /\ results[j] = << >>
          /\ files = {} /\ temps = {}
      BY DEF Init
    <2>2. NoJob \in [cmd : AllCommands \cup {"none"}, run : RunId, structured : RunId,
                     dataset : Datasets \cup {NoDataset}] /\ NoJob.cmd = "none"
      <3>1. NoScopeRun \in RunId
        <4>1. 2 \in DOMAIN ScopeNames /\ ScopeNames[2] = "dry_run_no_scope"
          BY DEF ScopeNames
        <4> QED
          BY <4>1 DEF NoScopeRun, RunId
      <3> QED
        BY <3>1 DEF NoJob
    <2>3. << >> \in Seq(Returned) /\ Len(<< >>) = 0
      OBVIOUS
    <2>4. Typed
      <3>1. /\ job \in [Jobs -> [cmd : AllCommands \cup {"none"}, run : RunId, structured : RunId,
                                 dataset : Datasets \cup {NoDataset}]]
            /\ results \in [Jobs -> Seq(Returned)]
        BY <2>2, <2>3 DEF Init
      <3>2. /\ at \in [Jobs -> Nat] /\ ended \in [Jobs -> {"no", "stage", "write", "crash"}]
            /\ met \in [Jobs -> SUBSET Jobs]
        BY DEF Init
      <3>3. used \in [starts : Nat, crashes : Nat] /\ \A d \in dirs : d[1] \in RunId
        BY EarlierAssumption DEF Init
      <3> QED
        BY <3>1, <3>2, <3>3 DEF Typed
    <2>5. ASSUME NEW j \in Jobs
          PROVE  Progress(j) /\ ~Alive(j) /\ ~(at[j] >= Stages(j) + 3)
      <3>1. Stages(j) \in Nat /\ Stages(j) >= 1
        <4>1. Len(StagesOf(job[j].cmd)) = IF job[j].cmd = "ingest" THEN 9 ELSE 1
          BY StageCount
        <4> QED
          BY <4>1 DEF Stages
      <3>2. job[j].cmd = "none" /\ at[j] = 0 /\ ended[j] = "no" /\ results[j] = << >>
        BY <2>1, <2>2
      <3> QED
        BY <2>3, <3>1, <3>2 DEF Progress, Alive
    <2>6. TempsOwned /\ FilesOwned /\ FilesUnique /\ MetInTime /\ MetAtLast
      BY <2>1 DEF TempsOwned, FilesOwned, FilesUnique, MetInTime, MetAtLast
    <2>7. TempsThere /\ FilesThere
      BY <2>5 DEF TempsThere, FilesThere
    <2> QED
      BY <2>4, <2>5, <2>6, <2>7 DEF CommandInv
  <1>2. CommandInv /\ [Next]_vars => CommandInv'
    <2> SUFFICES ASSUME CommandInv, [Next]_vars
                 PROVE  CommandInv'
      OBVIOUS
    <2> USE DEF CommandInv
    <2>1. CASE Next
      <3>1. Typed'
        BY <2>1, TypedKept
      <3> QED
        BY <2>1, <3>1, ProgressKept, TempsOwnedKept, TempsThereKept, FilesOwnedKept,
           FilesUniqueKept, FilesThereKept, MetInTimeKept, MetAtLastKept
    <2>2. CASE UNCHANGED vars
      <3>1. /\ UNCHANGED << job, at, ended, results, dirs, files, temps, met, used >>
            /\ \A k \in Jobs : Rests(k)
        BY <2>2 DEF vars, jobVars, fileVars, Rests
      <3>2. ASSUME NEW k \in Jobs
            PROVE  /\ Progress(k)' <=> Progress(k)
                   /\ Alive(k)' <=> Alive(k)
                   /\ Stages(k)' = Stages(k) /\ Path(k)' = Path(k) /\ Manifest(k)' = Manifest(k)
        BY <3>1, RestsKeep, SameManifest DEF Rests
      <3>3. Typed' /\ FilesUnique'
        BY <3>1 DEF Typed, FilesUnique
      <3>4. TempsOwned'
        BY <3>1, OthersTemps DEF TempsOwned
      <3>5. TempsThere' /\ FilesThere'
        BY <3>1, <3>2 DEF TempsThere, FilesThere
      <3>6. FilesOwned'
        BY <3>1, <3>2 DEF FilesOwned
      <3>7. MetInTime' /\ MetAtLast'
        BY <3>1, <3>2 DEF MetInTime, MetAtLast, FilesOwned
      <3> QED
        BY <3>2, <3>3, <3>4, <3>5, <3>6, <3>7
    <2> QED
      BY <2>1, <2>2
  <1> QED
    BY <1>1, <1>2, PTL DEF Spec

\* A batch that ran its stages has the nine results, in the order of the stages.
LEMMA BatchDone ==
    ASSUME Typed, NEW j \in Jobs, Progress(j), at[j] >= Stages(j), job[j].cmd = "ingest"
    PROVE  /\ Len(results[j]) = 9 /\ DOMAIN results[j] = 1..9
           /\ \A k \in 1..9 :
                /\ results[j][k][1] = BatchStages[k]
                /\ results[j][k][2] = RunOfStage(j, BatchStages[k])
                /\ results[j][k][3] = "error" => BatchStages[k] = "retrieval_benchmark"
           /\ results[j][7][1] = "entity_resolution_hybrid"
           /\ results[j][8][1] = "retrieval_and_qa"
  <1>1. Stages(j) = 9 /\ StagesOf(job[j].cmd) = BatchStages
    BY StageCount DEF Stages, StagesOf
  <1>2. at[j] \in Nat /\ results[j] \in Seq(Returned)
    BY DEF Typed
  <1>3. ended[j] # "stage" /\ Len(results[j]) = 9
    BY <1>1, <1>2 DEF Progress
  <1>4. DOMAIN results[j] = 1..9
    BY <1>2, <1>3, LenProperties
  <1>5. ASSUME NEW k \in 1..9
        PROVE  /\ results[j][k][1] = BatchStages[k]
               /\ results[j][k][2] = RunOfStage(j, BatchStages[k])
               /\ results[j][k][3] = "error" => BatchStages[k] = "retrieval_benchmark"
    BY <1>1, <1>3 DEF Progress, Caught
  <1>6. BatchStages[7] = "entity_resolution_hybrid" /\ BatchStages[8] = "retrieval_and_qa"
    BY DEF BatchStages
  <1> QED
    BY <1>3, <1>4, <1>5, <1>6

\* The manifest of a process that ran its stages is a record of the right type.
LEMMA ManifestTyped ==
    ASSUME Typed, NEW j \in Jobs, Progress(j), at[j] >= Stages(j)
    PROVE  Manifest(j) \in [by : Jobs, run : RunId, dataset : Datasets \cup {NoDataset},
                           stages : Seq(Returned),
                           signals : {"none", "ok", "full", "degraded", "error"}]
  <1>1. /\ job[j] \in [cmd : AllCommands \cup {"none"}, run : RunId, structured : RunId,
                       dataset : Datasets \cup {NoDataset}]
        /\ results[j] \in Seq(Returned)
    BY DEF Typed
  <1>2. Signals(j) \in {"none", "ok", "full", "degraded", "error"}
    <2>1. CASE job[j].cmd # "ingest"
      BY <2>1 DEF Signals
    <2>2. CASE job[j].cmd = "ingest"
      <3>1. Len(results[j]) = 9 /\ results[j][8][1] = "retrieval_and_qa"
        BY <2>2, BatchDone
      <3>2. 8 \in DOMAIN results[j]
        BY <1>1, <3>1, LenProperties
      <3> DEFINE k == CHOOSE k \in DOMAIN results[j] : results[j][k][1] = "retrieval_and_qa"
      <3>3. k \in DOMAIN results[j]
        BY <3>1, <3>2
      <3>4. Signals(j) = results[j][k][3]
        BY <2>2 DEF Signals, ResultOf
      <3> HIDE DEF k
      <3>5. results[j][k] \in Returned
        BY <1>1, <3>3, ElementOfSeq, LenProperties
      <3> QED
        BY <3>4, <3>5 DEF Returned
    <2> QED
      BY <2>1, <2>2
  <1> QED
    BY <1>1, <1>2 DEF Manifest

\* What stands at a manifest's path is the whole text of a process that ran all of its
\* stages, and below that process's own run; there is one file at a path; a temporary file
\* is left behind by a killed process only (write_manifest, write_manifest_md).
THEOREM ManifestsStayWhole == Spec => []ManifestsWhole
  <1>1. CommandInv => ManifestsWhole
    <2> SUFFICES ASSUME CommandInv
                 PROVE  ManifestsWhole
      OBVIOUS
    <2> USE DEF CommandInv
    <2>1. ASSUME NEW j \in Jobs
          PROVE  at[j] \in Nat /\ Stages(j) \in Nat /\ at[j] <= Stages(j) + 6
      BY NextStep DEF Typed, Progress
    <2>2. ASSUME NEW f \in files
          PROVE  /\ f.text # NoManifest
                 /\ StagesDone(f.text.by) /\ f.text = Manifest(f.text.by) /\ f.path = Path(f.text.by)
      <3> DEFINE j == f.text.by
      <3>1. /\ j \in Jobs /\ f.text = Manifest(j) /\ f.path = Path(j)
            /\ at[j] >= Stages(j) + 3 \/ at[j] = Stages(j) + 6
        BY DEF FilesOwned
      <3> HIDE DEF j
      <3>2. at[j] >= Stages(j)
        BY <2>1, <3>1
      <3>3. Manifest(j) # NoManifest
        BY <3>1, <3>2, ManifestTyped, NoManifestAssumption
      <3>4. StagesDone(j)
        BY <3>2 DEF StagesDone, Stages
      <3> QED
        BY <3>1, <3>3, <3>4 DEF j
    <2>3. \A f, g \in files : f.path = g.path /\ f.ext = g.ext => f = g
      BY DEF FilesUnique
    <2>4. ASSUME NEW t \in temps
          PROVE  ended[t.by] = "crash" \/ Doing(t.by)[1] \in {"fill", "replace"}
      <3>1. t.by \in Jobs /\ (ended[t.by] = "crash" \/ Expected(t))
        BY DEF TempsOwned
      <3>2. CASE Expected(t)
        <4>1. Alive(t.by) /\ at[t.by] \in {Stages(t.by) + 1, Stages(t.by) + 2, Stages(t.by) + 4,
                                          Stages(t.by) + 5}
          BY <3>2 DEF Expected
        <4> QED
          BY <2>1, <3>1, <4>1, NextStep
      <3> QED
        BY <3>1, <3>2
    <2> QED
      BY <2>2, <2>3, <2>4 DEF ManifestsWhole
  <1> QED
    BY <1>1, CommandInvariant, PTL

\* A summary and the manifest beside it tell of one process, unless two processes wrote
\* there at once or the last writer did not get to its end.
THEOREM SummariesFollow == Spec => []SummaryFollows
  <1>1. CommandInv => SummaryFollows
    <2> SUFFICES ASSUME CommandInv
                 PROVE  SummaryFollows
      OBVIOUS
    <2> USE DEF CommandInv
    <2>1. ASSUME NEW j \in Jobs, Finished(j)
          PROVE  at[j] = Stages(j) + 6
      <3>1. Len(Program(job[j].cmd)) = Stages(j) + 6
        BY ProgramSteps DEF Stages
      <3> QED
        BY <2>1, <3>1 DEF Finished, Over
    <2>2. ASSUME NEW j \in Jobs, at[j] = Stages(j) + 6
          PROVE  Finished(j)
      <3>1. Len(Program(job[j].cmd)) = Stages(j) + 6
        BY ProgramSteps DEF Stages
      <3>2. Stages(j) \in Nat /\ at[j] \in Nat
        BY NextStep DEF Typed, Progress
      <3>3. job[j].cmd # "none"
        BY <2>2, <3>2 DEF Progress
      <3> QED
        BY <2>2, <3>1, <3>3 DEF Finished, Over
    <2>3. ASSUME NEW f \in files, NEW g \in files, f.path = g.path, f.ext = "json", g.ext = "md",
                 f.text.by # g.text.by, Finished(f.text.by)
          PROVE  f.text.by \in met[g.text.by] /\ Finished(g.text.by)
      <3>1. f.text.by \in Jobs /\ g.text.by \in Jobs /\ at[g.text.by] = Stages(g.text.by) + 6
        BY <2>3 DEF FilesOwned
      <3>2. at[f.text.by] = Stages(f.text.by) + 6
        BY <2>1, <2>3, <3>1
      <3> QED
        BY <2>2, <2>3, <3>1, <3>2 DEF MetAtLast
    <2> QED
      BY <2>3 DEF SummaryFollows
  <1> QED
    BY <1>1, CommandInvariant, PTL

\* A process that gets to its end leaves a manifest, one that stops at a stage leaves none;
\* a batch manifest reports the nine stages of a batch, only the benchmark among them
\* failed, and takes its signals from the answer after the hybrid pass (run_orchestrated,
\* build_batch_manifest).
THEOREM BatchesTrue == Spec => []BatchTrue
  <1>1. CommandInv => BatchTrue
    <2> SUFFICES ASSUME CommandInv
                 PROVE  BatchTrue
      OBVIOUS
    <2> USE DEF CommandInv
    <2>1. ASSUME NEW j \in Jobs
          PROVE  /\ at[j] \in Nat /\ Stages(j) \in Nat /\ Stages(j) >= 1 /\ at[j] <= Stages(j) + 6
                 /\ Over(j) => at[j] = Stages(j) + 6
      <3>1. Len(Program(job[j].cmd)) = Stages(j) + 6
        BY ProgramSteps DEF Stages
      <3> QED
        BY <3>1, NextStep DEF Typed, Progress, Over
    <2>2. ASSUME NEW j \in Jobs, Finished(j)
          PROVE  \E f \in files : f.path = Path(j) /\ f.ext = "json"
      BY <2>1, <2>2 DEF Finished, FilesThere
    <2>3. ASSUME NEW j \in Jobs, ended[j] = "stage"
          PROVE  /\ results[j][Len(results[j])][1] # "retrieval_benchmark"
                 /\ \A f \in files : f.text.by # j
      <3>1. /\ at[j] < Stages(j) /\ ~Caught(job[j].cmd, StagesOf(job[j].cmd)[at[j] + 1])
            /\ Len(results[j]) = at[j] + 1
        BY <2>1, <2>3 DEF Progress
      <3>2. job[j].cmd \in AllCommands
        <4>1. job[j].cmd \in AllCommands \cup {"none"}
          BY DEF Typed
        <4> QED
          BY <2>3, <4>1 DEF Progress
      <3>3. at[j] + 1 \in 1..Len(StagesOf(job[j].cmd)) /\ at[j] + 1 \in 1..Len(results[j])
        BY <2>1, <3>1 DEF Stages
      <3>4. StagesOf(job[j].cmd)[at[j] + 1] # "retrieval_benchmark"
        BY <3>1, <3>2, <3>3, StageNamed DEF Caught
      <3>5. results[j][at[j] + 1][1] = StagesOf(job[j].cmd)[at[j] + 1]
        BY <3>3 DEF Progress
      <3>6. \A f \in files : f.text.by # j
        BY <2>1, <3>1 DEF FilesOwned
      <3> QED
        BY <3>1, <3>4, <3>5, <3>6
    <2>4. ASSUME NEW f \in files, f.path = << "batch" >>
          PROVE  LET s == f.text.stages
                     last == CHOOSE k \in DOMAIN s : s[k][1] = "retrieval_and_qa"
                     hybrid == CHOOSE k \in DOMAIN s : s[k][1] = "entity_resolution_hybrid"
                 IN  /\ { s[k][1] : k \in DOMAIN s } = { BatchStages[k] : k \in DOMAIN BatchStages }
                     /\ hybrid < last /\ f.text.signals = s[last][3]
                     /\ \A k \in DOMAIN s :
                         /\ s[k][3] = "error" => s[k][1] = "retrieval_benchmark"
                         /\ s[k][2] = f.text.run <=> s[k][1] # "structured_ingest"
      <3> DEFINE j == f.text.by
                 s == f.text.stages
                 last == CHOOSE k \in DOMAIN s : s[k][1] = "retrieval_and_qa"
                 hybrid == CHOOSE k \in DOMAIN s : s[k][1] = "entity_resolution_hybrid"
      <3>1. /\ j \in Jobs /\ f.text = Manifest(j) /\ f.path = Path(j)
            /\ at[j] >= Stages(j) + 3 \/ at[j] = Stages(j) + 6
        BY DEF FilesOwned
      <3> HIDE DEF j
      <3>2. at[j] >= Stages(j)
        BY <2>1, <3>1
      <3>3. job[j].cmd = "ingest"
        <4>1. ASSUME job[j].cmd # "ingest"
              PROVE  FALSE
          <5>1. << "batch" >> = << job[j].run, StageOf[job[j].cmd] >>
            BY <2>4, <3>1, <4>1 DEF Path
          <5>2. Len(<< "batch" >>) = 1 /\ Len(<< job[j].run, StageOf[job[j].cmd] >>) = 2
            OBVIOUS
          <5> QED
            BY <5>1, <5>2
        <4> QED
          BY <4>1
      <3>4. /\ Len(results[j]) = 9 /\ DOMAIN results[j] = 1..9
            /\ \A k \in 1..9 :
                /\ results[j][k][1] = BatchStages[k]
                /\ results[j][k][2] = RunOfStage(j, BatchStages[k])
                /\ results[j][k][3] = "error" => BatchStages[k] = "retrieval_benchmark"
        BY <3>1, <3>2, <3>3, BatchDone
      <3>5. s = results[j] /\ f.text.run = job[j].run /\ f.text.signals = Signals(j)
        BY <3>1 DEF Manifest
      <3> HIDE DEF s
      <3>6. \A k \in 1..9 : /\ BatchStages[k] = "retrieval_and_qa" <=> k = 8
                            /\ BatchStages[k] = "entity_resolution_hybrid" <=> k = 7
        <4>1. \A k \in 1..9 : k \in {1, 2, 3, 4, 5, 6, 7, 8, 9}
          OBVIOUS
        <4> QED
          BY <4>1 DEF BatchStages
      <3>7. last = 8 /\ hybrid = 7
        BY <3>4, <3>5, <3>6
      <3>8. f.text.signals = s[last][3]
        <4>1. f.text.signals = ResultOf(j, "retrieval_and_qa")
          BY <3>3, <3>5 DEF Signals
        <4> DEFINE k == CHOOSE k \in DOMAIN results[j] : results[j][k][1] = "retrieval_and_qa"
        <4>2. k = 8
          BY <3>4, <3>6
        <4>3. ResultOf(j, "retrieval_and_qa") = results[j][k][3]
          BY DEF ResultOf
        <4> HIDE DEF k, last
        <4> QED
          BY <3>5, <3>7, <4>1, <4>2, <4>3
      <3>9. { s[k][1] : k \in DOMAIN s } = { BatchStages[k] : k \in DOMAIN BatchStages }
        <4>1. DOMAIN BatchStages = 1..9
          BY DEF BatchStages
        <4> QED
          BY <3>4, <3>5, <4>1
      <3>10. job[j].run # job[j].structured
        BY <3>1, <3>3 DEF Progress
      <3>11. ASSUME NEW k \in DOMAIN s
             PROVE  /\ s[k][3] = "error" => s[k][1] = "retrieval_benchmark"
                    /\ s[k][2] = f.text.run <=> s[k][1] # "structured_ingest"
        BY <3>4, <3>5, <3>10 DEF RunOfStage
      <3> HIDE DEF last, hybrid
      <3>12. hybrid < last
        BY <3>7
      <3> QED
        BY <3>8, <3>9, <3>11, <3>12 DEF s, last, hybrid
    <2> QED
      BY <2>2, <2>3, <2>4 DEF BatchTrue
  <1> QED
    BY <1>1, CommandInvariant, PTL

-----------------------------------------------------------------------------
(* What the catalog returns.                                               *)

\* As many ranks as elements, no two elements of one rank: every rank is taken.
LEMMA RanksTaken ==
    ASSUME NEW S, NEW T, IsFiniteSet(S), IsFiniteSet(T), Cardinality(S) = Cardinality(T),
           NEW f \in [S -> T], \A x, y \in S : f[x] = f[y] => x = y
    PROVE  \A v \in T : \E x \in S : f[x] = v
  <1>1. f \in Injection(S, T)
    BY DEF Injection, IsInjective
  <1>2. f \in Surjection(S, T)
    BY <1>1, FS_Injection
  <1> QED
    BY <1>2 DEF Surjection

\* The k-th of some positions.
Position(P, k) == CHOOSE n \in P : Cardinality({ m \in P : m <= n }) = k

\* There is one for every k up to their number, and they ascend.
LEMMA PositionsAscend ==
    ASSUME NEW n \in Nat, NEW P \in SUBSET (1..n)
    PROVE  /\ Cardinality(P) \in Nat
           /\ \A k \in 1..Cardinality(P) : Position(P, k) \in P
           /\ \A k, l \in 1..Cardinality(P) : k < l => Position(P, k) < Position(P, l)
           /\ \A p \in P : \E k \in 1..Cardinality(P) : Position(P, k) = p
  <1> DEFINE Upto(p) == { m \in P : m <= p }
             rank == [p \in P |-> Cardinality(Upto(p))]
  <1>1. IsFiniteSet(P) /\ Cardinality(P) \in Nat
    <2>1. IsFiniteSet(1..n)
      BY FS_Interval
    <2> QED
      BY <2>1, FS_Subset, FS_CardinalityType
  <1>2. \A p \in P : /\ IsFiniteSet(Upto(p)) /\ p \in Upto(p)
                     /\ Cardinality(Upto(p)) \in 1..Cardinality(P)
    <2> SUFFICES ASSUME NEW p \in P
                 PROVE  /\ IsFiniteSet(Upto(p)) /\ p \in Upto(p)
                        /\ Cardinality(Upto(p)) \in 1..Cardinality(P)
      OBVIOUS
    <2>1. Upto(p) \subseteq P /\ p \in Upto(p)
      OBVIOUS
    <2> HIDE DEF Upto
    <2>2. IsFiniteSet(Upto(p)) /\ Cardinality(Upto(p)) <= Cardinality(P)
      BY <1>1, <2>1, FS_Subset
    <2>3. Cardinality(Upto(p)) \in Nat /\ Cardinality(Upto(p)) # 0
      BY <2>1, <2>2, FS_CardinalityType, FS_EmptySet
    <2> QED
      BY <1>1, <2>1, <2>2, <2>3
  <1>3. \A p, q \in P : p < q => Cardinality(Upto(p)) < Cardinality(Upto(q))
    <2> SUFFICES ASSUME NEW p \in P, NEW q \in P, p < q
                 PROVE  Cardinality(Upto(p)) < Cardinality(Upto(q))
      OBVIOUS
    <2>1. \A m \in P : m \in Nat
      OBVIOUS
    <2>2. Upto(p) \subseteq Upto(q) /\ q \in Upto(q) /\ q \notin Upto(p)
      <3>1. p \in Nat /\ q \in Nat /\ ~(q <= p) /\ q <= q
        BY <2>1
      <3>2. \A m \in P : m <= p => m <= q
        BY <2>1, <3>1
      <3> QED
        BY <3>1, <3>2
    <2> HIDE DEF Upto
    <2>3. /\ Cardinality(Upto(p)) <= Cardinality(Upto(q))
          /\ Cardinality(Upto(p)) # Cardinality(Upto(q))
      BY <1>2, <2>2, FS_Subset
    <2>4. Cardinality(Upto(p)) \in Nat /\ Cardinality(Upto(q)) \in Nat
      BY <1>2, FS_CardinalityType
    <2> QED
      BY <2>3, <2>4
  <1>4. \A p, q \in P : Cardinality(Upto(p)) = Cardinality(Upto(q)) => p = q
    <2> SUFFICES ASSUME NEW p \in P, NEW q \in P, Cardinality(Upto(p)) = Cardinality(Upto(q))
                 PROVE  p = q
      OBVIOUS
    <2>1. p \in Nat /\ q \in Nat /\ Cardinality(Upto(p)) \in Nat
      BY <1>2, FS_CardinalityType
    <2> QED
      BY <1>3, <2>1
  <1>5. \A k \in 1..Cardinality(P) : \E p \in P : Cardinality(Upto(p)) = k
    <2>1. rank \in [P -> 1..Cardinality(P)]
      BY <1>2
    <2>2. IsFiniteSet(1..Cardinality(P)) /\ Cardinality(1..Cardinality(P)) = Cardinality(P)
      BY <1>1, FS_Interval
    <2>3. \A p \in P : rank[p] = Cardinality(Upto(p))
      OBVIOUS
    <2> HIDE DEF rank, Upto
    <2>4. \A p, q \in P : rank[p] = rank[q] => p = q
      BY <1>4, <2>3
    <2>5. \A k \in 1..Cardinality(P) : \E p \in P : rank[p] = k
      <3> DEFINE S == P
                 T == 1..Cardinality(P)
      <3>1. /\ rank \in [S -> T] /\ IsFiniteSet(S) /\ IsFiniteSet(T)
            /\ Cardinality(S) = Cardinality(T)
            /\ \A x, y \in S : rank[x] = rank[y] => x = y
        BY <1>1, <2>1, <2>2, <2>4
      <3> HIDE DEF S, T
      <3>2. \A v \in T : \E x \in S : rank[x] = v
        BY <3>1, RanksTaken
      <3> QED
        BY <3>2 DEF S, T
    <2> QED
      BY <2>3, <2>5
  <1>6. \A k \in 1..Cardinality(P) :
            Position(P, k) \in P /\ Cardinality(Upto(Position(P, k))) = k
    BY <1>5 DEF Position
  <1>7. \A p \in P : Position(P, Cardinality(Upto(p))) = p
    BY <1>2, <1>4, <1>6
  <1>8. ASSUME NEW k \in 1..Cardinality(P), NEW l \in 1..Cardinality(P), k < l
        PROVE  Position(P, k) < Position(P, l)
    <2> DEFINE p == Position(P, k)
               q == Position(P, l)
    <2>1. p \in P /\ q \in P /\ Cardinality(Upto(p)) = k /\ Cardinality(Upto(q)) = l
      BY <1>6
    <2>2. p \in Nat /\ q \in Nat /\ k \in Nat /\ l \in Nat
      <3> HIDE DEF p, q, Upto
      <3> QED
        BY <1>1, <2>1
    <2> HIDE DEF p, q, Upto
    <2>3. p # q /\ ~(q < p)
      BY <1>3, <1>8, <2>1, <2>2
    <2>4. p < q
      BY <2>2, <2>3
    <2> QED
      BY <2>4 DEF p, q
  <1> QED
    BY <1>1, <1>2, <1>6, <1>7, <1>8

\* Run ids are ordered by Before, those of one prefix by time.
LEMMA RunOrder ==
    ASSUME NEW r \in RunId, NEW s \in RunId
    PROVE  /\ r = s \/ Before(r, s) \/ Before(s, r)
           /\ ~(Before(r, s) /\ Before(s, r))
           /\ \A u \in RunId : Before(r, s) /\ Before(s, u) => Before(r, u)
           /\ r.prefix = s.prefix /\ Before(r, s) => r.at < s.at
  <1> DEFINE names == { ScopeNames[k] : k \in DOMAIN ScopeNames }
             rank(x) == CHOOSE k \in DOMAIN ScopeNames : ScopeNames[k] = x.prefix
  <1>1. DOMAIN ScopeNames = 1..4
    BY DEF ScopeNames
  <1>2. \A x \in RunId : /\ rank(x) \in 1..4 /\ ScopeNames[rank(x)] = x.prefix
                         /\ x.at \in Nat /\ x = [prefix |-> x.prefix, at |-> x.at]
    <2> SUFFICES ASSUME NEW x \in RunId
                 PROVE  /\ rank(x) \in 1..4 /\ ScopeNames[rank(x)] = x.prefix
                        /\ x.at \in Nat /\ x = [prefix |-> x.prefix, at |-> x.at]
      OBVIOUS
    <2>1. /\ x.prefix \in names /\ x.at \in Nat /\ x = [prefix |-> x.prefix, at |-> x.at]
      BY DEF RunId
    <2>2. \E k \in DOMAIN ScopeNames : ScopeNames[k] = x.prefix
      BY <2>1
    <2> QED
      BY <1>1, <2>1, <2>2
  <1>3. \A x, y \in RunId : x.prefix = y.prefix <=> rank(x) = rank(y)
    BY <1>2
  <1>4. \A x, y \in RunId :
            Before(x, y) <=> rank(x) < rank(y) \/ (rank(x) = rank(y) /\ x.at < y.at)
    BY DEF Before
  <1> HIDE DEF rank
  <1>5. \A x, y \in RunId : rank(x) = rank(y) /\ x.at = y.at => x = y
    BY <1>2, <1>3
  <1>6. \A x \in RunId : rank(x) \in Nat /\ x.at \in Nat
    BY <1>2
  <1>7. r = s \/ Before(r, s) \/ Before(s, r)
    BY <1>4, <1>5, <1>6
  <1>8. ~(Before(r, s) /\ Before(s, r))
    BY <1>4, <1>6
  <1>9. ASSUME NEW u \in RunId, Before(r, s), Before(s, u)
        PROVE  Before(r, u)
    BY <1>4, <1>6, <1>9
  <1>10. r.prefix = s.prefix /\ Before(r, s) => r.at < s.at
    BY <1>3, <1>4, <1>6
  <1> QED
    BY <1>7, <1>8, <1>9, <1>10

\* The scan visits every run once, from the last name to the first.
LEMMA ScanDescends ==
    ASSUME NEW runs \in SUBSET RunId, IsFiniteSet(runs)
    PROVE  /\ Cardinality(runs) \in Nat
           /\ DOMAIN ScanOrder(runs) = 1..Cardinality(runs)
           /\ \A k \in 1..Cardinality(runs) : ScanOrder(runs)[k] \in runs
           /\ \A r \in runs : \E k \in 1..Cardinality(runs) : ScanOrder(runs)[k] = r
           /\ \A k, l \in 1..Cardinality(runs) :
                k < l => Before(ScanOrder(runs)[l], ScanOrder(runs)[k])
  <1> DEFINE Above(r) == { s \in runs : Before(r, s) }
             rank == [r \in runs |-> Cardinality(Above(r)) + 1]
             N == Cardinality(runs)
  <1>1. N \in Nat
    BY FS_CardinalityType
  <1>2. ASSUME NEW r \in runs
        PROVE  /\ IsFiniteSet(Above(r)) /\ Cardinality(Above(r)) \in Nat
               /\ Cardinality(Above(r)) + 1 \in 1..N
    <2>1. Above(r) \subseteq runs /\ r \notin Above(r)
      BY RunOrder
    <2> HIDE DEF Above
    <2>2. IsFiniteSet(Above(r)) /\ Cardinality(Above(r)) \in Nat /\ Cardinality(Above(r)) <= N
          /\ Cardinality(Above(r)) # N
      BY <2>1, FS_Subset, FS_CardinalityType
    <2> QED
      BY <1>1, <2>2
  <1>3. ASSUME NEW r \in runs, NEW s \in runs, Before(r, s)
        PROVE  Cardinality(Above(s)) < Cardinality(Above(r))
    <2>1. Above(s) \subseteq Above(r)
      BY <1>3, RunOrder
    <2>2. s \in Above(r) /\ s \notin Above(s)
      BY <1>3, RunOrder
    <2> HIDE DEF Above
    <2>3. /\ Cardinality(Above(s)) <= Cardinality(Above(r))
          /\ Cardinality(Above(s)) # Cardinality(Above(r))
      BY <1>2, <2>1, <2>2, FS_Subset
    <2> QED
      BY <1>2, <2>3
  <1>4. ASSUME NEW r \in runs, NEW s \in runs, Cardinality(Above(r)) = Cardinality(Above(s))
        PROVE  r = s
    <2>1. ~Before(r, s) /\ ~Before(s, r)
      <3> HIDE DEF Above
      <3> QED
        BY <1>2, <1>3, <1>4
    <2> QED
      BY <2>1, RunOrder
  <1>5. \A k \in 1..N : \E r \in runs : Cardinality(Above(r)) = k - 1
    <2>1. rank \in [runs -> 1..N]
      BY <1>2
    <2>2. IsFiniteSet(1..N) /\ Cardinality(1..N) = N
      BY <1>1, FS_Interval
    <2>3. \A r \in runs : rank[r] = Cardinality(Above(r)) + 1 /\ Cardinality(Above(r)) \in Nat
      BY <1>2
    <2> HIDE DEF rank, Above
    <2>4. \A r, s \in runs : rank[r] = rank[s] => r = s
      BY <1>4, <2>3
    <2>5. \A k \in 1..N : \E r \in runs : rank[r] = k
      <3> DEFINE T == 1..N
      <3>1. rank \in [runs -> T] /\ IsFiniteSet(T) /\ N = Cardinality(T)
        BY <2>1, <2>2
      <3> HIDE DEF T
      <3>2. \A v \in T : \E r \in runs : rank[r] = v
        BY <2>4, <3>1, RanksTaken
      <3> QED
        BY <3>2 DEF T
    <2> SUFFICES ASSUME NEW k \in 1..N
                 PROVE  \E r \in runs : Cardinality(Above(r)) = k - 1
      OBVIOUS
    <2>6. PICK r \in runs : rank[r] = k
      BY <2>5
    <2>7. Cardinality(Above(r)) = k - 1
      BY <1>1, <2>3, <2>6
    <2> QED
      BY <2>7
  <1> DEFINE scan == ScanOrder(runs)
  <1>6. DOMAIN scan = 1..N
    BY DEF ScanOrder
  <1>7. \A k \in 1..N : scan[k] \in runs /\ Cardinality(Above(scan[k])) = k - 1
    BY <1>5 DEF ScanOrder
  <1> HIDE DEF scan
  <1>8. ASSUME NEW r \in runs
        PROVE  \E k \in 1..N : scan[k] = r
    <2> DEFINE k == Cardinality(Above(r)) + 1
    <2>1. k \in 1..N /\ Cardinality(Above(r)) = k - 1
      <3>1. Cardinality(Above(r)) \in Nat /\ Cardinality(Above(r)) + 1 \in 1..N
        BY <1>2
      <3> HIDE DEF Above, N
      <3> QED
        BY <3>1
    <2> HIDE DEF k, Above
    <2>2. scan[k] = r
      BY <1>4, <1>7, <2>1
    <2> QED
      BY <2>1, <2>2
  <1>9. ASSUME NEW k \in 1..N, NEW l \in 1..N, k < l
        PROVE  Before(scan[l], scan[k])
    <2>1. /\ scan[k] \in runs /\ scan[l] \in runs
          /\ Cardinality(Above(scan[k])) = k - 1 /\ Cardinality(Above(scan[l])) = l - 1
      BY <1>7
    <2>2. k - 1 < l - 1 /\ ~(l - 1 < k - 1) /\ k - 1 # l - 1
      BY <1>1, <1>9
    <2>3. scan[k] # scan[l]
      BY <2>1, <2>2
    <2>4. ~Before(scan[k], scan[l])
      BY <1>3, <2>1, <2>2
    <2> QED
      BY <2>1, <2>3, <2>4, RunOrder
  <1> QED
    BY <1>1, <1>6, <1>7, <1>8, <1>9 DEF scan

\* A nonempty set of naturals has a least element.
LEMMA LeastOf ==
    ASSUME NEW S, S \subseteq Nat, S # {}
    PROVE  \E n \in S : \A m \in S : n <= m
  <1>1. PICK n \in S : \A m \in S : ~(<< m, n >> \in OpToRel(<, Nat))
    BY NatLessThanWellFounded, WFMin
  <1>2. \A m, k : m \in Nat /\ k \in Nat /\ m < k => << m, k >> \in OpToRel(<, Nat)
    BY Zenon DEF OpToRel
  <1>3. \A m \in S : ~(m < n)
    BY Zenon, <1>1, <1>2
  <1>4. \A m \in S : n <= m
    <2> SUFFICES ASSUME NEW m \in S PROVE n <= m
      OBVIOUS
    <2>1. m \in Nat /\ n \in Nat
      OBVIOUS
    <2> QED
      BY <1>3, <2>1
  <1> QED
    BY <1>1, <1>4

\* A list of entries, from the last name to the first.
Descends(s, n) ==
    /\ n \in Nat /\ DOMAIN s = 1..n
    /\ \A k \in 1..n : s[k].run \in RunId
    /\ \A k, l \in 1..n : k < l => Before(s[l].run, s[k].run)

\* What is kept of it descends as well.
LEMMA KeptDescends ==
    ASSUME NEW s, NEW n, Descends(s, n), NEW P \in SUBSET (1..n)
    PROVE  /\ Descends(Kept(s, P), Cardinality(P))
           /\ \A k \in 1..Cardinality(P) : \E p \in P : Kept(s, P)[k] = s[p]
           /\ \A p \in P : \E k \in 1..Cardinality(P) : Kept(s, P)[k] = s[p]
  <1> DEFINE N == Cardinality(P)
             kept == Kept(s, P)
  <1>1. /\ n \in Nat /\ \A k \in 1..n : s[k].run \in RunId
        /\ \A k, l \in 1..n : k < l => Before(s[l].run, s[k].run)
    BY DEF Descends
  <1>2. /\ N \in Nat
        /\ \A k \in 1..N : Position(P, k) \in P
        /\ \A k, l \in 1..N : k < l => Position(P, k) < Position(P, l)
        /\ \A p \in P : \E k \in 1..N : Position(P, k) = p
    BY <1>1, PositionsAscend
  <1>3. DOMAIN kept = 1..N /\ \A k \in 1..N : kept[k] = s[Position(P, k)]
    BY DEF Kept, Position
  <1> HIDE DEF kept, N
  <1>4. \A k \in 1..N : kept[k].run \in RunId
    BY <1>1, <1>2, <1>3
  <1>5. ASSUME NEW k \in 1..N, NEW l \in 1..N, k < l
        PROVE  Before(kept[l].run, kept[k].run)
    <2>1. Position(P, k) \in 1..n /\ Position(P, l) \in 1..n /\ Position(P, k) < Position(P, l)
      BY <1>2, <1>5
    <2> QED
      BY <1>1, <1>3, <2>1
  <1>6. Descends(kept, N)
    BY <1>2, <1>3, <1>4, <1>5 DEF Descends
  <1>7. /\ \A k \in 1..N : \E p \in P : kept[k] = s[p]
        /\ \A p \in P : \E k \in 1..N : kept[k] = s[p]
    BY <1>2, <1>3
  <1> QED
    BY <1>6, <1>7 DEF kept, N

\* Of every prefix the first entry is kept, which has its latest run.
LEMMA LatestKept ==
    ASSUME NEW s, NEW n, Descends(s, n)
    PROVE  /\ \A k \in DOMAIN FirstOfPrefix(s) : \E p \in 1..n : FirstOfPrefix(s)[k] = s[p]
           /\ \A k, l \in DOMAIN FirstOfPrefix(s) :
                FirstOfPrefix(s)[k].run.prefix = FirstOfPrefix(s)[l].run.prefix
                    => FirstOfPrefix(s)[k] = FirstOfPrefix(s)[l]
           /\ \A p \in 1..n : \E k \in DOMAIN FirstOfPrefix(s) :
                /\ FirstOfPrefix(s)[k].run.prefix = s[p].run.prefix
                /\ FirstOfPrefix(s)[k].run.at >= s[p].run.at
  <1> DEFINE firsts == { p \in 1..n : \A m \in 1..n : m < p => s[m].run.prefix # s[p].run.prefix }
             kept == FirstOfPrefix(s)
  <1>1. /\ n \in Nat /\ DOMAIN s = 1..n /\ \A k \in 1..n : s[k].run \in RunId
        /\ \A k, l \in 1..n : k < l => Before(s[l].run, s[k].run)
    BY DEF Descends
  <1>2. kept = Kept(s, firsts)
    BY <1>1 DEF FirstOfPrefix
  <1>3. firsts \in SUBSET (1..n)
    OBVIOUS
  <1>4. /\ DOMAIN kept = 1..Cardinality(firsts)
        /\ \A k \in DOMAIN kept : \E p \in firsts : kept[k] = s[p]
        /\ \A p \in firsts : \E k \in DOMAIN kept : kept[k] = s[p]
    <2> HIDE DEF kept, firsts
    <2>1. /\ Descends(Kept(s, firsts), Cardinality(firsts))
          /\ \A k \in 1..Cardinality(firsts) : \E p \in firsts : Kept(s, firsts)[k] = s[p]
          /\ \A p \in firsts : \E k \in 1..Cardinality(firsts) : Kept(s, firsts)[k] = s[p]
      BY <1>3, KeptDescends
    <2> QED
      BY <1>2, <2>1 DEF Descends
  <1>5. ASSUME NEW p \in firsts, NEW q \in firsts, s[p].run.prefix = s[q].run.prefix
        PROVE  p = q
    <2>1. p \in 1..n /\ q \in 1..n /\ ~(p < q) /\ ~(q < p)
      BY <1>5
    <2> HIDE DEF firsts
    <2> QED
      BY <1>1, <2>1
  <1>6. ASSUME NEW p \in 1..n
        PROVE  \E q \in firsts : s[q].run.prefix = s[p].run.prefix /\ s[q].run.at >= s[p].run.at
    <2> DEFINE same == { m \in 1..n : s[m].run.prefix = s[p].run.prefix }
    <2>1. same \subseteq Nat /\ p \in same
      BY <1>1
    <2> HIDE DEF same
    <2>2. PICK q \in same : \A m \in same : q <= m
      BY <2>1, LeastOf
    <2>3. q \in 1..n /\ s[q].run.prefix = s[p].run.prefix /\ q <= p
      BY <2>1, <2>2 DEF same
    <2>4. \A m \in 1..n : m < q => s[m].run.prefix # s[q].run.prefix
      <3> SUFFICES ASSUME NEW m \in 1..n, m < q, s[m].run.prefix = s[q].run.prefix
                   PROVE  FALSE
        OBVIOUS
      <3>1. m \in same
        BY <2>3 DEF same
      <3>2. m \in Nat /\ q \in Nat
        BY <1>1, <2>3
      <3> QED
        BY <2>2, <3>1, <3>2
    <2>5. q \in firsts
      BY <2>3, <2>4
    <2>6. s[q].run.at >= s[p].run.at
      <3>1. s[p].run.at \in Nat
        BY <1>1 DEF RunId
      <3>2. CASE q = p
        BY <3>1, <3>2
      <3>3. CASE q < p
        <4>1. Before(s[p].run, s[q].run) /\ s[p].run \in RunId /\ s[q].run \in RunId
          BY <1>1, <2>3, <3>3
        <4>2. s[p].run.at < s[q].run.at
          BY <2>3, <4>1, RunOrder
        <4>3. s[q].run.at \in Nat
          BY <4>1 DEF RunId
        <4> QED
          BY <3>1, <4>2, <4>3
      <3> QED
        BY <1>1, <2>3, <3>2, <3>3
    <2> QED
      BY <2>3, <2>5, <2>6
  <1> HIDE DEF kept, firsts
  <1>7. \A k \in DOMAIN kept : \E p \in 1..n : kept[k] = s[p]
    BY <1>3, <1>4
  <1>8. ASSUME NEW k \in DOMAIN kept, NEW l \in DOMAIN kept,
               kept[k].run.prefix = kept[l].run.prefix
        PROVE  kept[k] = kept[l]
    <2>1. PICK p \in firsts : kept[k] = s[p]
      BY <1>4
    <2>2. PICK q \in firsts : kept[l] = s[q]
      BY <1>4
    <2> QED
      BY <1>5, <1>8, <2>1, <2>2
  <1>9. ASSUME NEW p \in 1..n
        PROVE  \E k \in DOMAIN kept : /\ kept[k].run.prefix = s[p].run.prefix
                                      /\ kept[k].run.at >= s[p].run.at
    BY <1>4, <1>6
  <1> QED
    BY <1>7, <1>8, <1>9 DEF kept

\* The current runs among some entries: the latest of each prefix that fits the query.
Current(s, d, stage) == Catalog(s, [dataset |-> d, stage |-> stage, latest |-> TRUE])
Fits(e, d, stage) == d \in {NoDataset, e.dataset} /\ (stage = "any" \/ stage \in e.stages)
LEMMA CurrentRuns ==
    ASSUME NEW s, NEW n, Descends(s, n), NEW d, NEW stage
    PROVE  /\ \A k \in DOMAIN Current(s, d, stage) :
                \E p \in 1..n : Current(s, d, stage)[k] = s[p]
           /\ \A k, l \in DOMAIN Current(s, d, stage) :
                Current(s, d, stage)[k].run.prefix = Current(s, d, stage)[l].run.prefix
                    => Current(s, d, stage)[k] = Current(s, d, stage)[l]
           /\ \A p \in 1..n : Fits(s[p], d, stage) =>
                \E k \in DOMAIN Current(s, d, stage) :
                    /\ Current(s, d, stage)[k].run.prefix = s[p].run.prefix
                    /\ Current(s, d, stage)[k].run.at >= s[p].run.at
  <1> DEFINE ofD == OfDataset(s, d)
             ofS == OfStage(ofD, stage)
             P == { k \in 1..n : d \in {NoDataset, s[k].dataset} }
             Q == { k \in 1..Cardinality(P) : stage = "any" \/ stage \in ofD[k].stages }
             c == Current(s, d, stage)
  <1>1. n \in Nat /\ DOMAIN s = 1..n /\ P \in SUBSET (1..n)
    BY DEF Descends
  <1>2. ofD = Kept(s, P)
    BY <1>1 DEF OfDataset
  <1> HIDE DEF ofD
  <1>3. /\ Descends(ofD, Cardinality(P))
        /\ \A k \in 1..Cardinality(P) : \E p \in P : ofD[k] = s[p]
        /\ \A p \in P : \E k \in 1..Cardinality(P) : ofD[k] = s[p]
    <2> HIDE DEF P
    <2>1. /\ Descends(Kept(s, P), Cardinality(P))
          /\ \A k \in 1..Cardinality(P) : \E p \in P : Kept(s, P)[k] = s[p]
          /\ \A p \in P : \E k \in 1..Cardinality(P) : Kept(s, P)[k] = s[p]
      BY <1>1, KeptDescends
    <2> QED
      BY <1>2, <2>1
  <1>4. DOMAIN ofD = 1..Cardinality(P) /\ Q \in SUBSET (1..Cardinality(P))
    BY <1>3 DEF Descends
  <1>5. ofS = Kept(ofD, Q)
    <2> HIDE DEF P
    <2> QED
      BY <1>4 DEF OfStage
  <1> HIDE DEF ofS
  <1>6. /\ Descends(ofS, Cardinality(Q))
        /\ \A k \in 1..Cardinality(Q) : \E p \in Q : ofS[k] = ofD[p]
        /\ \A p \in Q : \E k \in 1..Cardinality(Q) : ofS[k] = ofD[p]
    <2> HIDE DEF Q, P
    <2>1. /\ Descends(Kept(ofD, Q), Cardinality(Q))
          /\ \A k \in 1..Cardinality(Q) : \E p \in Q : Kept(ofD, Q)[k] = ofD[p]
          /\ \A p \in Q : \E k \in 1..Cardinality(Q) : Kept(ofD, Q)[k] = ofD[p]
      <3>1. Descends(ofD, Cardinality(P)) /\ Q \in SUBSET (1..Cardinality(P))
        BY <1>3, <1>4
      <3> DEFINE N == Cardinality(P)
      <3>2. Descends(ofD, N) /\ Q \in SUBSET (1..N)
        BY <3>1
      <3> HIDE DEF N
      <3> QED
        BY <3>2, KeptDescends
    <2> QED
      BY <1>5, <2>1
  <1>7. c = FirstOfPrefix(ofS)
    BY DEF Current, Catalog, ofS, ofD
  <1> HIDE DEF c
  <1>8. ASSUME NEW k \in 1..Cardinality(Q)
        PROVE  \E p \in 1..n : ofS[k] = s[p]
    <2>1. PICK q \in Q : ofS[k] = ofD[q]
      BY <1>6
    <2>2. PICK p \in P : ofD[q] = s[p]
      BY <1>3, <1>4, <2>1
    <2> QED
      BY <2>1, <2>2
  <1>9. ASSUME NEW p \in 1..n, Fits(s[p], d, stage)
        PROVE  \E k \in 1..Cardinality(Q) : ofS[k] = s[p]
    <2>1. p \in P
      BY <1>9 DEF Fits
    <2>2. PICK q \in 1..Cardinality(P) : ofD[q] = s[p]
      BY <1>3, <2>1
    <2>3. q \in Q
      BY <1>9, <2>2 DEF Fits
    <2>4. PICK k \in 1..Cardinality(Q) : ofS[k] = ofD[q]
      BY <1>6, <2>3
    <2> QED
      BY <2>2, <2>4
  <1> HIDE DEF P, Q
  <1> DEFINE m == Cardinality(Q)
  <1> HIDE DEF m
  <1>10. /\ \A k \in DOMAIN c : \E p \in 1..m : c[k] = ofS[p]
         /\ \A k, l \in DOMAIN c : c[k].run.prefix = c[l].run.prefix => c[k] = c[l]
         /\ \A p \in 1..m : \E k \in DOMAIN c :
                c[k].run.prefix = ofS[p].run.prefix /\ c[k].run.at >= ofS[p].run.at
    <2>1. Descends(ofS, m)
      BY <1>6 DEF m
    <2> QED
      BY <1>7, <2>1, LatestKept
  <1>11. \A k \in DOMAIN c : \E p \in 1..n : c[k] = s[p]
    BY <1>8, <1>10 DEF m
  <1>12. ASSUME NEW p \in 1..n, Fits(s[p], d, stage)
         PROVE  \E k \in DOMAIN c : /\ c[k].run.prefix = s[p].run.prefix
                                    /\ c[k].run.at >= s[p].run.at
    <2>1. PICK q \in 1..m : ofS[q] = s[p]
      BY <1>9, <1>12 DEF m
    <2> QED
      BY <1>10, <2>1
  <1> QED
    BY <1>10, <1>11, <1>12 DEF c

\* The entries descend, one to a run that has a directory.
LEMMA EntriesDescend ==
    ASSUME NEW ds, IsFiniteSet(ds), \A d \in ds : d[1] \in RunId, NEW ms
    PROVE  LET runs == { d[1] : d \in ds } IN
           /\ Descends(Entries(ds, ms), Cardinality(runs))
           /\ \A k \in 1..Cardinality(runs) :
                \E r \in runs : Entries(ds, ms)[k] = Entry(ds, ms, r)
           /\ \A r \in runs :
                \E k \in 1..Cardinality(runs) : Entries(ds, ms)[k] = Entry(ds, ms, r)
  <1> DEFINE runs == { d[1] : d \in ds }
             N == Cardinality(runs)
             scan == ScanOrder(runs)
             all == Entries(ds, ms)
  <1>1. runs \in SUBSET RunId
    OBVIOUS
  <1>2. IsFiniteSet(runs)
    <2> DEFINE first == [d \in ds |-> d[1]]
    <2>1. first \in Surjection(ds, runs)
      BY DEF Surjection
    <2> HIDE DEF first, runs
    <2> QED
      BY <2>1, FS_Surjection
  <1>3. all = [k \in DOMAIN scan |-> Entry(ds, ms, scan[k])]
    BY DEF Entries
  <1> HIDE DEF runs
  <1>4. /\ N \in Nat /\ DOMAIN scan = 1..N
        /\ \A k \in 1..N : scan[k] \in runs
        /\ \A r \in runs : \E k \in 1..N : scan[k] = r
        /\ \A k, l \in 1..N : k < l => Before(scan[l], scan[k])
    BY <1>1, <1>2, ScanDescends
  <1> HIDE DEF all, scan, N
  <1>5. \A k \in 1..N : all[k] = Entry(ds, ms, scan[k]) /\ all[k].run = scan[k]
    BY <1>3, <1>4 DEF Entry
  <1>6. DOMAIN all = 1..N
    BY <1>3, <1>4
  <1>7. Descends(all, N)
    BY <1>1, <1>4, <1>5, <1>6 DEF Descends
  <1>8. /\ \A k \in 1..N : \E r \in runs : all[k] = Entry(ds, ms, r)
        /\ \A r \in runs : \E k \in 1..N : all[k] = Entry(ds, ms, r)
    BY <1>4, <1>5
  <1> QED
    BY <1>7, <1>8 DEF all, N, runs

\* Where the readable manifests of a run are, as positions of names, and the first of them.
ReadAt(ds, ms, run) ==
    { k \in DOMAIN DirNames :
        DirNames[k] \in StageNames(ds, run) /\ << run, DirNames[k] >> \in DOMAIN ms }
FirstRead(ds, ms, run) == CHOOSE k \in ReadAt(ds, ms, run) : \A m \in ReadAt(ds, ms, run) : k <= m

\* What an entry shows: its run, the names of its directories and the dataset of the first
\* readable manifest.
LEMMA EntryRun ==
    ASSUME NEW ds, NEW ms, NEW run
    PROVE  Entry(ds, ms, run).run = run
  BY DEF Entry

LEMMA EntryStages ==
    ASSUME NEW ds, NEW ms, NEW run
    PROVE  Entry(ds, ms, run).stages = StageNames(ds, run)
  BY DEF Entry

LEMMA EntryUnread ==
    ASSUME NEW ds, NEW ms, NEW run, ReadAt(ds, ms, run) = {}
    PROVE  Entry(ds, ms, run).dataset = NoDataset
  BY DEF Entry, ReadAt

LEMMA EntryRead ==
    ASSUME NEW ds, NEW ms, NEW run, ReadAt(ds, ms, run) # {}
    PROVE  Entry(ds, ms, run).dataset = ms[<< run, DirNames[FirstRead(ds, ms, run)] >>].dataset
  BY DEF Entry, ReadAt, FirstRead

LEMMA FirstReadThere ==
    ASSUME NEW ds, NEW ms, NEW run, ReadAt(ds, ms, run) # {}
    PROVE  << run, DirNames[FirstRead(ds, ms, run)] >> \in DOMAIN ms
  <1>1. DOMAIN DirNames = 1..11
    BY DEF DirNames
  <1>2. ReadAt(ds, ms, run) \subseteq Nat
    BY <1>1 DEF ReadAt
  <1> DEFINE read == ReadAt(ds, ms, run)
  <1> HIDE DEF read
  <1>3. \E k \in read : \A m \in read : k <= m
    <2>1. read # {} /\ read \subseteq Nat
      BY <1>2 DEF read
    <2> QED
      BY <2>1, LeastOf
  <1>4. FirstRead(ds, ms, run) \in read
    BY <1>3 DEF FirstRead, read
  <1> QED
    BY <1>4 DEF read, ReadAt

\* The dataset of an entry is that of a readable manifest, if the run has one below a
\* directory of a known name.
LEMMA ManifestRead ==
    ASSUME NEW ds, NEW ms, NEW run, NEW n \in DOMAIN DirNames,
           << run, DirNames[n] >> \in DOMAIN ms, << run, DirNames[n] >> \in ds
    PROVE  \E name : /\ << run, name >> \in DOMAIN ms
                     /\ Entry(ds, ms, run).dataset = ms[<< run, name >>].dataset
  <1>1. DirNames[n] \in StageNames(ds, run)
    BY DEF StageNames
  <1>2. ReadAt(ds, ms, run) # {}
    BY <1>1 DEF ReadAt
  <1>3. /\ << run, DirNames[FirstRead(ds, ms, run)] >> \in DOMAIN ms
        /\ Entry(ds, ms, run).dataset = ms[<< run, DirNames[FirstRead(ds, ms, run)] >>].dataset
    BY <1>2, EntryRead, FirstReadThere
  <1> QED
    BY <1>3

-----------------------------------------------------------------------------
(* What the current runs show.                                             *)

\* The directories are finitely many, each of a run and a name.
IsPair(d) == d = << d[1], d[2] >>
DirsOK == IsFiniteSet(dirs) /\ \A d \in dirs : IsPair(d)

\* What stages put below runs/ is finite.
LEMMA StageDirsOK ==
    ASSUME DirsOK, Typed, NEW j \in Jobs, Progress(j), RunStage(j) \/ StageRaises(j)
    PROVE  DirsOK'
  <1> DEFINE stage == Doing(j)[2]
             run == RunOfStage(j, stage)
  <1>1. /\ Doing(j)[1] = "stage"
        /\ dirs' = dirs \cup ({run} \X ArtifactDirs(stage))
    BY DEF RunStage, StageRaises
  <1>2. \E a, b : ArtifactDirs(stage) \in {{}, {a}, {a, b}}
    BY DEF ArtifactDirs
  <1> HIDE DEF stage, run
  <1>3. PICK a, b : ArtifactDirs(stage) \in {{}, {a}, {a, b}}
    BY <1>2
  <1>4. \A d \in {run} \X ArtifactDirs(stage) : IsPair(d)
    BY DEF IsPair
  <1>5. IsFiniteSet({run} \X ArtifactDirs(stage))
    <2>1. {run} \X ArtifactDirs(stage) \subseteq {<< run, a >>, << run, b >>}
      BY <1>3
    <2>2. IsFiniteSet({<< run, a >>, << run, b >>})
      <3>1. IsFiniteSet({<< run, a >>} \cup {<< run, b >>})
        BY FS_Singleton, FS_AddElement
      <3>2. {<< run, a >>, << run, b >>} = {<< run, a >>} \cup {<< run, b >>}
        OBVIOUS
      <3> QED
        BY <3>1, <3>2
    <2> QED
      BY <2>1, <2>2, FS_Subset
  <1>6. IsFiniteSet(dirs')
    BY <1>1, <1>5, FS_Union DEF DirsOK
  <1> QED
    BY <1>1, <1>4, <1>6 DEF DirsOK

LEMMA DirsInvariant == Spec => []DirsOK
  <1>1. Init => DirsOK
    BY EarlierAssumption DEF Init, DirsOK, IsPair
  <1>2. CommandInv /\ DirsOK /\ [Next]_vars => DirsOK'
    <2> SUFFICES ASSUME CommandInv, DirsOK, [Next]_vars
                 PROVE  DirsOK'
      OBVIOUS
    <2>1. Typed /\ \A j \in Jobs : Progress(j)
      BY DEF CommandInv
    <2>2. ASSUME UNCHANGED dirs
          PROVE  DirsOK'
      BY <2>2 DEF DirsOK
    <2>3. ASSUME NEW j \in Jobs, MakeTemp(j)
          PROVE  DirsOK'
      <3>1. CASE job[j].cmd = "ingest"
        BY <2>2, <2>3, <3>1 DEF MakeTemp
      <3>2. CASE job[j].cmd # "ingest"
        <4>1. dirs' = dirs \cup {<< job[j].run, StageOf[job[j].cmd] >>}
          BY <2>3, <3>2 DEF MakeTemp, Path
        <4>2. IsPair(<< job[j].run, StageOf[job[j].cmd] >>)
          BY DEF IsPair
        <4> QED
          BY <4>1, <4>2, FS_AddElement DEF DirsOK
      <3> QED
        BY <3>1, <3>2
    <2>4. CASE Next
      <3>1. PICK j \in Jobs : Start(j) \/ RunStage(j) \/ StageRaises(j) \/ MakeTemp(j)
                               \/ FillTemp(j) \/ Replace(j) \/ FailWrite(j) \/ Crash(j)
        BY <2>4 DEF Next
      <3>2. CASE Start(j) \/ FillTemp(j) \/ Replace(j) \/ FailWrite(j) \/ Crash(j)
        BY <2>2, <3>2 DEF Start, FillTemp, Replace, FailWrite, Crash, fileVars
      <3>3. CASE RunStage(j) \/ StageRaises(j)
        BY <2>1, <3>3, StageDirsOK
      <3> QED
        BY <2>3, <3>1, <3>2, <3>3
    <2>5. CASE UNCHANGED vars
      BY <2>2, <2>5 DEF vars, fileVars
    <2> QED
      BY <2>4, <2>5
  <1> QED
    BY <1>1, <1>2, CommandInvariant, PTL DEF Spec

\* A stage manifest is of a process that completed this stage of this run.
LEMMA ManifestOfStage ==
    ASSUME CommandInv, DirsOK, NEW p \in DOMAIN StageManifests
    PROVE  /\ p \in dirs
           /\ \E j \in Jobs : /\ StageManifests[p].dataset = job[j].dataset
                              /\ job[j].cmd \in DOMAIN StageOf /\ StagesDone(j)
                              /\ p = << job[j].run, StageOf[job[j].cmd] >>
  <1> DEFINE stored == { f \in files : f.ext = "json" /\ f.path \in dirs /\ f.text # NoManifest }
             f == CHOOSE f \in stored : f.path = p
  <1>1. /\ DOMAIN StageManifests = { g.path : g \in stored }
        /\ StageManifests[p] = f.text
    BY DEF StageManifests
  <1>2. \E g \in stored : g.path = p
    BY <1>1
  <1>3. f \in files /\ f.path = p /\ p \in dirs /\ f.ext = "json"
    <2> HIDE DEF stored
    <2>1. f \in stored /\ f.path = p
      BY <1>2
    <2> QED
      BY <2>1 DEF stored
  <1> HIDE DEF f
  <1>4. PICK j \in Jobs : j = f.text.by
    BY <1>3 DEF CommandInv, FilesOwned
  <1>5. f.text = Manifest(j) /\ p = Path(j) /\ at[j] >= Stages(j) + 3
    BY <1>3, <1>4 DEF CommandInv, FilesOwned
  <1>6. p = << p[1], p[2] >>
    BY <1>3 DEF DirsOK, IsPair
  <1>7. job[j].cmd # "ingest"
    <2> SUFFICES ASSUME job[j].cmd = "ingest" PROVE FALSE
      OBVIOUS
    <2>1. p = << "batch" >>
      BY <1>5 DEF Path
    <2>2. Len(p) = 2
      BY <1>6
    <2> QED
      BY <2>1, <2>2
  <1>8. at[j] \in Nat /\ Stages(j) \in Nat
    <2>1. at[j] \in Nat /\ at[j] <= Stages(j) + 6
      BY DEF CommandInv, Typed, Progress
    <2> QED
      BY <2>1, NextStep
  <1>9. job[j].cmd # "none"
    BY <1>5, <1>8 DEF CommandInv, Progress
  <1>10. job[j].cmd \in DOMAIN StageOf
    BY <1>7, <1>9 DEF CommandInv, Typed, AllCommands
  <1>11. StagesDone(j)
    BY <1>5, <1>8 DEF StagesDone, Stages
  <1>12. StageManifests[p].dataset = job[j].dataset
    BY <1>1, <1>5 DEF Manifest
  <1>13. p = << job[j].run, StageOf[job[j].cmd] >>
    BY <1>5, <1>7 DEF Path
  <1> QED
    BY <1>3, <1>10, <1>11, <1>12, <1>13

\* Directory names that have the manifest of a command.
LEMMA StageNameKnown ==
    ASSUME NEW cmd \in DOMAIN StageOf
    PROVE  \E n \in DOMAIN DirNames : DirNames[n] = StageOf[cmd]
  <1>1. cmd \in {"ingest-structured", "ingest-pdf", "extract-claims", "resolve-entities",
                 "ask", "ask-all"}
    BY DEF StageOf
  <1>2. StageOf[cmd] \in {"structured_ingest", "pdf_ingest", "claim_and_mention_extraction",
                          "entity_resolution", "retrieval_and_qa"}
    BY <1>1 DEF StageOf
  <1>3. {1, 4, 7, 8, 11} \subseteq DOMAIN DirNames
    BY DEF DirNames
  <1>4. /\ DirNames[1] = "claim_and_mention_extraction" /\ DirNames[4] = "entity_resolution"
        /\ DirNames[7] = "pdf_ingest" /\ DirNames[8] = "retrieval_and_qa"
        /\ DirNames[11] = "structured_ingest"
    BY DEF DirNames
  <1> QED
    BY <1>2, <1>3, <1>4

\* The backend's current runs: none that fits is passed over but for a newer one, there is
\* one for each scope, and a dataset is shown only of a process that had it selected and
\* came through its stage.
THEOREM CurrentRunsNewest == Spec => []CurrentIsNewest
  <1>1. CommandInv /\ DirsOK => CurrentIsNewest
    <2> SUFFICES ASSUME CommandInv, DirsOK,
                        NEW asked \in Datasets \cup {NoDataset},
                        NEW stage \in {"any", "pdf_ingest"}
                 PROVE  LET shown == Shown([dataset |-> asked, stage |-> stage, latest |-> TRUE])
                        IN
                        /\ \A path \in DOMAIN StageManifests, d \in Datasets :
                             Uniform(path[1], d) /\ asked \in {d, NoDataset}
                                 /\ stage \in {path[2], "any"} =>
                               \E e \in shown : e.run.prefix = path[1].prefix
                                                /\ e.run.at >= path[1].at
                        /\ \A e, f \in shown : e.run.prefix = f.run.prefix => e = f
                        /\ \A e \in shown : e.dataset # NoDataset =>
                             \E j \in Jobs : job[j].run = e.run /\ job[j].dataset = e.dataset
                                             /\ StagesDone(j)
      BY DEF CurrentIsNewest
    <2> DEFINE ms == StageManifests
               all == Entries(dirs, ms)
               runs == { d[1] : d \in dirs }
               N == Cardinality(runs)
               c == Current(all, asked, stage)
               shown == { c[k] : k \in DOMAIN c }
    <2>1. Shown([dataset |-> asked, stage |-> stage, latest |-> TRUE]) = shown
      BY DEF Shown, Current
    <2>2. /\ Descends(all, N)
          /\ \A k \in 1..N : \E r \in runs : all[k] = Entry(dirs, ms, r)
          /\ \A r \in runs : \E k \in 1..N : all[k] = Entry(dirs, ms, r)
      <3>1. IsFiniteSet(dirs) /\ \A d \in dirs : d[1] \in RunId
        BY DEF DirsOK, CommandInv, Typed
      <3> HIDE DEF ms
      <3> QED
        BY <3>1, EntriesDescend
    <2> HIDE DEF all, N
    <2>3. /\ \A k \in DOMAIN c : \E p \in 1..N : c[k] = all[p]
          /\ \A k, l \in DOMAIN c : c[k].run.prefix = c[l].run.prefix => c[k] = c[l]
          /\ \A p \in 1..N : Fits(all[p], asked, stage) =>
               \E k \in DOMAIN c : c[k].run.prefix = all[p].run.prefix
                                   /\ c[k].run.at >= all[p].run.at
      BY <2>2, CurrentRuns
    <2> HIDE DEF c, ms
    <2>4. ASSUME NEW path \in DOMAIN ms
          PROVE  /\ path \in dirs
                 /\ \E j \in Jobs : /\ ms[path].dataset = job[j].dataset
                                    /\ job[j].cmd \in DOMAIN StageOf /\ StagesDone(j)
                                    /\ path = << job[j].run, StageOf[job[j].cmd] >>
      BY ManifestOfStage DEF ms
    <2>5. ASSUME NEW path \in DOMAIN ms, NEW d \in Datasets, Uniform(path[1], d),
                 asked \in {d, NoDataset}, stage \in {path[2], "any"}
          PROVE  \E e \in shown : e.run.prefix = path[1].prefix /\ e.run.at >= path[1].at
      <3> DEFINE run == path[1]
                 entry == Entry(dirs, ms, run)
      <3>1. PICK j \in Jobs : /\ job[j].cmd \in DOMAIN StageOf
                              /\ path = << job[j].run, StageOf[job[j].cmd] >>
        BY <2>4
      <3>2. PICK n \in DOMAIN DirNames : DirNames[n] = StageOf[job[j].cmd]
        BY <3>1, StageNameKnown
      <3>3. path = << run, DirNames[n] >> /\ path \in dirs /\ run \in runs
        BY <2>4, <3>1, <3>2
      <3>4. << run, DirNames[n] >> \in DOMAIN ms /\ << run, DirNames[n] >> \in dirs
        BY <3>3
      <3> HIDE DEF run
      <3>5. \E name : << run, name >> \in DOMAIN ms /\ entry.dataset = ms[<< run, name >>].dataset
        BY <3>4, ManifestRead, Zenon
      <3> USE DEF run
      <3>6. PICK name : << run, name >> \in DOMAIN ms /\ entry.dataset = ms[<< run, name >>].dataset
        BY <3>5
      <3>7. PICK i \in Jobs : /\ ms[<< run, name >>].dataset = job[i].dataset
                              /\ job[i].cmd \in DOMAIN StageOf
                              /\ << run, name >> = << job[i].run, StageOf[job[i].cmd] >>
        BY <2>4, <3>6
      <3>8. entry.dataset = d
        BY <2>5, <3>6, <3>7 DEF Uniform
      <3>9. entry.run = run /\ path[2] \in entry.stages
        <4>1. entry.run = run /\ entry.stages = StageNames(dirs, run)
          BY EntryRun, EntryStages
        <4>2. path[2] \in StageNames(dirs, run)
          BY <3>3 DEF StageNames
        <4> QED
          BY <4>1, <4>2
      <3> HIDE DEF entry
      <3>10. Fits(entry, asked, stage)
        BY <2>5, <3>8, <3>9 DEF Fits
      <3>11. PICK p \in 1..N : all[p] = entry
        BY <2>2, <3>3 DEF entry
      <3>12. PICK k \in DOMAIN c : c[k].run.prefix = all[p].run.prefix
                                   /\ c[k].run.at >= all[p].run.at
        BY <2>3, <3>10, <3>11
      <3> QED
        BY <3>9, <3>11, <3>12
    <2>6. ASSUME NEW e \in shown, NEW f \in shown, e.run.prefix = f.run.prefix
          PROVE  e = f
      BY <2>3, <2>6
    <2>7. ASSUME NEW e \in shown, e.dataset # NoDataset
          PROVE  \E j \in Jobs : job[j].run = e.run /\ job[j].dataset = e.dataset /\ StagesDone(j)
      <3>1. PICK p \in 1..N : e = all[p]
        BY <2>3
      <3>2. PICK r \in runs : e = Entry(dirs, ms, r)
        BY <2>2, <3>1
      <3>3. e.run = r
        BY <3>2, EntryRun
      <3>4. Entry(dirs, ms, r).dataset # NoDataset
        BY <2>7, <3>2
      <3>5. ReadAt(dirs, ms, r) # {}
        BY <3>4, EntryUnread
      <3> DEFINE name == DirNames[FirstRead(dirs, ms, r)]
      <3>6. << r, name >> \in DOMAIN ms /\ Entry(dirs, ms, r).dataset = ms[<< r, name >>].dataset
        BY <3>5, EntryRead, FirstReadThere
      <3> HIDE DEF name
      <3>7. PICK j \in Jobs : /\ ms[<< r, name >>].dataset = job[j].dataset /\ StagesDone(j)
                              /\ << r, name >> = << job[j].run, StageOf[job[j].cmd] >>
        BY <2>4, <3>6
      <3> QED
        BY <3>2, <3>3, <3>6, <3>7
    <2> QED
      BY <2>1, <2>5, <2>6, <2>7 DEF ms
  <1> QED
    BY <1>1, CommandInvariant, DirsInvariant, PTL
=============================================================================
