------------------------------ MODULE CommandLine ------------------------------
(***************************************************************************)
(* The eval and bench commands of inference-engine/engine/src/cli/         *)
(* main.cpp, with runtime/config.cpp and runtime/inference_engine.cpp:     *)
(* options and the configuration file, the dataset, one engine after the   *)
(* other, each of which loads the model file, and the evaluation in        *)
(* batches.                                                                *)
(*                                                                         *)
(* The forward pass is the class of a row under the loaded model; how it   *)
(* is computed is the matter of InferenceSession and Gemm.                 *)
(***************************************************************************)
EXTENDS ModelFile, FiniteSetsExt

CONSTANTS
  Command,       \* command lines: bench or not, options, pairs of name and value, dataset
  ConfigFile,    \* configuration files by name: their lines, pairs of key and value
  Missing,       \* no value behind an option
  Malformed,     \* a value that is neither number nor boolean
  Class(_, _),   \* of a model and the pixels of a sample
  DefaultBatch,  \* 128
  MaxBatchSize, MaxThreads, MaxPort,  \* 4096, 256, 65535
  MaxSamples,    \* 10000000
  BenchSamples,  \* 2000
  Sweeps,        \* of bench: the batch, and whether max_batch_size is raised to it
  IntRange, SizeRange  \* 2^32 for the cast of http_port, 2^64 for stoul

ASSUME RangeAssumption ==
  /\ MaxPort < IntRange \div 2
  /\ MaxBatchSize < SizeRange \div 2 /\ MaxThreads < SizeRange \div 2

ASSUME SizeAssumption == {DefaultBatch, MaxBatchSize, BenchSamples} \subseteq Nat /\ SizeRange \in Nat \ {0}

\* The first engine of bench runs one sample at a time, the others raise the limit.
ASSUME SweepsAssumption ==
  /\ Sweeps \in Seq([batch : 1 .. MaxBatchSize, raise : BOOLEAN]) /\ Sweeps # << >>
  /\ \A i \in DOMAIN Sweeps : Sweeps[i].raise \/ Sweeps[i].batch = 1

ASSUME CommandAssumption ==
  \A c \in Command :
    /\ c.bench \in BOOLEAN
    /\ c.dataset.records \in Seq(ToSet(c.dataset.records)) /\ c.options \in Seq(ToSet(c.options))
    /\ \A i \in DOMAIN c.options :
         c.options[i][1] = "batch" => c.options[i][2] \in Int \cup {Missing, Malformed}

ASSUME ConfigAssumption == \A name \in DOMAIN ConfigFile : Len(ConfigFile[name]) \in Nat

VARIABLES
  command,
  stage,    \* "options", "dataset", "engine", "loading", "evaluating", "done", "error"
  parsed,   \* options taken so far
  config, batchSize,
  samples,  \* the dataset in use
  sweep,    \* which engine this is
  offset, input, correct,  \* of evaluate
  refused   \* inferBatch threw

cliVars == <<command, stage, parsed, config, batchSize, samples, sweep, offset, input, correct, refused>>
commandVars == <<fileVars, cliVars>>

\* SessionConfig, as far as something depends on it; model is whether there is a path.
DefaultConfig ==
  [model |-> FALSE, provider |-> "cpu", gemm |-> "auto", maxBatch |-> DefaultBatch,
   threads |-> 1, port |-> 1, thrown |-> FALSE]

CommandInit ==
  /\ FileInit
  /\ command \in Command
  /\ stage = "options" /\ parsed = 0
  /\ config = [DefaultConfig EXCEPT !.model = TRUE]
  /\ batchSize = 1
  /\ samples = << >> /\ sweep = 1
  /\ offset = 0 /\ input = << >> /\ correct = 0
  /\ refused = FALSE

--------------------------------------------------------------------------------

(***************************************************************************)
(* SessionConfig::fromFile and validate.                                   *)
(***************************************************************************)
ToInt(n) == ((n + IntRange \div 2) % IntRange) - IntRange \div 2

IsSize(value) == value # Malformed /\ value >= 0
IsBool(value) == value # Malformed /\ value \in BOOLEAN

TakeLine(line, c) ==
  LET key == line[1]  value == line[2]
      Size(set) == IF IsSize(value) THEN set ELSE [c EXCEPT !.thrown = TRUE]
  IN  IF c.thrown \/ key \in {"name", "http_address"} THEN c
      ELSE IF key = "model_path" THEN [c EXCEPT !.model = TRUE]
      ELSE IF key = "execution_provider" THEN [c EXCEPT !.provider = value]
      ELSE IF key = "gemm_strategy" THEN [c EXCEPT !.gemm = value]
      ELSE IF key = "max_batch_size" THEN Size([c EXCEPT !.maxBatch = value])
      ELSE IF key = "intra_op_threads" THEN Size([c EXCEPT !.threads = value])
      ELSE IF key = "http_port" THEN Size([c EXCEPT !.port = ToInt(value)])
      ELSE IF key = "max_queue_delay_microseconds" THEN Size(c)
      ELSE IF key \in {"inter_op_parallel", "graph_optimization", "memory_pool", "profiling"} /\ IsBool(value)
      THEN c
      ELSE [c EXCEPT !.thrown = TRUE]

\* gemmStrategyFromString, and the providers there are.
Strategy == {"naive", "reordered", "tiled", "packed", "auto"}
Provider == {"cpu"}

Valid(c) ==
  /\ ~ c.thrown /\ c.model
  /\ c.maxBatch \in 1 .. MaxBatchSize
  /\ c.threads \in 1 .. MaxThreads
  /\ c.port \in 1 .. MaxPort
  /\ c.gemm \in Strategy /\ c.provider \in Provider

FromFile(name) ==
  LET lines == ConfigFile[name]
      taken[n \in 0 .. Len(lines)] ==
        IF n = 0 THEN DefaultConfig ELSE TakeLine(lines[n], taken[n - 1])
  IN  taken[Len(lines)]

--------------------------------------------------------------------------------

(***************************************************************************)
(* parseOptions.                                                           *)
(***************************************************************************)
Unsigned(n) == n % SizeRange

Error == stage' = "error" /\ UNCHANGED <<config, batchSize>>

ParseOption ==
  /\ stage = "options" /\ parsed < Len(command.options)
  /\ parsed' = parsed + 1
  /\ LET option == command.options[parsed + 1][1]
         value == command.options[parsed + 1][2]
         Number == option \in {"batch", "threads"} /\ value \notin {Missing, Malformed}
         Known == option = "config" /\ value \in DOMAIN ConfigFile /\ Valid(FromFile(value))
     IN  \/ /\ Known
            /\ config' = FromFile(value)
            /\ UNCHANGED <<stage, batchSize>>
         \/ /\ option = "batch" /\ Number
            /\ batchSize' = Unsigned(value)
            /\ UNCHANGED <<stage, config>>
         \/ /\ option = "threads" /\ Number
            /\ config' = [config EXCEPT !.threads = Unsigned(value)]
            /\ UNCHANGED <<stage, batchSize>>
         \/ /\ option = "gemm" /\ value # Missing
            /\ config' = [config EXCEPT !.gemm = value]
            /\ UNCHANGED <<stage, batchSize>>
         \/ /\ option \in {"parallel", "no-optimize", "profile"}
            /\ UNCHANGED <<stage, config, batchSize>>
         \/ /\ ~ Known /\ ~ Number
            /\ option = "gemm" => value = Missing
            /\ option \notin {"parallel", "no-optimize", "profile"}
            /\ Error
  /\ UNCHANGED <<fileVars, command, samples, sweep, offset, input, correct, refused>>

\* Whichever came first, --batch or --config, the limit is raised at the end.
OptionsDone ==
  /\ stage = "options" /\ parsed = Len(command.options)
  /\ LET batch == Max({batchSize, 1})
         raised == [config EXCEPT !.maxBatch = Max({@, batch})]
     IN  IF Valid(raised) THEN stage' = "dataset" /\ config' = raised /\ batchSize' = batch ELSE Error
  /\ UNCHANGED <<fileVars, command, parsed, samples, sweep, offset, input, correct, refused>>

\* loadDataset; bench takes the first samples.
LoadDataset ==
  /\ stage = "dataset"
  /\ LET d == command.dataset
         used == IF command.bench THEN Min({d.count, BenchSamples}) ELSE d.count
     IN  IF d.count \in 1 .. MaxSamples /\ d.count <= Len(d.records)
         THEN stage' = "engine" /\ samples' = SubSeq(d.records, 1, used)
         ELSE stage' = "error" /\ UNCHANGED samples
  /\ UNCHANGED <<fileVars, command, parsed, config, batchSize, sweep, offset, input, correct, refused>>

--------------------------------------------------------------------------------

(***************************************************************************)
(* An engine for each sweep of bench, and one for eval.                    *)
(***************************************************************************)
Plan == IF command.bench THEN Sweeps ELSE <<[batch |-> batchSize, raise |-> FALSE]>>
Batch == Plan[sweep].batch
SessionMaxBatch == IF Plan[sweep].raise THEN Max({config.maxBatch, Batch}) ELSE config.maxBatch

StartEngine ==
  /\ stage = "engine"
  /\ stage' = "loading"
  /\ load' = [load EXCEPT !.at = "closed"]
  /\ UNCHANGED <<saved, file, written, model, command, parsed, config, batchSize, samples, sweep,
                 offset, input, correct, refused>>

LoadModel == stage = "loading" /\ Load /\ UNCHANGED cliVars

Rows(n) == [i \in 1 .. n |-> Missing]

\* The constructor returns or throws.
EngineStarted ==
  /\ stage = "loading" /\ load.at \in {"loaded", "failed"}
  /\ IF load.at = "loaded" /\ model.inputs # << >> /\ model.outputs # << >>
     THEN stage' = "evaluating" /\ input' = Rows(Batch)
     ELSE stage' = "error" /\ UNCHANGED input
  /\ offset' = 0 /\ correct' = 0
  /\ UNCHANGED <<fileVars, command, parsed, config, batchSize, samples, sweep, refused>>

\* Seeded fault: the labels of the first batch are used for every one.
LabelOfFirst(i) == samples[i].label

LabelOf(i) == samples[offset + i].label

\* inferBatch throws.
TooManyRows(rows) == Len(rows) > SessionMaxBatch

\* One round of the loop of evaluate, with inferBatch.
EvaluateBatch ==
  /\ stage = "evaluating" /\ offset < Len(samples)
  /\ LET current == Min({Batch, Len(samples) - offset})
         sized == IF current # Len(input) THEN Rows(current) ELSE input
     IN  /\ input' = [i \in DOMAIN sized |-> samples[offset + i].pixels]
         /\ IF TooManyRows(input')
            THEN stage' = "error" /\ refused' = TRUE /\ UNCHANGED <<offset, correct>>
            ELSE /\ correct' = correct + Quantify(1 .. current, LAMBDA i : Class(model, input'[i]) = LabelOf(i))
                 /\ offset' = offset + Batch
                 /\ UNCHANGED <<stage, refused>>
  /\ UNCHANGED <<fileVars, command, parsed, config, batchSize, samples, sweep>>

Evaluated == stage = "evaluating" /\ offset >= Len(samples)

Report ==
  /\ Evaluated
  /\ IF sweep < Len(Plan) THEN stage' = "engine" /\ sweep' = sweep + 1
     ELSE stage' = "done" /\ UNCHANGED sweep
  /\ UNCHANGED <<fileVars, command, parsed, config, batchSize, samples, offset, input, correct, refused>>

SaveBefore == stage = "options" /\ parsed = 0 /\ Save /\ UNCHANGED cliVars

CommandNext ==
  \/ SaveBefore \/ ParseOption \/ OptionsDone \/ LoadDataset
  \/ StartEngine \/ LoadModel \/ EngineStarted \/ EvaluateBatch \/ Report

CommandSpec == CommandInit /\ [][CommandNext]_commandVars

--------------------------------------------------------------------------------

(***************************************************************************)
(* What eval and each sweep of bench report is the number of samples whose *)
(* label is their class under the model that was saved, each sample judged *)
(* once against its own label, for every batch size, also one that does    *)
(* not divide the dataset; and once the options are accepted no batch is   *)
(* larger than the engine takes, whatever order the options came in.       *)
(***************************************************************************)
ReportIsTrue ==
  /\ ~ refused
  /\ Evaluated =>
       correct = Quantify(DOMAIN samples, LAMBDA i : Class(saved, samples[i].pixels) = samples[i].label)

================================================================================
