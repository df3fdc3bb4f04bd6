------------------------------ MODULE Training ------------------------------
(***************************************************************************)
(* Fine-tuning (finetune/): conversations are collected into files, the    *)
(* scheduler starts a training when enough are new, a training is an       *)
(* external process whose output a goroutine reads into a channel of       *)
(* progress, and the files become a data set that models are evaluated on. *)
(***************************************************************************)
EXTENDS Naturals, Sequences, FiniteSets, SequencesExt, Selection

CONSTANTS
  Schedules,   \* Schedules: the schedulers: whether they go by the clock
               \*   alone, their threshold, and the updates of a training
  ProgressCap, \* ProgressCap: capacity of the channel of progress (100)
  MaxCaptures, \* bound: the conversations that end
  MaxTrainings \* bound: the trainings that are started

(* A sample has the messages that can be counted in it, and is written on  *)
(* one line or on several.                                                 *)
ASSUME SchedulesAssumption ==
  /\ \A o \in Schedules :
       /\ o.threshold \in Nat /\ o.minTurns \in Nat /\ o.updates \in Nat
       /\ o.given \in Seq([format : STRING, messages : Nat, lines : Nat])
       /\ o.format \in STRING
  /\ ProgressCap \in Nat

VARIABLES
  options,     \* options: the scheduler's
  collector,   \* collector: its count and the files it has written
  schedule,    \* schedule: the scheduler's loop
  job,         \* job: the training under way
  dataset,     \* dataset: what has been made of the files
  begun,       \* begun: history: the count at the start of each training
  reports      \* reports: what onComplete and onError were told

trainingVars == <<options, collector, schedule, job, dataset, begun, reports>>

NoJob == [stage |-> "none", written |-> 0, pipe |-> 0, reader |-> "reading",
          progress |-> 0, ok |-> FALSE]

TrainingInit ==
  /\ options \in Schedules
  /\ collector = [ended |-> 0, count |-> 0, files |-> <<>>]
  /\ schedule = [stage |-> "waiting", last |-> 0, cancelled |-> FALSE]
  /\ job = NoJob
  /\ dataset = [stage |-> "none", train |-> <<>>, test |-> <<>>, answered |-> 0, correct |-> 0]
  /\ begun = <<>>
  /\ reports = <<>>

(* A run has the user's message and one of each turn.  The one string of   *)
(* ChatML and the single exchange of Alpaca have no list of messages; all  *)
(* but that string are indented, on several lines.                         *)
Sample(turns) ==
  [format |-> options.format,
   messages |-> IF options.format \in {"chatml", "alpaca"} THEN 0 ELSE turns + 1,
   lines |-> IF options.format = "chatml" THEN 1 ELSE 2]

(* A conversation ends.  It is counted before it is written: a failed      *)
(* write leaves the count without a file.                                  *)

Capture(turns, disk) ==
  /\ collector.ended < MaxCaptures
  /\ dataset.stage = "none"
  /\ collector' =
       IF turns < options.minTurns \/ disk = "noDirectory"
       THEN [collector EXCEPT !.ended = @ + 1]
       ELSE IF disk = "full" THEN [collector EXCEPT !.ended = @ + 1, !.count = @ + 1]
       ELSE [collector EXCEPT !.ended = @ + 1, !.count = @ + 1,
                              !.files = Append(@, Sample(turns))]
  /\ UNCHANGED <<options, schedule, job, dataset, begun, reports>>

-----------------------------------------------------------------------------
(* The scheduler and its trainings.                                        *)

Enough == options.timed \/ collector.count - schedule.last >= options.threshold

(* A tick that starts a training; it fails at once when the script cannot  *)
(* be written, the process not be started or the context is done.          *)
StartTraining ==
  /\ schedule.stage = "waiting"
  /\ Len(begun) < MaxTrainings
  /\ Enough
  /\ begun' = Append(begun, collector.count)
  /\ \/ /\ ~schedule.cancelled
        /\ schedule' = [schedule EXCEPT !.last = collector.count, !.stage = "training"]
        /\ job' = [NoJob EXCEPT !.stage = "running"]
        /\ UNCHANGED reports
     \/ /\ schedule' = [schedule EXCEPT !.last = collector.count]
        /\ reports' = Append(reports, [said |-> "error", ok |-> FALSE])
        /\ UNCHANGED job
  /\ UNCHANGED <<options, collector, dataset>>

(* The process prints an update; its pipe holds it until it is read.       *)
PrintUpdate ==
  /\ job.stage = "running"
  /\ job.written < options.updates
  /\ job' = [job EXCEPT !.written = @ + 1, !.pipe = @ + 1]
  /\ UNCHANGED <<options, collector, schedule, dataset, begun, reports>>

(* It ends by itself, well or not, or is killed with the context.          *)
ProcessEnds ==
  /\ job.stage = "running"
  /\ \E ok \in BOOLEAN :
       /\ ok => ~schedule.cancelled /\ job.written = options.updates
       /\ job' = [job EXCEPT !.stage = "exited", !.ok = ok]
  /\ UNCHANGED <<options, collector, schedule, dataset, begun, reports>>

(* One read takes what the pipe holds; only a single update is understood. *)
ReadPipe ==
  /\ job.reader = "reading"
  /\ job.pipe > 0
  /\ job' = [job EXCEPT !.pipe = 0, !.reader = IF job.pipe = 1 THEN "sending" ELSE @]
  /\ UNCHANGED <<options, collector, schedule, dataset, begun, reports>>

SendProgress ==
  /\ job.reader = "sending"
  /\ job.progress < ProgressCap
  /\ job' = [job EXCEPT !.progress = @ + 1, !.reader = "reading"]
  /\ UNCHANGED <<options, collector, schedule, dataset, begun, reports>>

Understood == IF job.ok THEN "complete" ELSE "error"

(* The goroutine comes to the end of the output and waits for the process; *)
(* the scheduler, which reads no progress, waits for its result.           *)
FinishTraining ==
  /\ job.stage = "exited"
  /\ job.reader = "reading" /\ job.pipe = 0
  /\ job' = NoJob
  /\ schedule' = [schedule EXCEPT !.stage = "waiting"]
  /\ reports' = Append(reports, [said |-> Understood, ok |-> job.ok])
  /\ UNCHANGED <<options, collector, dataset, begun>>

CancelSchedule ==
  /\ ~schedule.cancelled
  /\ schedule' = [schedule EXCEPT !.cancelled = TRUE]
  /\ UNCHANGED <<options, collector, job, dataset, begun, reports>>

EndSchedule ==
  /\ schedule.stage = "waiting"
  /\ schedule.cancelled
  /\ schedule' = [schedule EXCEPT !.stage = "ended"]
  /\ UNCHANGED <<options, collector, job, dataset, begun, reports>>

-----------------------------------------------------------------------------
(* The data set.                                                           *)

(* MinTurns counts the messages of a sample: one without a list of them    *)
(* has none, and is kept only by a filter of zero.                         *)
Filtered(samples, minTurns) == Selected(samples, LAMBDA s : s.messages >= minTurns)

(* The directory may hold other files too.  The first half is for training; *)
(* the test half is exported and read back line by line.  (Bound: once the *)
(* scheduler, which does not touch the files, has ended.)                  *)
Split ==
  /\ dataset.stage = "none"
  /\ schedule.stage = "ended"
  /\ \E minTurns \in 0..3 :
       LET kept == Filtered(options.given \o collector.files, minTurns)
           n == Len(kept) \div 2 IN
       dataset' = [dataset EXCEPT !.stage = "split", !.train = SubSeq(kept, 1, n),
                                  !.test = SubSeq(kept, n + 1, Len(kept))]
  /\ UNCHANGED <<options, collector, schedule, job, begun, reports>>

(* The lines of a file of samples, each known by the sample that is on it  *)
(* or that it has a piece of.                                              *)
Lines(samples) == FlattenSeq([i \in DOMAIN samples |-> [l \in 1..samples[i].lines |-> samples[i]]])

(* Only a line with a whole sample in OpenAI's format, and a question and  *)
(* an answer in it, is evaluated.                                          *)
Asks(sample) == sample.lines = 1 /\ sample.format = "openai" /\ sample.messages >= 2
Evaluable == Len(Selected(Lines(dataset.test), Asks))

Evaluate ==
  /\ dataset.stage = "split"
  /\ \E answered \in 0..Evaluable : \E correct \in 0..answered :
       dataset' = [dataset EXCEPT !.stage = "evaluated", !.answered = answered,
                                  !.correct = correct]
  /\ UNCHANGED <<options, collector, schedule, job, begun, reports>>

ScheduleStep ==
  \/ StartTraining \/ ProcessEnds \/ ReadPipe \/ SendProgress \/ FinishTraining \/ EndSchedule
TrainingNext ==
  \/ \E turns \in 0..2, disk \in {"ok", "noDirectory", "full"} : Capture(turns, disk)
  \/ ScheduleStep \/ PrintUpdate \/ CancelSchedule
  \/ Split \/ Evaluate

-----------------------------------------------------------------------------
(* Properties.                                                             *)

(* A training is started only for as many new conversations as the         *)
(* threshold says since the last was started; each is reported once, and   *)
(* as complete only when its process ended well; no file is without its    *)
(* count; and nothing the collector wrote is ever evaluated: an answer is  *)
(* to a sample another put there, on one line (scheduler.go:84-100,        *)
(* collector.go:98-107, dataset.go:120-132, evaluator.go:115-149).         *)
TrainingFaithful ==
  /\ options.timed \/ \A i \in DOMAIN begun :
       begun[i] >= options.threshold + (IF i = 1 THEN 0 ELSE begun[i - 1])
  /\ \A i \in DOMAIN reports : reports[i].said = "complete" <=> reports[i].ok
  /\ Len(reports) + (IF schedule.stage = "training" THEN 1 ELSE 0) = Len(begun)
  /\ schedule.stage = "training" <=> job.stage # "none"
  /\ job.progress <= ProgressCap
  /\ Len(collector.files) <= collector.count /\ collector.count <= collector.ended
  /\ dataset.answered > 0 => \E i \in DOMAIN options.given : Asks(options.given[i])

(* A training ends, or its reader has filled the channel of progress.      *)
TrainingsEnd ==
  schedule.stage = "training" ~>
    (schedule.stage # "training" \/ (job.progress = ProgressCap /\ job.reader = "sending"))
=============================================================================
