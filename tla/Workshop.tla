------------------------------ MODULE Workshop ------------------------------
(***************************************************************************)
(* What is built on runs and around them: workflows, experiments, training, *)
(* memories, the knowledge base, the approvers and the schedules of jobs.  *)
(* They share no state, so a behaviour is about one of them.               *)
(***************************************************************************)
EXTENDS Workflow, Evaluation, Training, Memories, Knowledge, Approvals, CronSchedule

VARIABLE subject \* subject: which of them a behaviour is about

vars == <<subject, flowVars, trialVars, trainingVars, memoryVars, knowledgeVars,
          approvalVars, scheduleVars>>

Subjects == {"workflow", "evaluation", "training", "memory", "knowledge", "approval",
             "schedule"}

(* A subject starts anywhere it can, the others in one place.              *)
One(S) == CHOOSE x \in S : TRUE
StartOf(of, x, S) == IF subject = of THEN x \in S ELSE x = One(S)

Init ==
  /\ subject \in Subjects
  /\ StartOf("workflow", plan, Plans) /\ FlowInit
  /\ StartOf("evaluation", trial, Trials) /\ TrialInit
  /\ StartOf("training", options, Schedules) /\ TrainingInit
  /\ StartOf("memory", mind, Minds) /\ MemoryInit
  /\ StartOf("knowledge", chunker, Chunkers) /\ KnowledgeInit
  /\ StartOf("approval", policy, Policies) /\ ApprovalInit
  /\ StartOf("schedule", query, Queries) /\ ScheduleInit

Flow_ == subject = "workflow" /\ UNCHANGED
  <<subject, trialVars, trainingVars, memoryVars, knowledgeVars, approvalVars, scheduleVars>>
Trial_ == subject = "evaluation" /\ UNCHANGED
  <<subject, flowVars, trainingVars, memoryVars, knowledgeVars, approvalVars, scheduleVars>>
Training_ == subject = "training" /\ UNCHANGED
  <<subject, flowVars, trialVars, memoryVars, knowledgeVars, approvalVars, scheduleVars>>
Memory_ == subject = "memory" /\ UNCHANGED
  <<subject, flowVars, trialVars, trainingVars, knowledgeVars, approvalVars, scheduleVars>>
Knowledge_ == subject = "knowledge" /\ UNCHANGED
  <<subject, flowVars, trialVars, trainingVars, memoryVars, approvalVars, scheduleVars>>
Approval_ == subject = "approval" /\ UNCHANGED
  <<subject, flowVars, trialVars, trainingVars, memoryVars, knowledgeVars, scheduleVars>>
Schedule_ == subject = "schedule" /\ UNCHANGED
  <<subject, flowVars, trialVars, trainingVars, memoryVars, knowledgeVars, approvalVars>>

Next ==
  \/ FlowNext /\ Flow_
  \/ TrialNext /\ Trial_
  \/ TrainingNext /\ Training_
  \/ MemoryNext /\ Memory_
  \/ KnowledgeNext /\ Knowledge_
  \/ ApprovalNext /\ Approval_
  \/ ScheduleNext /\ Schedule_

Spec == Init /\ [][Next]_vars

(* Agents answer or fail, so a workflow and an experiment go on; so do the *)
(* scheduler, the process it started, the goroutine that reads it and the  *)
(* search for the next time of a job.                                      *)
(* Nobody has to converse, ingest, type, cancel or end a conversation.     *)
FairSpec ==
  /\ Spec
  /\ WF_vars(FlowNext /\ Flow_)
  /\ WF_vars(TrialNext /\ Trial_)
  /\ WF_vars(ProcessEnds /\ Training_)
  /\ WF_vars((ReadPipe \/ SendProgress \/ FinishTraining) /\ Training_)
  /\ WF_vars(ScheduleNext /\ Schedule_)

-----------------------------------------------------------------------------
(* Properties.                                                             *)

(* What runs of agents are put together to do is done, and no more, and    *)
(* they are due at the first time of their schedule.                       *)
FlowsFaithful ==
  /\ WorkflowFaithful
  /\ TrialFaithful
  /\ TrainingFaithful
  /\ ApprovalsFaithful
  /\ NextIsFirst

(* What was remembered or ingested is found, and nothing else.             *)
StoresFaithful == MemoriesFaithful /\ KnowledgeFaithful

(* Workflows and experiments return, trainings end, and so does the search *)
(* for the next time of a schedule that has few times, or none.            *)
WorkshopEnds ==
  /\ subject = "workflow" ~> flow.stage = "done"
  /\ subject = "evaluation" ~> lab.result # "none"
  /\ TrainingsEnd
  /\ subject = "schedule" ~> search.stage \notin {"parse", "search"}
=============================================================================
