----------------------------- MODULE SessionLog -----------------------------
(***************************************************************************)
(* What Run promises about the histories it persists: a run that fails     *)
(* leaves them as they were, a run that succeeds has touched those of one  *)
(* session at most, once, and before it returned.                          *)
(***************************************************************************)
VARIABLES
  saved,    \* saved: what is persisted, by session
  phase     \* phase: where the current run is

Phases == {"idle", "running", "saved", "ok", "failed"}

(* Everything but what is persisted for session s is the same.             *)
OnlySession(s, before, after) ==
  \A t \in (DOMAIN before \union DOMAIN after) \ {s} :
    /\ t \in DOMAIN before
    /\ t \in DOMAIN after
    /\ after[t] = before[t]

LogInit ==
  /\ saved = <<>>
  /\ phase = "idle"

StartRun ==
  /\ phase \in {"idle", "ok", "failed"}
  /\ phase' = "running"
  /\ UNCHANGED saved

SaveRun ==
  /\ phase = "running"
  /\ phase' = "saved"
  /\ \/ UNCHANGED saved
     \/ \E s \in DOMAIN saved' : OnlySession(s, saved, saved')

EndRun ==
  /\ phase = "saved"
  /\ phase' = "ok"
  /\ UNCHANGED saved

FailRun ==
  /\ phase = "running"
  /\ phase' = "failed"
  /\ UNCHANGED saved

LogNext == StartRun \/ SaveRun \/ EndRun \/ FailRun

LogSpec == LogInit /\ [][LogNext]_<<saved, phase>>
=============================================================================
