--------------------------- MODULE TrialRecording ---------------------------
(***************************************************************************)
(* What aic_engine and the recorder it links in promise each other: a      *)
(* trial is scored from a recording that was running, at most once, and    *)
(* once it is scored the recorder is left alone until the next trial.      *)
(***************************************************************************)
EXTENDS Naturals

CONSTANT NTrials    \* trials of the configuration, run in order

VARIABLES trial, recording, scored

rvars == <<trial, recording, scored>>

Init == trial = 0 /\ recording = FALSE /\ scored = {}

NextTrial ==
  /\ trial < NTrials
  /\ trial' = trial + 1
  /\ UNCHANGED <<recording, scored>>

\* Attempts to start: one that fails may leave the recorder running or not.
Attempt ==
  /\ trial \in 1..NTrials \ scored
  /\ recording' \in BOOLEAN
  /\ UNCHANGED <<trial, scored>>

Score ==
  /\ trial \in 1..NTrials \ scored
  /\ recording /\ recording' = FALSE
  /\ scored' = scored \cup {trial}
  /\ UNCHANGED trial

Next == NextTrial \/ Attempt \/ Score

Spec == Init /\ [][Next]_rvars

=============================================================================
