------------------------------- MODULE Training -------------------------------
(***************************************************************************)
(* train_v3.train and opt/w1_matrix.run_matrix: the epoch loop with its    *)
(* periodic evaluation, the averaged weights (EmaWeights) that are swapped *)
(* into the model around it, and the checkpoint.                           *)
(*                                                                         *)
(* Weights are known by the run and the number of epochs they come from,   *)
(* and by whether they are the average over those epochs.                  *)
(***************************************************************************)
EXTENDS Integers, Sequences, FiniteSets

CONSTANTS
  Trainers,   \* "v3" (one run, with or without an average) or "w1"
  Conditions, \* conditions of the matrix before the combination
  Epochs,     \* epochs of a run
  EvalEvery,  \* an evaluation after epochs 0, EvalEvery, ... and the last one
  Errors      \* values of the first-action error

ASSUME TrainingAssumption ==
  /\ Trainers \subseteq {"v3", "w1"}
  /\ {Conditions, Epochs, EvalEvery} \subseteq Nat \ {0} /\ Errors \subseteq Nat

VARIABLES
  trainer, ema,    \* which program; TrainConfig.ema_enabled
  at,              \* "train", "in", "eval", "out", "save", "saved", "done"
  run, epoch,         \* condition, epoch of its loop
  model, backup,   \* the live parameters; EmaWeights._backup
  shadow,          \* EmaWeights._shadow
  sd,              \* model.state_dict() was taken: it aliases the parameters
  best, final,     \* best_first, final_first of the run
  scored,          \* what the last evaluation measured
  bestFinal,       \* best_final of _maybe_save
  ckpt,            \* the file, and the error it was saved for
  results          \* best_first of the finished runs

trainingVars == <<trainer, ema, at, run, epoch, model, backup, shadow, sd, best, final,
                  scored, bestFinal, ckpt, results>>

Raw(r, n)     == [run |-> r, epochs |-> n, avg |-> FALSE]
Average(r, n) == [run |-> r, epochs |-> n, avg |-> TRUE]
NoWeights == Raw(0, 0)
Infinity  == 1000    \* float("inf"), above every error
NoFile    == [model |-> NoWeights, error |-> Infinity]
Runs      == IF trainer = "v3" THEN 1 ELSE Conditions + 1   \* the combination is last

TrainingInit ==
  /\ trainer \in Trainers /\ ema \in BOOLEAN /\ (trainer = "w1" => ~ema)
  /\ at = "train" /\ run = 1 /\ epoch = 0
  /\ model = Raw(1, 0) /\ backup = NoWeights /\ shadow = Average(1, 0) /\ sd = FALSE
  /\ best = Infinity /\ final = 0 /\ scored = NoWeights /\ bestFinal = Infinity
  /\ ckpt = NoFile /\ results = <<>>

-----------------------------------------------------------------------------
EvalDue == epoch % EvalEvery = 0 \/ epoch = Epochs - 1

(* run_epoch: every optimizer step is followed by ema.update. *)
RunEpoch ==
  /\ at = "train" /\ epoch < Epochs
  /\ model' = [model EXCEPT !.epochs = @ + 1]
  /\ shadow' = IF ema THEN [shadow EXCEPT !.epochs = @ + 1] ELSE shadow
  /\ epoch' = epoch + 1
  /\ at' = IF EvalDue THEN "in" ELSE "train"
  /\ UNCHANGED <<trainer, ema, run, backup, sd, best, final, scored, bestFinal, ckpt, results>>

ApplyEma ==
  IF ema THEN backup' = model /\ model' = shadow ELSE UNCHANGED <<backup, model>>
RestoreEma_Skipped == UNCHANGED <<backup, model>>
RestoreEma ==
  IF ema THEN model' = backup /\ backup' = NoWeights ELSE UNCHANGED <<backup, model>>

SwapIn ==
  /\ at = "in" /\ at' = "eval"
  /\ ApplyEma
  /\ UNCHANGED <<trainer, ema, run, epoch, shadow, sd, best, final, scored, bestFinal, ckpt, results>>

Measure(e) ==
  /\ at = "eval" /\ at' = "out"
  /\ final' = e
  /\ best' = IF e < best THEN e ELSE best
  /\ scored' = model
  /\ UNCHANGED <<trainer, ema, run, epoch, model, backup, shadow, sd, bestFinal, ckpt, results>>

SwapOut ==
  /\ at = "out"
  /\ RestoreEma
  /\ at' = IF epoch = Epochs THEN "save" ELSE "train"
  /\ UNCHANGED <<trainer, ema, run, epoch, shadow, sd, best, final, scored, bestFinal, ckpt, results>>

(* The checkpoint of train_v3: the average is swapped in, the state_dict is *)
(* taken and the average is swapped out before the file is written.         *)
TakeStateDict ==
  /\ at = "save" /\ trainer = "v3" /\ ~sd
  /\ ApplyEma
  /\ sd' = TRUE
  /\ UNCHANGED <<trainer, ema, at, run, epoch, shadow, best, final, scored, bestFinal, ckpt, results>>

RestoreForSave ==
  /\ at = "save" /\ trainer = "v3" /\ sd
  /\ RestoreEma
  /\ at' = "saved"
  /\ UNCHANGED <<trainer, ema, run, epoch, shadow, sd, best, final, scored, bestFinal, ckpt, results>>

(* restore copies into the tensors that the state_dict refers to. *)
WriteCheckpoint ==
  /\ at = "saved" /\ at' = "done"
  /\ ckpt' = [model |-> model, error |-> best]
  /\ results' = Append(results, best)
  /\ UNCHANGED <<trainer, ema, run, epoch, model, backup, shadow, sd, best, final, scored, bestFinal>>

(* _reset_model, optimizer and scheduler made anew *)
StartRun(r) ==
  /\ run' = r /\ epoch' = 0 /\ at' = "train"
  /\ model' = Raw(r, 0) /\ best' = Infinity /\ final' = 0

(* train_one returns, _maybe_save keeps the best run so far; then the next  *)
(* condition in the same model, reset: after the base conditions one that   *)
(* combines the better shift with dropout.                                  *)
MaybeSave ==
  /\ at = "save" /\ trainer = "w1"
  /\ IF final < bestFinal
     THEN bestFinal' = final /\ ckpt' = [model |-> model, error |-> final]
     ELSE UNCHANGED <<bestFinal, ckpt>>
  /\ results' = Append(results, best)
  /\ IF run < Runs
     THEN StartRun(run + 1)
     ELSE at' = "done" /\ UNCHANGED <<run, epoch, model, best, final>>
  /\ UNCHANGED <<trainer, ema, backup, shadow, sd, scored>>

TrainingNext ==
  \/ RunEpoch \/ SwapIn \/ (\E e \in Errors : Measure(e)) \/ SwapOut
  \/ TakeStateDict \/ RestoreForSave \/ WriteCheckpoint \/ MaybeSave

TrainingSpec == TrainingInit /\ [][TrainingNext]_trainingVars

-----------------------------------------------------------------------------
(* Properties *)

(* The averaged weights are what is scored and never what is trained on.    *)
(* The checkpoint holds the last trained weights themselves, so it is what  *)
(* the last score was given for only when nothing is averaged; the matrix   *)
(* keeps the run whose last score was least, which is not always the one    *)
(* its report, ranked by best score, puts first.                            *)
CheckpointIsTrained ==
  /\ at = "train" => model = Raw(run, epoch)
  /\ scored # NoWeights => scored.avg = ema
  /\ ckpt # NoFile => ~ckpt.model.avg /\ ckpt.model.epochs = Epochs
  /\ at = "done" /\ ~ema /\ trainer = "v3" => ckpt.model = scored
  /\ trainer = "w1" /\ results # <<>> =>
       /\ ckpt.error = bestFinal
       /\ \A r \in DOMAIN results : results[r] > bestFinal => r # ckpt.model.run

=============================================================================
