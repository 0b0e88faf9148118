---------------------------- MODULE PipelineProofs ----------------------------
(***************************************************************************)
(* What the offline tools that end in numbers promise, for every value of  *)
(* the constants: what a training run trains, scores and saves, which      *)
(* frames of a bag the relabelling keeps, how a sweep drops trials, and    *)
(* which scenes a verdict compares.  Each tool is a program of its own,    *)
(* with its own specification; the last theorems put them together.        *)
(***************************************************************************)
EXTENDS Pipeline, CollectionProofs, FoldLemmas,
        FiniteSetTheorems, SequenceTheorems, TLAPS

-----------------------------------------------------------------------------
(* Training *)


\* The place in the loop.
LoopInv ==
  /\ trainer \in {"v3", "w1"} /\ ema \in BOOLEAN /\ sd \in BOOLEAN
  /\ trainer = "w1" => ~ema
  /\ at \in {"train", "in", "eval", "out", "save", "saved", "done"}
  /\ run \in Nat /\ run >= 1 /\ epoch \in 0..Epochs
  /\ at = "train" => epoch < Epochs
  /\ at \in {"save", "saved"} => epoch = Epochs
  /\ sd => trainer = "v3" /\ at \in {"save", "saved", "done"}
  /\ at = "saved" => trainer = "v3"
  /\ trainer = "v3" => run = 1

\* The average is in the model during an evaluation, and while the checkpoint
\* of train_v3 is taken; the trained weights are then in the backup.
SwapInv ==
  /\ shadow = Average(1, IF ema THEN epoch ELSE 0)
  /\ at \in {"train", "in", "saved"} => model = Raw(run, epoch)
  /\ at \in {"eval", "out"} =>
       IF ema THEN model = shadow /\ backup = Raw(run, epoch) ELSE model = Raw(run, epoch)
  /\ at = "save" =>
       IF ema /\ sd THEN model = shadow /\ backup = Raw(run, epoch) ELSE model = Raw(run, epoch)

\* What the last evaluation scored.
ScoreInv ==
  /\ scored # NoWeights => scored.avg = ema
  /\ at \in {"out", "save", "saved"} /\ ~ema /\ epoch = Epochs => scored = Raw(run, Epochs)

\* The file, the errors and the finished runs.
CkptInv ==
  /\ ckpt # NoFile => ckpt.model = Raw(ckpt.model.run, Epochs)
  /\ at = "done" /\ trainer = "v3" => ckpt.model = Raw(1, Epochs)
  /\ at = "done" /\ ~ema /\ trainer = "v3" => scored = Raw(1, Epochs)
  /\ trainer = "v3" /\ at # "done" => ckpt = NoFile

MatrixInv ==
  /\ best \in Nat /\ final \in Nat /\ bestFinal \in Nat
  /\ at \in {"out", "save"} => best <= final
  /\ results \in Seq(Nat)
  /\ trainer = "w1" =>
       /\ ckpt.error = bestFinal
       /\ IF at = "done" THEN Len(results) = run ELSE Len(results) = run - 1
       /\ ckpt.model.run \in 0..Len(results)
       /\ \A r \in DOMAIN results : r = ckpt.model.run => results[r] <= bestFinal

-----------------------------------------------------------------------------
(* The steps *)

LEMMA Sizes ==
  /\ Conditions \in Nat /\ Conditions >= 1 /\ Epochs \in Nat /\ Epochs >= 1
  /\ Errors \subseteq Nat /\ Trainers \subseteq {"v3", "w1"}
  BY TrainingAssumption

LEMMA OneMore ==
  ASSUME NEW r, NEW n, NEW b
  PROVE  [[run |-> r, epochs |-> n, avg |-> b] EXCEPT !.epochs = @ + 1]
           = [run |-> r, epochs |-> n + 1, avg |-> b]
  OBVIOUS

LEMMA OneMoreEpoch ==
  ASSUME NEW r, NEW n
  PROVE  [Average(r, n) EXCEPT !.epochs = @ + 1] = Average(r, n + 1)
  BY OneMore DEF Average

LEMMA LoopStep ==
  ASSUME LoopInv, [TrainingNext]_trainingVars
  PROVE  LoopInv'
<1> USE Sizes DEF LoopInv
<1>1. CASE RunEpoch BY <1>1 DEF RunEpoch, EvalDue
<1>2. CASE SwapIn BY <1>2 DEF SwapIn, ApplyEma
<1>3. ASSUME NEW e \in Errors, Measure(e) PROVE LoopInv'
  BY <1>3 DEF Measure
<1>4. CASE SwapOut BY <1>4 DEF SwapOut, RestoreEma
<1>5. CASE TakeStateDict BY <1>5 DEF TakeStateDict, ApplyEma
<1>6. CASE RestoreForSave BY <1>6 DEF RestoreForSave, RestoreEma
<1>7. CASE WriteCheckpoint BY <1>7 DEF WriteCheckpoint
<1>8. CASE MaybeSave
  <2>1. run \in Nat /\ run + 1 \in Nat /\ run + 1 >= 1 /\ trainer = "w1"
    BY <1>8 DEF MaybeSave
  <2>2. /\ trainer' = trainer /\ ema' = ema /\ sd' = sd
        /\ \/ run' = run + 1 /\ epoch' = 0 /\ at' = "train"
           \/ run' = run /\ epoch' = epoch /\ at' = "done"
    BY <1>8 DEF MaybeSave, StartRun
  <2>3. QED BY <2>1, <2>2
<1>9. CASE UNCHANGED trainingVars BY <1>9 DEF trainingVars
<1>10. QED
  BY <1>1, <1>2, <1>3, <1>4, <1>5, <1>6, <1>7, <1>8, <1>9 DEF TrainingNext

LEMMA SwapStep ==
  ASSUME LoopInv, SwapInv, [TrainingNext]_trainingVars
  PROVE  SwapInv'
<1> USE DEF LoopInv, SwapInv
<1>1. CASE RunEpoch
  <2>1. /\ model = Raw(run, epoch) /\ shadow = Average(1, IF ema THEN epoch ELSE 0)
        /\ run' = run /\ epoch' = epoch + 1 /\ ema' = ema /\ at' \in {"train", "in"}
        /\ model' = [model EXCEPT !.epochs = @ + 1]
        /\ shadow' = IF ema THEN [shadow EXCEPT !.epochs = @ + 1] ELSE shadow
    BY <1>1 DEF RunEpoch
  <2>2. model' = Raw(run, epoch + 1) BY <2>1 DEF Raw
  <2>3. CASE ema
    <3>0. (IF ema THEN epoch ELSE 0) = epoch BY <2>3
    <3>1. shadow = Average(1, epoch) /\ shadow' = [shadow EXCEPT !.epochs = @ + 1]
      BY <2>1, <2>3, <3>0, Zenon
    <3>2. shadow' = Average(1, epoch + 1) BY <3>1, OneMoreEpoch
    <3>3. QED BY <2>1, <2>2, <2>3, <3>2
  <2>4. CASE ~ema BY <2>1, <2>2, <2>4
  <2>5. QED BY <2>3, <2>4
<1>2. CASE SwapIn BY <1>2 DEF SwapIn, ApplyEma
<1>3. ASSUME NEW e \in Errors, Measure(e) PROVE SwapInv'
  BY <1>3 DEF Measure
<1>4. CASE SwapOut BY <1>4 DEF SwapOut, RestoreEma
<1>5. CASE TakeStateDict BY <1>5 DEF TakeStateDict, ApplyEma
<1>6. CASE RestoreForSave BY <1>6 DEF RestoreForSave, RestoreEma
<1>7. CASE WriteCheckpoint BY <1>7 DEF WriteCheckpoint
<1>8. CASE MaybeSave BY <1>8 DEF MaybeSave, StartRun
<1>9. CASE UNCHANGED trainingVars BY <1>9 DEF trainingVars
<1>10. QED
  BY <1>1, <1>2, <1>3, <1>4, <1>5, <1>6, <1>7, <1>8, <1>9 DEF TrainingNext

LEMMA ScoreStep ==
  ASSUME LoopInv, SwapInv, ScoreInv, [TrainingNext]_trainingVars
  PROVE  ScoreInv'
<1> USE DEF ScoreInv
<1>1. CASE RunEpoch
  <2>1. at' \in {"train", "in"} /\ scored' = scored /\ ema' = ema BY <1>1 DEF RunEpoch
  <2>2. QED BY <2>1 DEF NoWeights, Raw
<1>2. CASE SwapIn BY <1>2 DEF SwapIn, ApplyEma
<1>3. ASSUME NEW e \in Errors, Measure(e) PROVE ScoreInv'
  <2>1. scored' = model /\ ema' = ema /\ run' = run /\ epoch' = epoch /\ at = "eval"
    BY <1>3 DEF Measure
  <2>2. model.avg = ema
    <3>1. CASE ema
      <4>1. model = Average(1, epoch) BY <2>1, <3>1 DEF SwapInv
      <4>2. QED BY <3>1, <4>1 DEF Average
    <3>2. CASE ~ema
      <4>1. model = Raw(run, epoch) BY <2>1, <3>2 DEF SwapInv
      <4>2. ema = FALSE BY <3>2 DEF LoopInv
      <4>3. QED BY <4>1, <4>2 DEF Raw
    <3>3. QED BY <3>1, <3>2
  <2>3. ~ema => model = Raw(run, epoch) BY <2>1 DEF SwapInv
  <2>4. (scored # NoWeights)' => scored'.avg = ema' BY <2>1, <2>2
  <2>5. QED BY <2>1, <2>3, <2>4
<1>4. CASE SwapOut BY <1>4 DEF SwapOut, RestoreEma
<1>5. CASE TakeStateDict BY <1>5 DEF TakeStateDict, ApplyEma
<1>6. CASE RestoreForSave BY <1>6 DEF RestoreForSave, RestoreEma
<1>7. CASE WriteCheckpoint BY <1>7 DEF WriteCheckpoint
<1>8. CASE MaybeSave
  <2>1. at' \in {"train", "done"} /\ scored' = scored /\ ema' = ema BY <1>8 DEF MaybeSave, StartRun
  <2>2. QED BY <2>1 DEF NoWeights, Raw
<1>9. CASE UNCHANGED trainingVars BY <1>9 DEF trainingVars
<1>10. QED
  BY <1>1, <1>2, <1>3, <1>4, <1>5, <1>6, <1>7, <1>8, <1>9 DEF TrainingNext

LEMMA CkptStep ==
  ASSUME LoopInv, SwapInv, ScoreInv, CkptInv, [TrainingNext]_trainingVars
  PROVE  CkptInv'
<1> USE DEF CkptInv
<1>1. CASE RunEpoch BY <1>1 DEF RunEpoch, EvalDue
<1>2. CASE SwapIn BY <1>2 DEF SwapIn, ApplyEma
<1>3. ASSUME NEW e \in Errors, Measure(e) PROVE CkptInv'
  BY <1>3 DEF Measure
<1>4. CASE SwapOut BY <1>4 DEF SwapOut, RestoreEma
<1>5. CASE TakeStateDict BY <1>5 DEF TakeStateDict, ApplyEma
<1>6. CASE RestoreForSave BY <1>6 DEF RestoreForSave, RestoreEma
<1>7. CASE WriteCheckpoint
  <2>1. model = Raw(run, Epochs) /\ run = 1 /\ at' = "done" /\ trainer' = trainer
        /\ scored' = scored /\ ema' = ema
    BY <1>7 DEF WriteCheckpoint, SwapInv, LoopInv
  <2>2. ckpt'.model = Raw(1, Epochs) /\ ckpt'.model.run = 1
    BY <1>7, <2>1 DEF WriteCheckpoint, Raw
  <2>3. ~ema => scored = Raw(1, Epochs) BY <1>7, <2>1 DEF WriteCheckpoint, ScoreInv, LoopInv
  <2>4. QED BY <2>1, <2>2, <2>3
<1>8. CASE MaybeSave
  <2>1. model = Raw(run, Epochs) /\ trainer = "w1" /\ trainer' = trainer
    BY <1>8 DEF MaybeSave, SwapInv, LoopInv
  <2>2. ckpt' = ckpt \/ ckpt' = [model |-> model, error |-> final] BY <1>8 DEF MaybeSave
  <2>3. ckpt' = ckpt \/ ckpt'.model = Raw(ckpt'.model.run, Epochs)
    <3>1. CASE ckpt' = ckpt BY <3>1
    <3>2. CASE ckpt' = [model |-> model, error |-> final]
      <4>1. ckpt'.model = Raw(run, Epochs) BY <2>1, <3>2
      <4>2. Raw(run, Epochs).run = run BY DEF Raw
      <4>3. QED BY <4>1, <4>2
    <3>3. QED BY <2>2, <3>1, <3>2
  <2>4. QED BY <2>1, <2>3 DEF NoFile
<1>9. CASE UNCHANGED trainingVars BY <1>9 DEF trainingVars
<1>10. QED
  BY <1>1, <1>2, <1>3, <1>4, <1>5, <1>6, <1>7, <1>8, <1>9 DEF TrainingNext

LEMMA MatrixStep ==
  ASSUME LoopInv, SwapInv, MatrixInv, [TrainingNext]_trainingVars
  PROVE  MatrixInv'
<1> USE Sizes DEF MatrixInv
<1>1. CASE RunEpoch BY <1>1 DEF RunEpoch, EvalDue
<1>2. CASE SwapIn BY <1>2 DEF SwapIn, ApplyEma
<1>3. ASSUME NEW e \in Errors, Measure(e) PROVE MatrixInv'
  <2>0. e \in Nat /\ best \in Nat /\ final' = e /\ best' = IF e < best THEN e ELSE best
    BY <1>3 DEF Measure
  <2>1. e \in Nat /\ final' = e /\ best' \in Nat /\ best' <= e BY <2>0
  <2>2. /\ bestFinal' = bestFinal /\ results' = results /\ trainer' = trainer /\ ckpt' = ckpt
        /\ run' = run /\ at = "eval" /\ at' = "out"
    BY <1>3 DEF Measure
  <2>3. QED BY <2>1, <2>2
<1>4. CASE SwapOut BY <1>4 DEF SwapOut, RestoreEma
<1>5. CASE TakeStateDict BY <1>5 DEF TakeStateDict, ApplyEma
<1>6. CASE RestoreForSave BY <1>6 DEF RestoreForSave, RestoreEma
<1>7. CASE WriteCheckpoint
  <2>1. trainer' = "v3" /\ at' = "done" BY <1>7 DEF WriteCheckpoint, LoopInv
  <2>2. best' \in Nat /\ final' \in Nat /\ bestFinal' \in Nat /\ results' \in Seq(Nat)
    BY <1>7 DEF WriteCheckpoint
  <2>3. QED BY <2>1, <2>2
<1>8. CASE MaybeSave
  <2>1. trainer = "w1" /\ trainer' = trainer /\ at = "save" /\ model = Raw(run, epoch)
    BY <1>8 DEF MaybeSave, SwapInv, LoopInv
  <2>2. results' = Append(results, best) /\ Len(results) = run - 1 /\ run \in Nat /\ run >= 1
    BY <1>8, <2>1 DEF MaybeSave, LoopInv
  <2>3. results' \in Seq(Nat) /\ Len(results') = run /\ results'[run] = best
        /\ \A r \in 1..run - 1 : results'[r] = results[r]
        /\ DOMAIN results' = 1..run /\ DOMAIN results = 1..run - 1
    BY <2>2
  <2>4. \/ run' = run + 1 /\ at' = "train" /\ best' = Infinity /\ final' = 0
        \/ run' = run /\ at' = "done" /\ best' = best /\ final' = final
    BY <1>8 DEF MaybeSave, StartRun
  <2>5. CASE final < bestFinal
    <3>1. bestFinal' = final /\ ckpt' = [model |-> model, error |-> final]
      BY <1>8, <2>5 DEF MaybeSave
    <3>2. ckpt'.error = final /\ ckpt'.model.run = run BY <2>1, <3>1 DEF Raw
    <3>3. best <= final BY <2>1
    <3>4. QED BY <2>1, <2>2, <2>3, <2>4, <3>1, <3>2, <3>3 DEF Infinity
  <2>6. CASE ~(final < bestFinal)
    <3>1. bestFinal' = bestFinal /\ ckpt' = ckpt BY <1>8, <2>6 DEF MaybeSave
    <3>2. ckpt.model.run \in 0..run - 1 BY <2>1, <2>2
    <3>3. QED BY <2>1, <2>2, <2>3, <2>4, <3>1, <3>2 DEF Infinity
  <2>7. QED BY <2>5, <2>6
<1>9. CASE UNCHANGED trainingVars BY <1>9 DEF trainingVars
<1>10. QED
  BY <1>1, <1>2, <1>3, <1>4, <1>5, <1>6, <1>7, <1>8, <1>9 DEF TrainingNext

-----------------------------------------------------------------------------
(* The specification *)

TrainInv == LoopInv /\ SwapInv /\ ScoreInv /\ CkptInv /\ MatrixInv

LEMMA TrainInit == TrainingInit => TrainInv
<1> SUFFICES ASSUME TrainingInit PROVE TrainInv OBVIOUS
<1>1. LoopInv
  <2>1. /\ trainer \in {"v3", "w1"} /\ ema \in BOOLEAN /\ (trainer = "w1" => ~ema)
        /\ at = "train" /\ run = 1 /\ epoch = 0 /\ sd = FALSE
    BY Sizes DEF TrainingInit
  <2>2. 0 < Epochs /\ 0 \in 0..Epochs /\ 1 \in Nat /\ 1 >= 1 BY Sizes
  <2>3. sd \in BOOLEAN /\ ~sd BY <2>1
  <2>4. QED BY <2>1, <2>2, <2>3, Zenon DEF LoopInv
<1>2. SwapInv BY DEF TrainingInit, SwapInv
<1>3. ScoreInv /\ CkptInv BY DEF TrainingInit, ScoreInv, CkptInv
<1>4. MatrixInv BY DEF TrainingInit, MatrixInv, NoFile, NoWeights, Raw, Infinity
<1>5. QED BY <1>1, <1>2, <1>3, <1>4 DEF TrainInv

\* TrainInv, where the averaged weights are at each point of the epoch loop
\* and what the scores and the file come from, holds of every training run.
THEOREM TrainingSound == TrainingSpec => []TrainInv
<1>1. TrainInv /\ [TrainingNext]_trainingVars => TrainInv'
  BY LoopStep, SwapStep, ScoreStep, CkptStep, MatrixStep DEF TrainInv
<1>2. QED BY TrainInit, <1>1, PTL DEF TrainingSpec

\* CheckpointIsTrained: training never continues from the averaged weights,
\* the scores are of what they should be, and the checkpoint holds fully
\* trained weights.
THEOREM CheckpointTrained == TrainingSpec => []CheckpointIsTrained
<1>1. TrainInv => CheckpointIsTrained
  <2> SUFFICES ASSUME TrainInv PROVE CheckpointIsTrained OBVIOUS
  <2> USE DEF TrainInv
  <2>1. at = "train" => model = Raw(run, epoch) BY DEF SwapInv
  <2>2. scored # NoWeights => scored.avg = ema BY DEF ScoreInv
  <2>3. ckpt # NoFile => ~ckpt.model.avg /\ ckpt.model.epochs = Epochs BY DEF CkptInv, Raw
  <2>4. at = "done" /\ ~ema /\ trainer = "v3" => ckpt.model = scored BY DEF CkptInv
  <2>5. ASSUME trainer = "w1", results # <<>>
        PROVE  /\ ckpt.error = bestFinal
               /\ \A r \in DOMAIN results : results[r] > bestFinal => r # ckpt.model.run
    <3>1. results \in Seq(Nat) /\ bestFinal \in Nat BY DEF MatrixInv
    <3>2. \A r \in DOMAIN results : results[r] \in Nat BY <3>1
    <3>3. QED BY <2>5, <3>1, <3>2 DEF MatrixInv
  <2>6. QED BY <2>1, <2>2, <2>3, <2>4, <2>5 DEF CheckpointIsTrained
<1>2. QED BY <1>1, TrainingSound, PTL

-----------------------------------------------------------------------------
(* The stall, live and offline *)

\* Onset, of any trace.
OnsetIn(q, f) == Min({j \in 1..f : \A k \in j..f : q[k]})

\* Where StallDetector would act, had it not acted before.
Fires(q, t, l, f) ==
  q[f] /\ t[f] + l >= MinRun /\ t[f] - t[OnsetIn(q, f)] >= StallSpan

\* The detector has acted on the first frame where it fires, and until then
\* knows where the slow span it is in began.
DetectorInv ==
  /\ slow \in Seq(BOOLEAN) /\ stamp \in Seq(Nat) /\ Len(stamp) = Len(slow) /\ lag \in Nat
  /\ slow # <<>> => stamp[1] = 0
  /\ firedAt \in 0..Len(slow)
  /\ \A f \in 1..Len(slow) : Fires(slow, stamp, lag, f) => firedAt # 0 /\ firedAt <= f
  /\ firedAt # 0 => Fires(slow, stamp, lag, firedAt) /\ lowSince = OnsetIn(slow, firedAt)
  /\ firedAt = 0 =>
       lowSince = IF Len(slow) > 0 /\ slow[Len(slow)] THEN OnsetIn(slow, Len(slow)) ELSE 0

\* The window is selected once, of all frames.
WindowInv == window # <<>> => window = SelectWindow /\ stage = "done"

RelabelInv == DetectorInv /\ WindowInv

\* The first frame of a slow span is in it.
LEMMA OnsetInSpan ==
  ASSUME NEW q, NEW f \in Nat \ {0}, q[f]
  PROVE  OnsetIn(q, f) \in 1..f /\ \A k \in OnsetIn(q, f)..f : q[k]
<1> DEFINE S == {j \in 1..f : \A k \in j..f : q[k]}
<1>1. S \in SUBSET Nat /\ f \in S
  OBVIOUS
<1>2. Min(S) \in S
  BY <1>1, LeastNumber
<1>3. QED
  BY <1>2 DEF OnsetIn

\* Frames that come later change no onset; a slow frame goes on with the span
\* it comes into, or begins one.
LEMMA OnsetGrows ==
  ASSUME NEW q \in Seq(BOOLEAN), NEW s \in BOOLEAN, NEW n, n = Len(q)
  PROVE  /\ \A f \in 1..n : OnsetIn(Append(q, s), f) = OnsetIn(q, f)
         /\ s => OnsetIn(Append(q, s), n + 1) = IF n > 0 /\ q[n] THEN OnsetIn(q, n) ELSE n + 1
<1> DEFINE p == Append(q, s)
<1>1. n \in Nat /\ p[n + 1] = s /\ \A k \in 1..n : p[k] = q[k]
  OBVIOUS
<1> HIDE DEF p
<1>2. ASSUME NEW f \in 1..n
      PROVE  OnsetIn(p, f) = OnsetIn(q, f)
  <2>1. \A j \in 1..f : \A k \in j..f : p[k] = q[k]
    BY <1>1
  <2>2. {j \in 1..f : \A k \in j..f : p[k]} = {j \in 1..f : \A k \in j..f : q[k]}
    BY <2>1
  <2>3. QED
    BY <2>2 DEF OnsetIn
<1>3. ASSUME s, n > 0, q[n]
      PROVE  OnsetIn(p, n + 1) = OnsetIn(q, n)
  <2> DEFINE P == {j \in 1..(n + 1) : \A k \in j..(n + 1) : p[k]}
             Q == {j \in 1..n : \A k \in j..n : q[k]}
  <2>1. n \in Q /\ Q \in SUBSET Nat
    BY <1>1, <1>3
  <2>2. n + 1 \in P /\ P \in SUBSET Nat
    <3>1. n + 1 \in 1..(n + 1) /\ \A k \in (n + 1)..(n + 1) : k = n + 1
      BY <1>1
    <3>2. n + 1 \in P
      BY <1>1, <1>3, <3>1
    <3>3. 1..(n + 1) \subseteq Nat
      BY <1>1
    <3>4. QED
      BY <3>2, <3>3
  <2>3. ASSUME NEW j \in 1..n
        PROVE  j \in P <=> j \in Q
    <3>1. \A k \in j..(n + 1) : k = n + 1 \/ k \in j..n
      BY <1>1
    <3>2. \A k \in j..n : k \in j..(n + 1) /\ k \in 1..n
      BY <1>1
    <3>3. j \in 1..(n + 1)
      BY <1>1
    <3>4. QED
      BY <1>1, <1>3, <3>1, <3>2, <3>3
  <2>4. Min(P) \in P /\ \A y \in P : Min(P) <= y
    BY <2>2, LeastNumber
  <2>5. Min(Q) \in Q /\ \A y \in Q : Min(Q) <= y
    BY <2>1, LeastNumber
  <2>6. Min(P) \in Nat /\ Min(Q) \in 1..n /\ Min(P) \in 1..(n + 1)
    BY <2>4, <2>5
  <2>7. Min(Q) \in P
    BY <2>3, <2>5, <2>6
  <2>8. Min(P) <= Min(Q)
    BY <2>4, <2>7
  <2>9. Min(P) \in 1..n
    BY <1>1, <2>6, <2>8
  <2>10. Min(P) \in Q
    BY <2>3, <2>4, <2>9
  <2>11. Min(P) = Min(Q)
    <3> HIDE DEF P, Q
    <3>1. Min(Q) <= Min(P)
      BY <2>5, <2>10
    <3>2. QED
      BY <2>6, <2>8, <3>1
  <2>12. QED
    BY <2>11 DEF OnsetIn
<1>4. ASSUME s, ~(n > 0 /\ q[n])
      PROVE  OnsetIn(p, n + 1) = n + 1
  <2>1. p[n + 1]
    BY <1>1, <1>4
  <2>2. OnsetIn(p, n + 1) \in 1..(n + 1) /\ \A k \in OnsetIn(p, n + 1)..(n + 1) : p[k]
    BY <1>1, <2>1, OnsetInSpan
  <2>3. n > 0 => ~p[n]
    BY <1>1, <1>4
  <2>4. QED
    BY <1>1, <2>2, <2>3
<1>5. QED
  BY <1>2, <1>3, <1>4 DEF p

\* A detector that has seen nothing.
LEMMA RelabelStarts == RelabelInit => RelabelInv
<1> SUFFICES ASSUME RelabelInit
             PROVE  RelabelInv
  OBVIOUS
<1>1. /\ slow = <<>> /\ stamp = <<>> /\ lag \in Nat /\ lowSince = 0 /\ firedAt = 0
      /\ window = <<>>
  BY RelabelAssumption DEF RelabelInit
<1>2. slow \in Seq(BOOLEAN) /\ stamp \in Seq(Nat) /\ Len(slow) = 0 /\ Len(stamp) = 0
  BY <1>1, EmptySeq
<1>3. QED
  BY <1>1, <1>2 DEF RelabelInv, DetectorInv, WindowInv

\* A frame is captured.
LEMMA CaptureStep ==
  ASSUME RelabelInv, NEW s \in BOOLEAN, NEW dt \in Strides, Capture(s, dt)
  PROVE  RelabelInv'
<1> DEFINE n == Len(slow) + 1
           t == IF n = 1 THEN 0 ELSE stamp[n - 1] + dt
           since == IF ~s THEN 0 ELSE IF lowSince = 0 THEN n ELSE lowSince
           span  == t - (IF since = n THEN t ELSE stamp[since])
<1>1. /\ slow' = Append(slow, s) /\ stamp' = Append(stamp, t) /\ stage = "frames"
      /\ UNCHANGED <<stage, lag, window>>
      /\ IF firedAt # 0 THEN UNCHANGED <<lowSince, firedAt>>
         ELSE /\ lowSince' = since
              /\ firedAt' = IF s /\ t + lag >= MinRun /\ span >= StallSpan THEN n ELSE 0
  BY DEF Capture
<1>2. /\ slow \in Seq(BOOLEAN) /\ stamp \in Seq(Nat) /\ Len(stamp) = Len(slow) /\ lag \in Nat
      /\ firedAt \in 0..Len(slow) /\ Len(slow) \in Nat
  BY DEF RelabelInv, DetectorInv
<1>3. t \in Nat
  BY <1>2, RelabelAssumption
<1>4. slow' \in Seq(BOOLEAN) /\ stamp' \in Seq(Nat) /\ Len(slow') = n /\ Len(stamp') = n
  BY <1>1, <1>2, <1>3
<1>5. slow'[n] = s /\ stamp'[n] = t
  BY <1>1, <1>2, <1>3
<1>6. \A f \in 1..Len(slow) : slow'[f] = slow[f] /\ stamp'[f] = stamp[f]
  BY <1>1, <1>2, <1>3
<1>7. slow' # <<>> => stamp'[1] = 0
  <2>1. CASE n = 1
    BY <1>5, <2>1
  <2>2. CASE n # 1
    <3>1. slow # <<>> /\ 1 \in 1..Len(slow)
      BY <1>2, <2>2
    <3>2. QED
      BY <1>6, <3>1 DEF RelabelInv, DetectorInv
  <2>3. QED
    BY <2>1, <2>2
<1>8. \A f \in 1..Len(slow) : OnsetIn(slow', f) = OnsetIn(slow, f)
  BY <1>1, <1>2, OnsetGrows
<1>9. s => OnsetIn(slow', n) = IF Len(slow) > 0 /\ slow[Len(slow)] THEN OnsetIn(slow, Len(slow)) ELSE n
  BY <1>1, <1>2, OnsetGrows
<1>10. ASSUME NEW f \in 1..Len(slow)
       PROVE  Fires(slow', stamp', lag', f) <=> Fires(slow, stamp, lag, f)
  <2>1. CASE slow[f]
    <3>1. OnsetIn(slow, f) \in 1..f
      BY <1>2, <2>1, OnsetInSpan
    <3>2. OnsetIn(slow, f) \in 1..Len(slow)
      BY <1>2, <3>1
    <3>3. /\ slow'[f] = slow[f] /\ stamp'[f] = stamp[f] /\ OnsetIn(slow', f) = OnsetIn(slow, f)
          /\ stamp'[OnsetIn(slow', f)] = stamp[OnsetIn(slow, f)]
      BY <1>6, <1>8, <3>2
    <3>4. QED
      BY <1>1, <3>3 DEF Fires
  <2>2. CASE ~slow[f]
    BY <1>6, <2>2 DEF Fires
  <2>3. QED
    BY <2>1, <2>2
<1>11. CASE firedAt # 0
  <2>1. firedAt' = firedAt /\ lowSince' = lowSince /\ firedAt \in 1..Len(slow)
    BY <1>1, <1>2, <1>11
  <2>2. Fires(slow', stamp', lag', firedAt) /\ lowSince' = OnsetIn(slow', firedAt')
    BY <1>8, <1>10, <1>11, <2>1 DEF RelabelInv, DetectorInv
  <2>3. ASSUME NEW f \in 1..n, Fires(slow', stamp', lag', f)
        PROVE  firedAt <= f
    <3>1. CASE f = n
      BY <1>2, <2>1, <3>1
    <3>2. CASE f \in 1..Len(slow)
      BY <1>10, <2>3, <3>2 DEF RelabelInv, DetectorInv
    <3>3. QED
      BY <1>2, <3>1, <3>2
  <2>4. DetectorInv'
    BY <1>1, <1>2, <1>4, <1>7, <1>11, <2>1, <2>2, <2>3 DEF DetectorInv
  <2>5. QED
    BY <1>1, <2>4 DEF RelabelInv, WindowInv
<1>12. CASE firedAt = 0
  <2>1. lowSince = IF Len(slow) > 0 /\ slow[Len(slow)] THEN OnsetIn(slow, Len(slow)) ELSE 0
    BY <1>12 DEF RelabelInv, DetectorInv
  <2>2. s => since = OnsetIn(slow', n)
    BY <1>2, <1>9, <2>1, OnsetInSpan
  <2>3. s => stamp'[OnsetIn(slow', n)] = IF since = n THEN t ELSE stamp[since]
    BY <1>2, <1>5, <1>6, <1>9, <2>1, <2>2, OnsetInSpan
  <2>4. Fires(slow', stamp', lag', n) <=> s /\ t + lag >= MinRun /\ span >= StallSpan
    BY <1>1, <1>5, <2>3 DEF Fires
  <2>5. \A f \in 1..Len(slow) : ~Fires(slow', stamp', lag', f)
    BY <1>10, <1>12 DEF RelabelInv, DetectorInv
  <2>6. DetectorInv'
    <3> DEFINE fires == s /\ t + lag >= MinRun /\ span >= StallSpan
    <3>1. lowSince' = since /\ firedAt' = IF fires THEN n ELSE 0
      BY <1>1, <1>12
    <3>2. ~s => since = 0
      OBVIOUS
    <3>3. Fires(slow', stamp', lag', n) <=> fires
      BY <2>4
    <3>4. fires => s
      OBVIOUS
    <3>5. n \in Nat /\ n > 0 /\ Len(slow') = n /\ slow'[n] = s
      BY <1>2, <1>4, <1>5
    <3> HIDE DEF fires, since, span, t
    <3>6. firedAt' \in 0..n
      BY <3>1, <3>5
    <3>7. ASSUME NEW f \in 1..n, Fires(slow', stamp', lag', f)
          PROVE  firedAt' # 0 /\ firedAt' <= f
      <4>1. f = n
        <5>1. f = n \/ f \in 1..Len(slow)
          BY <1>2
        <5>2. QED
          BY <2>5, <3>7, <5>1
      <4>2. QED
        BY <3>1, <3>3, <3>5, <3>7, <4>1
    <3>8. firedAt' # 0 => Fires(slow', stamp', lag', firedAt') /\ lowSince' = OnsetIn(slow', firedAt')
      BY <2>2, <3>1, <3>3, <3>4
    <3>9. firedAt' = 0 => lowSince' = IF s THEN OnsetIn(slow', n) ELSE 0
      BY <2>2, <3>1, <3>2
    <3> HIDE DEF n
    <3>10. QED
      BY <1>1, <1>2, <1>4, <1>7, <3>5, <3>6, <3>7, <3>8, <3>9 DEF DetectorInv
  <2>7. QED
    BY <1>1, <2>6 DEF RelabelInv, WindowInv
<1>13. QED
  BY <1>11, <1>12

\* Every step keeps the invariant.
LEMMA RelabelStep ==
  ASSUME RelabelInv, [RelabelNext]_relabelVars
  PROVE  RelabelInv'
<1>1. ASSUME UNCHANGED <<traceVars, lag>>
      PROVE  DetectorInv' /\ SelectWindow' = SelectWindow
  <2>1. UNCHANGED <<slow, stamp, lowSince, firedAt, lag>>
    BY <1>1 DEF traceVars
  <2>2. DetectorInv'
    BY <2>1 DEF RelabelInv, DetectorInv
  <2>3. StallWindow' = StallWindow
    BY <2>1 DEF StallWindow, StalledAt, Onset, LookbackStart
  <2>4. TerminalWindow' = TerminalWindow
    BY <2>1 DEF TerminalWindow
  <2>5. QED
    BY <2>2, <2>3, <2>4 DEF SelectWindow
<1>2. CASE RelabelBag
  <2>1. /\ UNCHANGED <<traceVars, lag>> /\ stage = "frames"
        /\ window' = window \/ (window' = SelectWindow /\ stage' = "done")
    BY <1>2 DEF RelabelBag
  <2>2. window = <<>>
    BY <2>1 DEF RelabelInv, WindowInv
  <2>3. QED
    BY <1>1, <2>1, <2>2 DEF RelabelInv, WindowInv
<1>3. CASE UNCHANGED relabelVars
  <2>1. UNCHANGED <<traceVars, lag>> /\ UNCHANGED <<window, stage>>
    BY <1>3 DEF relabelVars
  <2>2. QED
    BY <1>1, <2>1 DEF RelabelInv, WindowInv
<1>4. CASE \E l \in TfLinks \cup ScoringLinks : ReadTransform(l)
  <2>1. UNCHANGED <<traceVars, lag, window>> /\ stage = "tf"
    BY <1>4 DEF ReadTransform
  <2>2. QED
    BY <1>1, <2>1 DEF RelabelInv, WindowInv
<1>5. CASE ReadPortTarget
  <2>1. UNCHANGED <<traceVars, lag, window>> /\ stage = "tf"
    BY <1>5 DEF ReadPortTarget
  <2>2. QED
    BY <1>1, <2>1 DEF RelabelInv, WindowInv
<1>6. QED
  BY <1>2, <1>3, <1>4, <1>5, CaptureStep DEF RelabelNext

\* Offline a frame is stalled exactly where the live detector would fire, the
\* grace period counted from the first frame.
LEMMA StalledWhereFired ==
  ASSUME DetectorInv, NEW f \in 1..Len(slow)
  PROVE  /\ StalledAt(f) => Fires(slow, stamp, lag, f)
         /\ Fires(slow, stamp, lag, f) /\ stamp[f] >= MinRun => StalledAt(f)
<1>1. stamp[1] = 0 /\ stamp[f] \in Nat /\ lag \in Nat /\ MinRun \in Nat
  BY RelabelAssumption DEF DetectorInv
<1>2. QED
  BY <1>1 DEF StalledAt, Fires, Onset, OnsetIn

LEMMA LookbackInside ==
  ASSUME DetectorInv, NEW f \in 1..Len(slow)
  PROVE  LookbackStart(f) \in 1..f
<1> DEFINE S == {j \in 1..f : \A k \in j..f : stamp[k] >= stamp[f] - StallLookback}
<1>1. Len(slow) \in Nat /\ stamp[f] \in Nat /\ StallLookback \in Nat
  BY RelabelAssumption DEF DetectorInv
<1>2. f \in S /\ S \in SUBSET Nat
  BY <1>1
<1>3. Min(S) \in S
  BY <1>2, LeastNumber
<1>4. QED
  BY <1>3 DEF LookbackStart

\* Of any trace, however the frames fall, the offline window and the live
\* detector agree on the stall.
THEOREM OfflineAgrees == RelabelSpec => []OfflineSeesTheStall
<1>1. RelabelInv => OfflineSeesTheStall
  <2> SUFFICES ASSUME RelabelInv, slow # <<>>
               PROVE  /\ StallWindow # <<>> => firedAt # 0
                      /\ firedAt # 0 /\ stamp[firedAt] >= MinRun =>
                           /\ StallWindow # <<>>
                           /\ StallWindow[1] <= lowSince
                           /\ StallWindow[2] = Len(slow)
                           /\ StallWindow[1] = 1 \/ StallWindow[2] - StallWindow[1] + 1 >= MinKept
                           /\ window # <<>> => window = StallWindow
    BY DEF OfflineSeesTheStall
  <2> DEFINE n == Len(slow)
             stalls == {f \in 1..n : StalledAt(f)}
  <2>1. DetectorInv /\ WindowInv /\ n \in Nat /\ firedAt \in 0..n
    BY DEF RelabelInv, DetectorInv
  <2>2. ASSUME StallWindow # <<>>
        PROVE  firedAt # 0
    <3>1. PICK f \in 1..n : StalledAt(f)
      BY <2>2 DEF StallWindow
    <3>2. Fires(slow, stamp, lag, f)
      BY <2>1, <3>1, StalledWhereFired
    <3>3. QED
      BY <2>1, <3>2 DEF DetectorInv
  <2>3. ASSUME firedAt # 0, stamp[firedAt] >= MinRun
        PROVE  /\ StallWindow # <<>>
               /\ StallWindow[1] <= lowSince
               /\ StallWindow[2] = Len(slow)
               /\ StallWindow[1] = 1 \/ StallWindow[2] - StallWindow[1] + 1 >= MinKept
               /\ window # <<>> => window = StallWindow
    <3>1. firedAt \in 1..n /\ Fires(slow, stamp, lag, firedAt) /\ lowSince = OnsetIn(slow, firedAt)
      BY <2>1, <2>3 DEF DetectorInv
    <3>2. firedAt \in stalls
      BY <2>1, <2>3, <3>1, StalledWhereFired
    <3>3. \A f \in stalls : firedAt <= f
      BY <2>1, StalledWhereFired DEF DetectorInv
    <3>4. Min(stalls) = firedAt
      <4>1. stalls \in SUBSET Nat /\ stalls # {}
        BY <3>2
      <4> HIDE DEF stalls
      <4>2. Min(stalls) \in stalls /\ Min(stalls) <= firedAt /\ Min(stalls) \in Nat
        BY <3>2, <4>1, LeastNumber
      <4>3. firedAt <= Min(stalls)
        BY <3>3, <4>2
      <4>4. QED
        BY <3>1, <4>2, <4>3
    <3>5. Onset(firedAt) = lowSince /\ lowSince \in 1..firedAt
      <4>1. slow[firedAt]
        BY <3>1 DEF Fires
      <4>2. OnsetIn(slow, firedAt) \in 1..firedAt
        BY <3>1, <4>1, OnsetInSpan
      <4>3. QED
        BY <3>1, <4>2 DEF Onset, OnsetIn
    <3> DEFINE first == LookbackStart(lowSince)
    <3>6. lowSince \in 1..n
      BY <2>1, <3>1, <3>5
    <3>7. first \in 1..lowSince
      BY <2>1, <3>6, LookbackInside
    <3>8. StallWindow = IF n - first + 1 < MinKept THEN <<Larger1(1, n - MinKept + 1), n>>
                        ELSE <<first, n>>
      BY <3>2, <3>4, <3>5 DEF StallWindow
    <3> HIDE DEF stalls, first
    <3>9. MinKept \in Nat
      BY RelabelAssumption
    <3>10. StallWindow # <<>>
      BY <3>8
    <3>11. StallWindow[1] <= lowSince /\ StallWindow[2] = n
      BY <2>1, <3>6, <3>7, <3>8, <3>9 DEF Larger1
    <3>12. StallWindow[1] = 1 \/ StallWindow[2] - StallWindow[1] + 1 >= MinKept
      BY <2>1, <3>6, <3>7, <3>8, <3>9 DEF Larger1
    <3>13. window # <<>> => window = StallWindow
      BY <2>1, <3>10 DEF WindowInv, SelectWindow
    <3>14. QED
      BY <3>10, <3>11, <3>12, <3>13
  <2>4. QED
    BY <2>2, <2>3
<1>2. QED
  BY <1>1, RelabelStarts, RelabelStep, PTL DEF RelabelSpec

-----------------------------------------------------------------------------
(* Transforms: where the port is *)

Frames == DOMAIN World

\* What every transform of the forest is: the motion from a parent to its child.
ForestInv ==
  /\ IsFiniteSet(DOMAIN edges) /\ DOMAIN edges \subseteq Frames
  /\ \A c \in DOMAIN edges :
       /\ edges[c].parent \in Frames
       /\ edges[c].motion = Mul(Inv(World[edges[c].parent]), World[c])

\* Rigid transforms.
Rigid == {-1, 1} \X Int

\* The parts of a rigid transform.
LEMMA RigidFields ==
  ASSUME NEW a \in Rigid
  PROVE  a[1] \in {-1, 1} /\ a[2] \in Int /\ a = <<a[1], a[2]>>
BY DEF Rigid

\* Rigid transforms compose to one.
LEMMA MulRigid ==
  ASSUME NEW a \in Rigid, NEW b \in Rigid
  PROVE  Mul(a, b) \in Rigid
<1>1. a[1] \in {-1, 1} /\ a[2] \in Int /\ b[1] \in {-1, 1} /\ b[2] \in Int
  BY RigidFields
<1>2. a[1] * b[1] \in {-1, 1} /\ a[1] * b[2] \in Int
  BY <1>1
<1>3. a[1] * b[2] + a[2] \in Int
  BY <1>1, <1>2
<1>4. QED
  BY <1>2, <1>3 DEF Mul, Rigid

\* A frame seen from another.
LEMMA MulInv ==
  ASSUME NEW a \in Rigid, NEW b \in Rigid
  PROVE  Mul(Inv(a), b) \in Rigid
<1>1. a[1] \in {-1, 1} /\ a[2] \in Int /\ b[1] \in {-1, 1} /\ b[2] \in Int
  BY RigidFields
<1>2. a[1] * b[1] \in {-1, 1}
  BY <1>1
<1>3. a[1] * a[2] \in Int /\ a[1] * b[2] \in Int
  BY <1>1
<1>4. a[1] * b[2] + -(a[1] * a[2]) \in Int
  BY <1>3
<1>5. QED
  BY <1>2, <1>4 DEF Mul, Inv, Rigid

\* A frame seen from itself.
LEMMA MulInvSelf ==
  ASSUME NEW a \in Rigid
  PROVE  Mul(Inv(a), a) = Still
<1>1. a[1] \in {-1, 1} /\ a[2] \in Int
  BY RigidFields
<1>2. CASE a[1] = 1
  BY <1>1, <1>2 DEF Mul, Inv, Still
<1>3. CASE a[1] = -1
  BY <1>1, <1>3 DEF Mul, Inv, Still
<1>4. QED
  BY <1>1, <1>2, <1>3

\* A frame seen from a second one, seen from a third.
LEMMA MulThrough ==
  ASSUME NEW a \in Rigid, NEW b \in Rigid, NEW c \in Rigid
  PROVE  Mul(Mul(Inv(a), b), Mul(Inv(b), c)) = Mul(Inv(a), c)
<1>1. /\ a[1] \in {-1, 1} /\ a[2] \in Int /\ b[1] \in {-1, 1} /\ b[2] \in Int
      /\ c[1] \in {-1, 1} /\ c[2] \in Int
  BY RigidFields
<1> DEFINE a1 == a[1]
           a2 == a[2]
           b1 == b[1]
           b2 == b[2]
           c1 == c[1]
           c2 == c[2]
<1>2. /\ Mul(Inv(a), c) = <<a1 * c1, a1 * c2 + -(a1 * a2)>>
      /\ Mul(Mul(Inv(a), b), Mul(Inv(b), c))
           = <<(a1 * b1) * (b1 * c1),
               (a1 * b1) * (b1 * c2 + -(b1 * b2)) + (a1 * b2 + -(a1 * a2))>>
  BY DEF Mul, Inv
<1>3. /\ a1 \in {-1, 1} /\ a2 \in Int /\ b1 \in {-1, 1} /\ b2 \in Int
      /\ c1 \in {-1, 1} /\ c2 \in Int
  BY <1>1
<1> HIDE DEF a1, a2, b1, b2, c1, c2
<1>4. (a1 * b1) * (b1 * c1) = a1 * c1
  BY <1>3
<1>5. (a1 * b1) * (b1 * c2 + -(b1 * b2)) + (a1 * b2 + -(a1 * a2)) = a1 * c2 + -(a1 * a2)
  <2>1. CASE a1 = 1 /\ b1 = 1
    BY <1>3, <2>1
  <2>2. CASE a1 = 1 /\ b1 = -1
    BY <1>3, <2>2
  <2>3. CASE a1 = -1 /\ b1 = 1
    BY <1>3, <2>3
  <2>4. CASE a1 = -1 /\ b1 = -1
    BY <1>3, <2>4
  <2>5. QED
    BY <1>3, <2>1, <2>2, <2>3, <2>4
<1>6. QED
  BY <1>2, <1>4, <1>5

\* The way back.
LEMMA InvOfMul ==
  ASSUME NEW a \in Rigid, NEW b \in Rigid
  PROVE  Inv(Mul(Inv(a), b)) = Mul(Inv(b), a)
<1>1. a[1] \in {-1, 1} /\ a[2] \in Int /\ b[1] \in {-1, 1} /\ b[2] \in Int
  BY RigidFields
<1> DEFINE a1 == a[1]
           a2 == a[2]
           b1 == b[1]
           b2 == b[2]
<1>2. /\ Inv(Mul(Inv(a), b)) = <<a1 * b1, -((a1 * b1) * (a1 * b2 + -(a1 * a2)))>>
      /\ Mul(Inv(b), a) = <<b1 * a1, b1 * a2 + -(b1 * b2)>>
  BY DEF Mul, Inv
<1>3. a1 \in {-1, 1} /\ a2 \in Int /\ b1 \in {-1, 1} /\ b2 \in Int
  BY <1>1
<1> HIDE DEF a1, a2, b1, b2
<1>4. a1 * b1 = b1 * a1 /\ -((a1 * b1) * (a1 * b2 + -(a1 * a2))) = b1 * a2 + -(b1 * b2)
  <2>1. CASE a1 = 1 /\ b1 = 1
    BY <1>3, <2>1
  <2>2. CASE a1 = 1 /\ b1 = -1
    BY <1>3, <2>2
  <2>3. CASE a1 = -1 /\ b1 = 1
    BY <1>3, <2>3
  <2>4. CASE a1 = -1 /\ b1 = -1
    BY <1>3, <2>4
  <2>5. QED
    BY <1>3, <2>1, <2>2, <2>3, <2>4
<1>5. QED
  BY <1>2, <1>4

\* Every frame has a place.
LEMMA WorldRigid == \A f \in Frames : World[f] \in Rigid
BY RelabelAssumption DEF Frames, Rigid

\* Frames, each but the last the child of the next.
Chain(c, f) ==
  /\ c \in Seq(Frames) /\ c # << >> /\ c[1] = f
  /\ \A k \in 1..(Len(c) - 1) : c[k] \in DOMAIN edges /\ c[k + 1] = edges[c[k]].parent

\* A frame alone is a chain.
LEMMA ChainOfOne ==
  ASSUME NEW f \in Frames
  PROVE  Chain(<<f>>, f)
BY DEF Chain

\* A chain goes on with the parent of its last frame.
LEMMA ChainGrows ==
  ASSUME ForestInv, NEW f \in Frames, NEW c, Chain(c, f), Last(c) \in DOMAIN edges
  PROVE  Chain(Append(c, edges[Last(c)].parent), f)
<1> DEFINE n == Len(c)
           p == edges[Last(c)].parent
<1>1. c \in Seq(Frames) /\ n \in Nat \ {0} /\ p \in Frames /\ Last(c) = c[n]
  <2>1. c \in Seq(Frames) /\ c # << >>
    BY DEF Chain
  <2>2. n \in Nat /\ n # 0
    BY <2>1, EmptySeq
  <2>3. p \in Frames
    BY DEF ForestInv
  <2>4. QED
    BY <2>1, <2>2, <2>3 DEF Last
<1> HIDE DEF p
<1>2. /\ Append(c, p) \in Seq(Frames) /\ Len(Append(c, p)) = n + 1
      /\ \A k \in 1..n : Append(c, p)[k] = c[k]
      /\ Append(c, p)[n + 1] = p
  BY <1>1
<1>3. ASSUME NEW k \in 1..n
      PROVE  Append(c, p)[k] \in DOMAIN edges /\ Append(c, p)[k + 1] = edges[Append(c, p)[k]].parent
  <2>1. CASE k = n
    BY <1>1, <1>2, <2>1 DEF p
  <2>2. CASE k # n
    <3>1. k \in 1..(n - 1) /\ k + 1 \in 1..n
      BY <1>1, <2>2
    <3>2. c[k] \in DOMAIN edges /\ c[k + 1] = edges[c[k]].parent
      BY <3>1 DEF Chain
    <3>3. QED
      BY <1>2, <3>1, <3>2
  <2>3. QED
    BY <2>1, <2>2
<1>4. Append(c, p) # << >> /\ Append(c, p)[1] = f
  <2>1. 1 \in 1..n /\ c[1] = f
    BY <1>1 DEF Chain
  <2>2. Append(c, p) # << >>
    BY <1>1, <1>2
  <2>3. QED
    BY <1>2, <2>1, <2>2
<1>5. QED
  BY <1>1, <1>2, <1>3, <1>4 DEF Chain, p

\* One frame further up, where there is one and no cycle closes.
Climbed(c) ==
  IF Last(c) \in DOMAIN edges /\ edges[Last(c)].parent \notin ToSet(c)
  THEN Append(c, edges[Last(c)].parent) ELSE c

\* A chain that is climbed stays one.
LEMMA ClimbedChain ==
  ASSUME ForestInv, NEW f \in Frames, NEW c, Chain(c, f)
  PROVE  Chain(Climbed(c), f)
BY ChainGrows DEF Climbed

\* There are finitely many frames to climb through.
LEMMA FramesFinite ==
  ASSUME ForestInv
  PROVE  IsFiniteSet(FrameIds) /\ Cardinality(FrameIds) \in Nat /\ FrameIds \subseteq Frames
<1> DEFINE D == DOMAIN edges
           P == {edges[c].parent : c \in D}
           s == [c \in D |-> edges[c].parent]
<1>1. IsFiniteSet(D) /\ D \subseteq Frames /\ P \subseteq Frames
  BY DEF ForestInv
<1>2. s \in Surjection(D, P)
  BY DEF Surjection
<1>3. IsFiniteSet(P)
  BY <1>1, <1>2, FS_Surjection
<1>4. FrameIds = D \cup P
  BY DEF FrameIds
<1> HIDE DEF D, P
<1>5. IsFiniteSet(D \cup P)
  BY <1>1, <1>3, FS_Union
<1>6. QED
  BY <1>1, <1>4, <1>5, FS_CardinalityType

\* A climb ends in a chain.
LEMMA ClimbsChains ==
  ASSUME ForestInv, NEW f \in Frames
  PROVE  Chain(ChainToRoot(f), f)
<1> DEFINE N == Cardinality(FrameIds)
           Solves(up) == up = [n \in 0..N |-> IF n = 0 THEN <<f>> ELSE Climbed(up[n - 1])]
           G == CHOOSE up : Solves(up)
           X == {c \in Seq(Frames) : Chain(c, f)}
           b == [k \in 1..N |-> [c \in X |-> Climbed(c)]]
<1>1. N \in Nat
  BY FramesFinite
<1>2. <<f>> \in X /\ \A c \in X : Climbed(c) \in X
  BY ChainOfOne, ClimbedChain DEF Chain
<1>3. DOMAIN b = 1..N /\ \A k \in 1..N : \A c \in X : b[k][c] = Climbed(c)
  OBVIOUS
<1> HIDE DEF N, X, b
<1>4. PICK h : Folds(h, <<f>>, b)
  BY <1>1, <1>3, FoldExists
<1>5. \A s \in SUBSET (1..N) : h[s] = IF s = {} THEN <<f>> ELSE b[Max(s)][h[s \ {Max(s)}]]
  BY <1>3, <1>4, Zenon DEF Folds
<1>6. \A s \in SUBSET (1..N) : h[s] \in X
  <2>1. h[{}] \in X
    BY <1>2, <1>5
  <2>2. ASSUME NEW s \in SUBSET (1..N), s # {} /\ h[s \ {Max(s)}] \in X
        PROVE  h[s] \in X
    <3>1. Max(s) \in 1..N
      BY <1>1, <2>2, LastDropped
    <3>2. h[s] = Climbed(h[s \ {Max(s)}])
      BY <1>3, <1>5, <2>2, <3>1
    <3>3. QED
      BY <1>2, <2>2, <3>2
  <2>3. QED
    BY <1>1, <2>1, <2>2, FoldStaysIn
<1> DEFINE u == [n \in 0..N |-> h[1..n]]
<1>7. ASSUME NEW n \in 0..N
      PROVE  h[1..n] = IF n = 0 THEN <<f>> ELSE Climbed(u[n - 1])
  <2>1. CASE n = 0
    <3>1. 1..n = {} /\ {} \in SUBSET (1..N)
      BY <2>1
    <3>2. QED
      BY <1>5, <2>1, <3>1
  <2>2. CASE n # 0
    <3>1. n - 1 \in 0..N /\ 1 <= n /\ n \in Nat
      BY <1>1, <2>2
    <3>2. Max(1..n) = n
      BY <3>1, IntervalEnds
    <3>3. 1..n \in SUBSET (1..N) /\ 1..n # {} /\ n \in 1..N /\ (1..n) \ {n} = 1..(n - 1)
          /\ 1..(n - 1) \in SUBSET (1..N)
      BY <1>1, <3>1
    <3>4. h[1..n] = b[n][h[1..(n - 1)]]
      BY <1>5, <3>2, <3>3
    <3>5. h[1..(n - 1)] \in X /\ u[n - 1] = h[1..(n - 1)]
      BY <1>6, <3>1, <3>3
    <3>6. QED
      BY <1>3, <2>2, <3>3, <3>4, <3>5
  <2>3. QED
    BY <2>1, <2>2
<1>8. Solves(u)
  BY <1>7
<1>9. Solves(G)
  <2> HIDE DEF Solves, u
  <2>1. QED
    BY <1>8
<1>10. ChainToRoot(f) = G[N]
  BY Zenon DEF ChainToRoot, Climbed, N
<1> HIDE DEF G
<1>11. \A n \in 0..N : G[n] = IF n = 0 THEN <<f>> ELSE Climbed(G[n - 1])
  BY <1>9
<1> DEFINE Bad == {n \in Nat : n <= N /\ G[n] \notin X}
<1>12. Bad = {}
  <2> SUFFICES ASSUME Bad # {}
               PROVE  FALSE
    OBVIOUS
  <2> DEFINE m == Min(Bad)
  <2>1. m \in Bad /\ \A k \in Bad : m <= k
    <3>1. Bad \in SUBSET Nat
      OBVIOUS
    <3>2. QED
      BY <3>1, LeastNumber
  <2> HIDE DEF m
  <2>2. m \in 0..N /\ G[m] \notin X /\ m \in Nat
    BY <1>1, <2>1
  <2>3. m # 0
    BY <1>2, <1>11, <2>2
  <2>4. m - 1 \in Nat /\ m - 1 <= N /\ ~(m <= m - 1)
    BY <1>1, <2>2, <2>3
  <2>5. G[m - 1] \in X
    BY <2>1, <2>4
  <2>6. QED
    BY <1>2, <1>11, <2>2, <2>3, <2>5
<1>13. QED
  BY <1>1, <1>10, <1>12 DEF X

\* A transform up the chain is the motion of a frame seen from its ancestor.
LEMMA TransformsCompose ==
  ASSUME ForestInv, NEW f \in Frames, NEW a \in ToSet(ChainToRoot(f))
  PROVE  a \in Frames /\ TransformUpTo(f, a) = Mul(Inv(World[a]), World[f])
<1> DEFINE c == ChainToRoot(f)
           I == {k \in 1..Len(c) : c[k] = a}
           p == Min(I)
           s == SubSeq(c, 1, p - 1)
           q == p - 1
<1>1. Chain(c, f)
  BY ClimbsChains
<1>2. /\ c \in Seq(Frames) /\ Len(c) \in Nat /\ c[1] = f
      /\ \A k \in 1..Len(c) : c[k] \in Frames
      /\ \A k \in 1..(Len(c) - 1) : c[k] \in DOMAIN edges /\ c[k + 1] = edges[c[k]].parent
  <2>1. c \in Seq(Frames)
    BY <1>1 DEF Chain
  <2> HIDE DEF c
  <2>2. Len(c) \in Nat /\ \A k \in 1..Len(c) : c[k] \in Frames
    BY <2>1
  <2>3. QED
    BY <1>1, <2>1, <2>2 DEF Chain
<1>3. \E k \in 1..Len(c) : c[k] = a
  <2> HIDE DEF c
  <2>1. a \in ToSet(c)
    BY DEF c
  <2>2. DOMAIN c = 1..Len(c)
    BY <1>2
  <2>3. QED
    BY <2>1, <2>2 DEF ToSet
<1>4. p \in I
  <2>1. I \in SUBSET Nat /\ I # {}
    BY <1>2, <1>3
  <2> HIDE DEF I
  <2>2. QED
    BY <2>1, LeastNumber
<1>5. SelectInSeq(c, LAMBDA g : g = a) = p
  <2>1. I # {}
    BY <1>3
  <2>2. QED
    BY <2>1, Zenon DEF SelectInSeq
<1> HIDE DEF c
<1>6. p \in 1..Len(c) /\ c[p] = a /\ a \in Frames /\ p \in Nat /\ q \in Nat /\ q + 1 = p
  BY <1>2, <1>4
<1> HIDE DEF p
<1>7. s \in Seq(Frames) /\ Len(s) = q /\ DOMAIN s = 1..q /\ \A k \in 1..q : s[k] = c[k]
  <2>1. \A k \in 1..q : c[k] \in Frames
    BY <1>2, <1>6
  <2> HIDE DEF q
  <2>2. 1 \in Int /\ q \in Int
    BY <1>6
  <2> DEFINE z == SubSeq(c, 1, q)
  <2>3. z \in Seq(Frames) /\ Len(z) = (IF 1 <= q THEN q - 1 + 1 ELSE 0)
        /\ \A k \in 1..(q - 1 + 1) : z[k] = c[1 + k - 1]
    BY <2>1, <2>2, SubSeqProperties
  <2> HIDE DEF z
  <2>4. Len(z) = q /\ \A k \in 1..q : z[k] = c[k]
    BY <1>6, <2>3
  <2>5. DOMAIN z = 1..q
    BY <2>3, <2>4
  <2>6. QED
    BY <2>3, <2>4, <2>5 DEF z, q
<1> HIDE DEF s, q
<1> DEFINE Up(g) == [r \in SUBSET DOMAIN s |->
                       IF r = {} THEN Still ELSE Mul(edges[s[Max(r)]].motion, g[r \ {Max(r)}])]
           Solves(g) == g = Up(g)
           G == CHOOSE g : Solves(g)
           b == [k \in 1..q |-> [m \in Rigid |-> Mul(edges[s[k]].motion, m)]]
<1>8. \A k \in 1..q : /\ s[k] \in DOMAIN edges /\ s[k] = c[k] /\ c[k + 1] \in Frames /\ c[k] \in Frames
                      /\ edges[s[k]].motion = Mul(Inv(World[c[k + 1]]), World[c[k]])
  <2>1. \A k \in 1..q : k \in 1..(Len(c) - 1) /\ k + 1 \in 1..Len(c) /\ k \in 1..Len(c)
    BY <1>2, <1>6
  <2>2. QED
    BY <1>2, <1>7, <2>1 DEF ForestInv
<1>9. \A k \in 1..q : \A m \in Rigid : Mul(edges[s[k]].motion, m) \in Rigid
  <2> SUFFICES ASSUME NEW k \in 1..q, NEW m \in Rigid
               PROVE  Mul(edges[s[k]].motion, m) \in Rigid
    OBVIOUS
  <2>1. edges[s[k]].motion \in Rigid
    BY <1>8, MulInv, WorldRigid
  <2>2. QED
    BY <2>1, MulRigid
<1>10. Still \in Rigid
  BY DEF Still, Rigid
<1>11. DOMAIN b = 1..q /\ \A k \in 1..q : \A m \in Rigid : b[k][m] = Mul(edges[s[k]].motion, m)
  OBVIOUS
<1> HIDE DEF b
<1>12. PICK h : Folds(h, Still, b)
  BY <1>6, <1>11, FoldExists
<1>13. \A r \in SUBSET (1..q) : h[r] = IF r = {} THEN Still ELSE b[Max(r)][h[r \ {Max(r)}]]
  BY <1>11, <1>12, Zenon DEF Folds
<1>14. \A r \in SUBSET (1..q) : r # {} => Max(r) \in 1..q /\ r \ {Max(r)} \in SUBSET (1..q)
  BY <1>6, LastDropped
<1>15. \A r \in SUBSET (1..q) : h[r] \in Rigid
  <2>1. h[{}] \in Rigid
    BY <1>10, <1>13
  <2>2. ASSUME NEW r \in SUBSET (1..q), r # {} /\ h[r \ {Max(r)}] \in Rigid
        PROVE  h[r] \in Rigid
    <3>1. Max(r) \in 1..q
      BY <1>14, <2>2
    <3>2. h[r] = Mul(edges[s[Max(r)]].motion, h[r \ {Max(r)}])
      BY <1>11, <1>13, <2>2, <3>1
    <3>3. QED
      BY <1>9, <2>2, <3>1, <3>2
  <2>3. QED
    BY <1>6, <2>1, <2>2, FoldStaysIn
<1>16. \A r \in SUBSET (1..q) :
         h[r] = IF r = {} THEN Still ELSE Mul(edges[s[Max(r)]].motion, h[r \ {Max(r)}])
  BY <1>11, <1>13, <1>14, <1>15
<1>17. Solves(h)
  <2>1. h = [r \in SUBSET (1..q) |-> IF r = {} THEN Still ELSE b[Max(r)][h[r \ {Max(r)}]]]
    BY <1>11, <1>12, Zenon DEF Folds
  <2>2. [r \in SUBSET (1..q) |-> IF r = {} THEN Still ELSE b[Max(r)][h[r \ {Max(r)}]]]
          = [r \in SUBSET (1..q) |->
               IF r = {} THEN Still ELSE Mul(edges[s[Max(r)]].motion, h[r \ {Max(r)}])]
    BY <1>13, <1>16
  <2>3. QED
    BY <1>7, <2>1, <2>2, Zenon
<1>18. Solves(G)
  <2> HIDE DEF Solves
  <2>1. QED
    BY <1>17
<1>19. TransformUpTo(f, a) = G[DOMAIN s]
  <2>1. TransformUpTo(f, a) = FoldLeft(LAMBDA m, g : Mul(edges[g].motion, m), Still, s)
    BY <1>5, Zenon DEF TransformUpTo, c, s
  <2>2. QED
    BY <2>1, Zenon DEF FoldLeft, MapThenFoldSet
<1> HIDE DEF G
<1>20. \A r \in SUBSET (1..q) :
         G[r] = IF r = {} THEN Still ELSE Mul(edges[s[Max(r)]].motion, G[r \ {Max(r)}])
  BY <1>7, <1>18, Zenon
<1> DEFINE Bad == {n \in Nat : n <= q /\ G[1..n] # Mul(Inv(World[c[n + 1]]), World[f])}
<1>21. Bad = {}
  <2> SUFFICES ASSUME Bad # {}
               PROVE  FALSE
    OBVIOUS
  <2> DEFINE m == Min(Bad)
  <2>1. m \in Bad /\ \A k \in Bad : m <= k
    <3>1. Bad \in SUBSET Nat
      OBVIOUS
    <3>2. QED
      BY <3>1, LeastNumber
  <2> HIDE DEF m
  <2>2. m \in Nat /\ m <= q /\ G[1..m] # Mul(Inv(World[c[m + 1]]), World[f])
    BY <2>1
  <2>3. m # 0
    <3>1. 1..0 = {} /\ {} \in SUBSET (1..q)
      OBVIOUS
    <3>2. G[1..0] = Still
      BY <1>20, <3>1
    <3>3. Mul(Inv(World[f]), World[f]) = Still
      BY MulInvSelf, WorldRigid
    <3>4. QED
      BY <1>2, <2>2, <3>2, <3>3
  <2>4. m - 1 \in Nat /\ m - 1 <= q /\ ~(m <= m - 1) /\ (m - 1) + 1 = m /\ 1 <= m /\ m \in 1..q
    BY <1>6, <2>2, <2>3
  <2>5. G[1..(m - 1)] = Mul(Inv(World[c[m]]), World[f])
    BY <2>1, <2>4
  <2>6. Max(1..m) = m /\ 1..m \in SUBSET (1..q) /\ 1..m # {} /\ (1..m) \ {m} = 1..(m - 1)
    <3>1. Max(1..m) = m
      BY <2>4, IntervalEnds
    <3>2. m \in Nat /\ q \in Nat /\ m <= q /\ 1 <= m
      BY <1>6, <2>2, <2>4
    <3>3. 1..m \in SUBSET (1..q)
      BY <3>2
    <3>4. m \in 1..m
      BY <3>2
    <3>5. (1..m) \ {m} = 1..(m - 1)
      BY <3>2
    <3>6. QED
      BY <3>1, <3>3, <3>4, <3>5
  <2>7. G[1..m] = Mul(edges[s[m]].motion, G[1..(m - 1)])
    BY <1>20, <2>6
  <2>8. G[1..m] = Mul(Mul(Inv(World[c[m + 1]]), World[c[m]]), Mul(Inv(World[c[m]]), World[f]))
    BY <1>8, <2>4, <2>5, <2>7
  <2>9. QED
    BY <1>8, <2>2, <2>4, <2>8, MulThrough, WorldRigid
<1>22. G[1..q] = Mul(Inv(World[c[q + 1]]), World[f])
  BY <1>6, <1>21
<1>23. QED
  BY <1>6, <1>7, <1>19, <1>22

\* Two frames that meet are seen from the same place.
LEMMA MeetingSound ==
  ASSUME ForestInv, NEW t \in Frames, NEW f \in Frames, Meeting(t, f) # << >>
  PROVE  LET met == Meeting(t, f) IN
         /\ met[1] \in ToSet(ChainToRoot(t)) /\ met[2] \in ToSet(ChainToRoot(f))
         /\ World[met[1]] = World[met[2]]
<1> DEFINE tc == ChainToRoot(t)
           sc == ChainToRoot(f)
           common == {k \in DOMAIN sc : sc[k] \in ToSet(tc)}
           k0 == Min(common)
<1>1. Chain(tc, t) /\ Chain(sc, f)
  BY ClimbsChains
<1>2. \/ common # {} /\ Meeting(t, f) = <<sc[k0], sc[k0]>>
      \/ Last(tc) \in Aliases /\ Last(sc) \in Aliases /\ Meeting(t, f) = <<Last(tc), Last(sc)>>
  BY Zenon DEF Meeting
<1> HIDE DEF tc, sc
<1>3. CASE common # {} /\ Meeting(t, f) = <<sc[k0], sc[k0]>>
  <2>1. common \in SUBSET Nat
    <3>1. sc \in Seq(Frames)
      BY <1>1 DEF Chain
    <3>2. DOMAIN sc \subseteq Nat
      BY <3>1
    <3>3. QED
      BY <3>2
  <2>2. k0 \in common
    <3> HIDE DEF common
    <3>1. QED
      BY <1>3, <2>1, LeastNumber
  <2>3. k0 \in DOMAIN sc /\ sc[k0] \in ToSet(tc)
    BY <2>2
  <2> HIDE DEF k0
  <2>4. sc[k0] \in ToSet(sc)
    BY <2>3 DEF ToSet
  <2>5. QED
    BY <1>3, <2>3, <2>4 DEF tc, sc
<1>4. CASE Last(tc) \in Aliases /\ Last(sc) \in Aliases /\ Meeting(t, f) = <<Last(tc), Last(sc)>>
  <2>1. ASSUME NEW c, NEW g, Chain(c, g)
        PROVE  Last(c) \in ToSet(c) /\ Last(c) \in Frames
    <3>1. c \in Seq(Frames) /\ c # << >>
      BY <2>1 DEF Chain
    <3>2. Len(c) \in Nat /\ Len(c) # 0 /\ DOMAIN c = 1..Len(c)
      BY <3>1, EmptySeq
    <3>3. Len(c) \in DOMAIN c /\ c[Len(c)] \in Frames
      BY <3>1, <3>2
    <3>4. QED
      BY <3>3 DEF Last, ToSet
  <2>2. /\ Last(tc) \in ToSet(tc) /\ Last(tc) \in Frames
        /\ Last(sc) \in ToSet(sc) /\ Last(sc) \in Frames
    BY <1>1, <2>1
  <2>3. World[Last(tc)] = <<1, 0>> /\ World[Last(sc)] = <<1, 0>>
    BY <1>4, <2>2, RelabelAssumption DEF Frames
  <2>4. QED
    BY <1>4, <2>2, <2>3 DEF tc, sc
<1>5. QED
  BY <1>2, <1>3, <1>4

\* What is read back through the forest is where a frame really is.
LEMMA ResolvedTruly ==
  ASSUME ForestInv, NEW t \in Frames, NEW f \in Frames, Meeting(t, f) # << >>
  PROVE  ResolveFrames(t, f) = Mul(Inv(World[t]), World[f])
<1> DEFINE met == Meeting(t, f)
<1>1. /\ met[1] \in ToSet(ChainToRoot(t)) /\ met[2] \in ToSet(ChainToRoot(f))
      /\ World[met[1]] = World[met[2]]
  BY MeetingSound
<1>2. ResolveFrames(t, f) = Mul(Inv(TransformUpTo(t, met[1])), TransformUpTo(f, met[2]))
  BY Zenon DEF ResolveFrames
<1> HIDE DEF met
<1> DEFINE a == met[1]
           e == met[2]
<1>3. /\ a \in Frames /\ e \in Frames /\ World[a] = World[e]
      /\ TransformUpTo(t, a) = Mul(Inv(World[a]), World[t])
      /\ TransformUpTo(f, e) = Mul(Inv(World[e]), World[f])
  BY <1>1, TransformsCompose
<1> HIDE DEF a, e
<1>4. ResolveFrames(t, f) = Mul(Inv(Mul(Inv(World[a]), World[t])), Mul(Inv(World[a]), World[f]))
  BY <1>2, <1>3 DEF a, e
<1>5. Inv(Mul(Inv(World[a]), World[t])) = Mul(Inv(World[t]), World[a])
  BY <1>3, WorldRigid, InvOfMul
<1>6. Mul(Mul(Inv(World[t]), World[a]), Mul(Inv(World[a]), World[f])) = Mul(Inv(World[t]), World[f])
  BY <1>3, WorldRigid, MulThrough
<1>7. QED
  BY <1>4, <1>5, <1>6


\* The forest is empty at first.
LEMMA ForestStarts == RelabelInit => ForestInv
<1> SUFFICES ASSUME RelabelInit
             PROVE  ForestInv
  OBVIOUS
<1>1. DOMAIN edges = {}
  BY DEF RelabelInit
<1>2. IsFiniteSet({})
  BY FS_EmptySet
<1>3. QED
  BY <1>1, <1>2 DEF ForestInv

\* A transform that is read is where its child really is.
LEMMA ForestStep ==
  ASSUME ForestInv, [RelabelNext]_relabelVars
  PROVE  ForestInv'
<1>1. CASE UNCHANGED edges
  BY <1>1 DEF ForestInv
<1>2. ASSUME NEW l \in TfLinks \cup ScoringLinks, ReadTransform(l)
      PROVE  ForestInv'
  <2> DEFINE p == l[1]
             c == l[2]
  <2>1. p \in Frames /\ c \in Frames
    BY RelabelAssumption DEF Frames
  <2> HIDE DEF p, c
  <2>2. edges' = [d \in DOMAIN edges \cup {c} |->
                    IF d # c THEN edges[d]
                    ELSE [parent |-> p, motion |-> Mul(Inv(World[p]), World[c])]]
    BY <1>2 DEF ReadTransform, AddTransform, p, c
  <2>3. IsFiniteSet(DOMAIN edges \cup {c})
    BY FS_AddElement DEF ForestInv
  <2>4. QED
    BY <2>1, <2>2, <2>3 DEF ForestInv
<1>3. CASE ReadPortTarget
  <2>1. DOMAIN edges' = {}
    BY <1>3 DEF ReadPortTarget
  <2>2. IsFiniteSet({})
    BY FS_EmptySet
  <2>3. QED
    BY <2>1, <2>2 DEF ForestInv
<1>4. ASSUME NEW s \in BOOLEAN, NEW dt \in Strides, Capture(s, dt)
      PROVE  ForestInv'
  BY <1>1, <1>4 DEF Capture, tfVars
<1>5. CASE RelabelBag
  BY <1>1, <1>5 DEF RelabelBag, tfVars
<1>6. CASE UNCHANGED relabelVars
  BY <1>1, <1>6 DEF relabelVars, tfVars
<1>7. QED
  BY <1>2, <1>3, <1>4, <1>5, <1>6 DEF RelabelNext

\* A port is picked only among entrances that leave no choice.
LEMMA EntranceIsClear ==
  ASSUME ForestInv, NEW f \in EntranceFrames
  PROVE  /\ f \in FrameIds
         /\ IF portFrame # "" THEN f = portFrame
            ELSE \A e \in FrameIds \cap Entrances : e # f => e \notin scoped
<1> DEFINE known == FrameIds \cap Entrances
           named == known \cap scoped
<1>1. IsFiniteSet(known) /\ IsFiniteSet(named)
  <2>1. IsFiniteSet(FrameIds)
    BY FramesFinite
  <2>2. QED
    BY <2>1, FS_Subset
<1>2. CASE portFrame # ""
  BY <1>2 DEF EntranceFrames
<1>3. CASE portFrame = "" /\ Cardinality(known) > 1 /\ Cardinality(named) = 1
  <2>1. f \in named
    BY <1>3 DEF EntranceFrames
  <2>2. PICK x : named = {x}
    BY <1>1, <1>3, FS_Singleton
  <2>3. QED
    BY <1>3, <2>1, <2>2
<1>4. CASE portFrame = "" /\ ~(Cardinality(known) > 1 /\ Cardinality(named) = 1)
  <2>1. f \in known /\ Cardinality(known) = 1
    BY <1>4 DEF EntranceFrames
  <2>2. PICK x : known = {x}
    BY <1>1, <2>1, FS_Singleton
  <2>3. QED
    BY <1>4, <2>1, <2>2
<1>5. QED
  BY <1>2, <1>3, <1>4

\* Of any world, any links between its frames and any order they are read in:
\* the port label is where the port really is, and the entrance is the one that
\* was named or that the scoring topic singles out.
THEOREM PortLabelIsTrue == RelabelSpec => PortIsTrue
<1>1. ASSUME ForestInv, [RelabelNext]_relabelVars, port' # port
      PROVE  /\ port'.at = Mul(Inv(World[BaseFrame]), World[port'.frame])[2]
             /\ IF portFrame # "" THEN port'.frame = portFrame
                ELSE \A f \in FrameIds \cap Entrances : f # port'.frame => f \notin scoped
  <2>1. ReadPortTarget
    BY <1>1 DEF RelabelNext, ReadTransform, Capture, RelabelBag, relabelVars, tfVars
  <2>2. PICK f \in EntranceFrames :
          /\ Resolvable(BaseFrame, f)
          /\ port' = [frame |-> f, at |-> ResolveFrames(BaseFrame, f)[2]]
    BY <1>1, <2>1 DEF ReadPortTarget
  <2>3. BaseFrame \in Frames /\ f \in Frames /\ Meeting(BaseFrame, f) # << >>
    BY <1>1, <2>2, EntranceIsClear, FramesFinite DEF Resolvable
  <2>4. ResolveFrames(BaseFrame, f) = Mul(Inv(World[BaseFrame]), World[f])
    BY <1>1, <2>3, ResolvedTruly
  <2>5. port'.frame = f /\ port'.at = Mul(Inv(World[BaseFrame]), World[f])[2]
    BY <2>2, <2>4
  <2>6. QED
    BY <1>1, <2>5, EntranceIsClear
<1>2. QED
  BY <1>1, ForestStarts, ForestStep, PTL DEF RelabelSpec, PortIsTrue

-----------------------------------------------------------------------------
(* Successive halving *)

\* The trials with a score at rung r, and those of them no worse than t there.
ScoredAt(h, r) == {t \in 1..Trials : Len(h[t]) >= r}
AheadAt(h, t, r) == {u \in ScoredAt(h, r) \ {t} : h[u][r] <= h[t][r]}

\* A live trial has a score for every rung it took its turn in, a stopped one
\* for fewer, and each was trained for the budget of its last rung.
RungInv ==
  /\ phase \in {"rung", "baseline", "reported"} /\ rung \in 1..Len(RungBudgets)
  /\ alive \in SUBSET (1..Trials) /\ alive # {} /\ turn \in SUBSET alive
  /\ trained \in [1..Trials -> Int] /\ history \in [1..Trials -> Seq(Nat)]
  /\ phase # "rung" => rung = Len(RungBudgets)
  /\ \A t \in alive :
       Len(history[t]) = IF phase = "rung" /\ t \notin turn THEN rung - 1 ELSE rung
  /\ \A t \in (1..Trials) \ alive : Len(history[t]) \in 1..(rung - 1)
  /\ \A t \in 1..Trials :
       trained[t] = IF Len(history[t]) = 0 THEN 0 ELSE RungBudgets[Len(history[t])]

\* A stopped trial had enough others ahead of it, all that went on among them.
StoppedInv ==
  \A t \in (1..Trials) \ alive :
    LET r == Len(history[t]) IN
    /\ Eta * Cardinality(AheadAt(history, t, r)) >= Cardinality(ScoredAt(history, r))
    /\ ScoredAt(history, r + 1) \subseteq AheadAt(history, t, r)
    /\ rung = r + 1 => alive \subseteq AheadAt(history, t, r)

\* BEST has the least last score of all.
LeaderInv ==
  phase = "reported" =>
    /\ leader \in 1..Trials
    /\ \A t \in 1..Trials :
         history[leader][Len(history[leader])] <= history[t][Len(history[t])]

SweepInv == RungInv /\ StoppedInv /\ LeaderInv

\* There is a rung, every budget is a number and the last one is MaxEpochs.
LEMMA Budgets ==
  /\ RungBudgets \in Seq(Int) /\ Len(RungBudgets) \in Nat \ {0}
  /\ RungBudgets[Len(RungBudgets)] = MaxEpochs
<1> DEFINE small == {n \in 0..MaxEpochs : MinEpochs * Eta^n < MaxEpochs}
           c == Cardinality(small)
           b == [r \in 1..c + 1 |-> IF r <= c THEN MinEpochs * Eta^(r - 1) ELSE MaxEpochs]
<1>1. MaxEpochs \in Nat /\ MinEpochs \in Nat
  BY SweepAssumption
<1>2. IsFiniteSet(0..MaxEpochs) /\ Cardinality(0..MaxEpochs) = MaxEpochs + 1
  BY <1>1, FS_Interval
<1>3. IsFiniteSet(small) /\ c <= MaxEpochs + 1
  BY <1>2, FS_Subset
<1>4. c \in Nat
  BY <1>3, FS_CardinalityType
<1>5. b \in [1..c + 1 -> Int]
  <2>1. ASSUME NEW r \in 1..c + 1, r <= c
        PROVE  MinEpochs * Eta^(r - 1) \in Int
    <3>1. r - 1 \in 0..MaxEpochs
      BY <1>1, <1>3, <1>4, <2>1
    <3>2. Eta^(r - 1) \in Int
      BY <3>1, PowersAreNumbers
    <3>3. QED
      BY <1>1, <3>2
  <2> HIDE DEF c
  <2>2. QED
    BY <1>1, <2>1
<1> HIDE DEF c
<1>6. b \in Seq(Int) /\ Len(b) = c + 1
  <2>1. b \in Seq(Int)
    BY <1>4, <1>5, SeqDef
  <2>2. DOMAIN b = 1..Len(b) /\ Len(b) \in Nat
    BY <2>1, LenProperties
  <2>3. DOMAIN b = 1..c + 1
    OBVIOUS
  <2> HIDE DEF b
  <2>4. c + 1 \in 1..Len(b)
    <3>1. c + 1 \in 1..c + 1
      BY <1>4
    <3>2. QED
      BY <2>2, <2>3, <3>1
  <2>5. Len(b) \in 1..c + 1
    BY <2>2, <2>3, <2>4
  <2>6. Len(b) \in Nat
    BY <2>2
  <2>7. c + 1 <= Len(b)
    BY <1>4, <2>4, <2>6
  <2>8. Len(b) <= c + 1
    BY <1>4, <2>5, <2>6
  <2>9. Len(b) = c + 1
    BY <1>4, <2>6, <2>7, <2>8
  <2>10. QED
    BY <2>1, <2>9
<1>7. b[c + 1] = MaxEpochs
  BY <1>4
<1>8. RungBudgets = b
  BY DEF RungBudgets, c
<1>9. QED
  BY <1>4, <1>6, <1>7, <1>8

\* Of any two trials one is the better.
LEMMA BetterOrder ==
  ASSUME NEW ids \in SUBSET (1..Trials), NEW s \in [ids -> Nat],
         NEW x \in ids, NEW y \in ids
  PROVE  /\ x # y => Better(s, x, y) \/ Better(s, y, x)
         /\ Better(s, x, y) => x # y /\ s[x] <= s[y]
         /\ \A z \in ids : Better(s, x, y) /\ Better(s, y, z) => Better(s, x, z)
<1>1. Trials \in Nat /\ s[x] \in Nat /\ s[y] \in Nat /\ x \in Nat /\ y \in Nat
  BY SweepAssumption
<1>2. ASSUME NEW z \in ids
      PROVE  Better(s, x, y) /\ Better(s, y, z) => Better(s, x, z)
  <2>1. s[z] \in Nat /\ z \in Nat
    BY SweepAssumption
  <2>2. QED
    BY <1>1, <2>1 DEF Better
<1>3. QED
  BY <1>1, <1>2 DEF Better

\* One of them is better than all the others.
LEMMA BestTrial ==
  ASSUME NEW ids \in SUBSET (1..Trials), ids # {}, NEW s \in [ids -> Nat]
  PROVE  \E t \in ids : \A u \in ids \ {t} : Better(s, t, u)
<1> DEFINE S == {s[t] : t \in ids}
           T == {t \in ids : s[t] = Min(S)}
<1>1. S \in SUBSET Nat /\ S # {}
  OBVIOUS
<1>2. Min(S) \in S /\ \A y \in S : Min(S) <= y
  BY <1>1, LeastNumber
<1>3. T \in SUBSET Nat /\ T # {}
  <2>1. ids \subseteq Nat
    BY SweepAssumption
  <2>2. PICK t \in ids : s[t] = Min(S)
    BY <1>2
  <2>3. QED
    BY <2>1, <2>2
<1>4. Min(T) \in T /\ \A y \in T : Min(T) <= y
  BY <1>3, LeastNumber
<1>5. ASSUME NEW u \in ids, u # Min(T)
      PROVE  Better(s, Min(T), u)
  <2> DEFINE t == Min(T)
             m == Min(S)
  <2>1. t \in ids /\ s[t] = m /\ m <= s[u] /\ (s[u] = m => t <= u)
    BY <1>2, <1>4
  <2>2. t \in Nat /\ u \in Nat /\ m \in Nat /\ s[u] \in Nat
    BY <1>1, <1>2, <1>3, <1>4, SweepAssumption
  <2> HIDE DEF t, m
  <2>3. QED
    BY <1>5, <2>1, <2>2 DEF Better, t
<1>6. QED
  BY <1>4, <1>5

\* Who goes on: somebody, and nobody in front of whom there is too much of the
\* rung; whoever is stopped has all of those that go on ahead of it.
LEMMA Halving ==
  ASSUME NEW ids \in SUBSET (1..Trials), ids # {}, NEW s \in [ids -> Nat]
  PROVE  /\ Survivors(s, ids) # {} /\ Survivors(s, ids) \subseteq ids
         /\ \A t \in ids \ Survivors(s, ids) :
              LET ahead == {u \in ids \ {t} : s[u] <= s[t]} IN
              /\ Eta * Cardinality(ahead) >= Cardinality(ids)
              /\ Survivors(s, ids) \subseteq ahead
<1> DEFINE above(t) == {u \in ids : Better(s, u, t)}
           S == Survivors(s, ids)
<1>1. IsFiniteSet(ids)
  <2>1. IsFiniteSet(1..Trials)
    BY FS_Interval, SweepAssumption
  <2>2. QED
    BY <2>1, FS_Subset
<1>2. Cardinality(ids) \in Nat /\ Cardinality(ids) # 0
  BY <1>1, FS_CardinalityType, FS_EmptySet
<1>3. \A t \in ids : IsFiniteSet(above(t)) /\ Cardinality(above(t)) \in Nat
  BY <1>1, FS_Subset, FS_CardinalityType
<1>4. S = {t \in ids : Eta * Cardinality(above(t)) < Cardinality(ids)}
  BY DEF Survivors
<1>5. S # {}
  <2>1. PICK t \in ids : \A u \in ids \ {t} : Better(s, t, u)
    BY BestTrial
  <2>2. above(t) = {}
    <3> SUFFICES ASSUME NEW u \in ids, Better(s, u, t)
                 PROVE  FALSE
      OBVIOUS
    <3>1. u # t
      BY BetterOrder
    <3>2. Better(s, t, u)
      BY <2>1, <3>1
    <3>3. Better(s, t, t)
      BY <3>2, BetterOrder
    <3>4. QED
      BY <3>3, BetterOrder
  <2>3. Cardinality(above(t)) = 0
    BY <2>2, FS_EmptySet
  <2> HIDE DEF above
  <2>4. Eta * Cardinality(above(t)) < Cardinality(ids)
    BY <1>2, <2>3, SweepAssumption
  <2>5. QED
    BY <1>4, <2>4
<1>6. ASSUME NEW t \in ids \ S
      PROVE  LET ahead == {u \in ids \ {t} : s[u] <= s[t]} IN
             Eta * Cardinality(ahead) >= Cardinality(ids) /\ S \subseteq ahead
  <2> DEFINE ahead == {u \in ids \ {t} : s[u] <= s[t]}
  <2>1. above(t) \subseteq ahead
    BY BetterOrder
  <2>2. IsFiniteSet(ahead) /\ Cardinality(ahead) \in Nat
    BY <1>1, FS_Subset, FS_CardinalityType
  <2>3. Cardinality(above(t)) <= Cardinality(ahead)
    BY <2>1, <2>2, FS_Subset
  <2>4. Eta * Cardinality(above(t)) >= Cardinality(ids)
    <3>1. ~(Eta * Cardinality(above(t)) < Cardinality(ids))
      BY <1>4
    <3> HIDE DEF above
    <3>2. QED
      BY <1>2, <1>3, <3>1, SweepAssumption
  <2>5. Eta * Cardinality(ahead) >= Cardinality(ids)
    <3> DEFINE a == Cardinality(above(t))
               b == Cardinality(ahead)
    <3>1. a \in Nat /\ b \in Nat /\ a <= b /\ Eta \in Nat
      BY <1>3, <2>2, <2>3, SweepAssumption
    <3> HIDE DEF a, b
    <3>2. Eta * a <= Eta * b /\ Eta * a \in Nat /\ Eta * b \in Nat
      BY <3>1
    <3>3. Eta * a >= Cardinality(ids)
      BY <2>4 DEF a
    <3>4. Eta * b >= Cardinality(ids)
      BY <1>2, <3>2, <3>3
    <3>5. QED
      BY <3>4 DEF b
  <2>6. ASSUME NEW u \in S
        PROVE  u \in ahead
    <3>1. u \in ids /\ u # t
      BY <1>4
    <3>2. CASE Better(s, u, t)
      BY <3>1, <3>2, BetterOrder
    <3>3. CASE Better(s, t, u)
      <4>1. above(t) \subseteq above(u)
        BY <3>1, <3>3, BetterOrder
      <4>2. Cardinality(above(t)) <= Cardinality(above(u))
        BY <1>3, <3>1, <4>1, FS_Subset
      <4>3. Eta * Cardinality(above(u)) < Cardinality(ids)
        BY <1>4
      <4> DEFINE a == Cardinality(above(t))
                 b == Cardinality(above(u))
      <4>4. a \in Nat /\ b \in Nat /\ a <= b /\ Eta \in Nat
        BY <1>3, <3>1, <4>2, SweepAssumption
      <4>5. Eta * a >= Cardinality(ids) /\ Eta * b < Cardinality(ids)
        BY <2>4, <4>3
      <4> HIDE DEF a, b
      <4>6. Eta * a <= Eta * b /\ Eta * a \in Nat /\ Eta * b \in Nat
        BY <4>4
      <4>7. QED
        BY <1>2, <4>5, <4>6
    <3>4. QED
      BY <3>1, <3>2, <3>3, BetterOrder
  <2>7. QED
    BY <2>5, <2>6
<1>7. QED
  BY <1>4, <1>5, <1>6

\* Nobody has been trained.
LEMMA SweepStarts == SweepInit => SweepInv
<1> SUFFICES ASSUME SweepInit
             PROVE  SweepInv
  OBVIOUS
<1>1. Trials \in Nat /\ 1 \in 1..Trials
  BY SweepAssumption
<1>2. history \in [1..Trials -> Seq(Nat)] /\ \A t \in 1..Trials : Len(history[t]) = 0
  BY EmptySeq DEF SweepInit
<1>3. /\ phase = "rung" /\ rung = 1 /\ turn = {} /\ alive = 1..Trials
      /\ trained = [t \in 1..Trials |-> 0]
  BY DEF SweepInit
<1>4. 1 \in 1..Len(RungBudgets)
  BY Budgets
<1>5. RungInv
  <2>1. alive \in SUBSET (1..Trials) /\ alive # {} /\ turn \in SUBSET alive
    BY <1>1, <1>3
  <2>2. \A t \in alive : Len(history[t]) = IF phase = "rung" /\ t \notin turn THEN rung - 1 ELSE rung
    BY <1>2, <1>3
  <2>3. \A t \in (1..Trials) \ alive : Len(history[t]) \in 1..(rung - 1)
    BY <1>3
  <2>4. \A t \in 1..Trials :
          trained[t] = IF Len(history[t]) = 0 THEN 0 ELSE RungBudgets[Len(history[t])]
    BY <1>2, <1>3
  <2>5. trained \in [1..Trials -> Int]
    BY <1>3
  <2>6. QED
    BY <1>2, <1>3, <1>4, <2>1, <2>2, <2>3, <2>4, <2>5 DEF RungInv
<1>6. StoppedInv /\ LeaderInv
  BY <1>3 DEF StoppedInv, LeaderInv
<1>7. QED
  BY <1>5, <1>6 DEF SweepInv

\* A live trial is trained on and scored.
LEMMA TurnStep ==
  ASSUME SweepInv, NEW e \in Scores, TrainAndScore(e)
  PROVE  SweepInv'
<1> DEFINE t == Min(alive \ turn)
           was == IF rung = 1 THEN 0 ELSE RungBudgets[rung - 1]
<1>1. /\ phase = "rung" /\ turn # alive
      /\ trained' = [trained EXCEPT ![t] = @ + RungBudgets[rung] - was]
      /\ history' = [history EXCEPT ![t] = Append(@, e)]
      /\ turn' = turn \cup {t} /\ UNCHANGED <<phase, rung, alive, leader>>
  BY DEF TrainAndScore
<1>2. t \in alive \ turn
  <2>1. alive \ turn \in SUBSET Nat /\ alive \ turn # {}
    <3>1. alive \in SUBSET (1..Trials) /\ turn \in SUBSET alive
      BY DEF SweepInv, RungInv
    <3>2. 1..Trials \subseteq Nat
      BY SweepAssumption
    <3>3. QED
      BY <1>1, <3>1, <3>2
  <2>2. QED
    BY <2>1, LeastNumber
<1> HIDE DEF t
<1>3. /\ rung \in 1..Len(RungBudgets) /\ Len(RungBudgets) \in Nat /\ rung \in Nat
      /\ alive \in SUBSET (1..Trials) /\ t \in 1..Trials
      /\ trained \in [1..Trials -> Int] /\ history \in [1..Trials -> Seq(Nat)]
      /\ Len(history[t]) = rung - 1 /\ e \in Nat
  <2>1. RungInv
    BY DEF SweepInv
  <2>2. rung \in 1..Len(RungBudgets) /\ alive \in SUBSET (1..Trials)
        /\ trained \in [1..Trials -> Int] /\ history \in [1..Trials -> Seq(Nat)]
    BY <2>1 DEF RungInv
  <2>3. Len(history[t]) = rung - 1
    BY <1>1, <1>2, <2>1 DEF RungInv
  <2>4. e \in Nat
    BY SweepAssumption
  <2>5. Len(RungBudgets) \in Nat
    BY Budgets
  <2>6. QED
    BY <1>2, <2>2, <2>3, <2>4, <2>5
<1>4. /\ history' \in [1..Trials -> Seq(Nat)]
      /\ Len(history'[t]) = rung
      /\ \A u \in 1..Trials : u # t => history'[u] = history[u]
      /\ \A k \in 1..(rung - 1) : history'[t][k] = history[t][k]
  <2>1. history[t] \in Seq(Nat)
    BY <1>3
  <2>2. Append(history[t], e) \in Seq(Nat) /\ Len(Append(history[t], e)) = rung
    BY <1>3, <2>1
  <2>3. \A k \in 1..(rung - 1) : Append(history[t], e)[k] = history[t][k]
    BY <1>3, <2>1
  <2>4. QED
    BY <1>1, <1>3, <2>2, <2>3
<1>5. trained' \in [1..Trials -> Int] /\ trained'[t] = RungBudgets[rung]
      /\ \A u \in 1..Trials : u # t => trained'[u] = trained[u]
  <2>1. trained[t] = was /\ was \in Int
    BY <1>3, Budgets DEF SweepInv, RungInv
  <2>2. RungBudgets[rung] \in Int
    BY <1>3, Budgets
  <2> HIDE DEF was
  <2>3. was + RungBudgets[rung] - was = RungBudgets[rung]
    BY <2>1, <2>2
  <2>4. QED
    BY <1>1, <1>3, <2>1, <2>2, <2>3
<1> HIDE DEF was
<1>6. RungInv'
  <2>1. /\ phase' = "rung" /\ rung' \in 1..Len(RungBudgets)
        /\ alive' \in SUBSET (1..Trials) /\ alive' # {} /\ turn' \in SUBSET alive'
    BY <1>1, <1>2, <1>3 DEF SweepInv, RungInv
  <2>2. ASSUME NEW u \in alive'
        PROVE  Len(history'[u]) = IF u \notin turn' THEN rung' - 1 ELSE rung'
    BY <1>1, <1>2, <1>3, <1>4 DEF SweepInv, RungInv
  <2>3. ASSUME NEW u \in (1..Trials) \ alive'
        PROVE  Len(history'[u]) \in 1..(rung' - 1)
    BY <1>1, <1>2, <1>3, <1>4 DEF SweepInv, RungInv
  <2>4. ASSUME NEW u \in 1..Trials
        PROVE  trained'[u] = IF Len(history'[u]) = 0 THEN 0 ELSE RungBudgets[Len(history'[u])]
    BY <1>3, <1>4, <1>5 DEF SweepInv, RungInv
  <2>5. QED
    BY <1>4, <1>5, <2>1, <2>2, <2>3, <2>4 DEF RungInv
<1>7. StoppedInv'
  <2> SUFFICES ASSUME NEW x \in (1..Trials) \ alive
               PROVE  LET r == Len(history'[x]) IN
                      /\ Eta * Cardinality(AheadAt(history', x, r)) >= Cardinality(ScoredAt(history', r))
                      /\ ScoredAt(history', r + 1) \subseteq AheadAt(history', x, r)
                      /\ rung = r + 1 => alive \subseteq AheadAt(history', x, r)
    BY <1>1 DEF StoppedInv
  <2> DEFINE r == Len(history[x])
  <2>1. history'[x] = history[x] /\ r \in 1..(rung - 1) /\ x # t
    BY <1>2, <1>3, <1>4 DEF SweepInv, RungInv
  <2>2. /\ Eta * Cardinality(AheadAt(history, x, r)) >= Cardinality(ScoredAt(history, r))
        /\ ScoredAt(history, r + 1) \subseteq AheadAt(history, x, r)
        /\ rung = r + 1 => alive \subseteq AheadAt(history, x, r)
    BY DEF SweepInv, StoppedInv
  <2> HIDE DEF r
  <2>3. ScoredAt(history', r) = ScoredAt(history, r)
    <3>1. \A u \in 1..Trials : Len(history'[u]) >= r <=> Len(history[u]) >= r
      BY <1>3, <1>4, <2>1
    <3>2. QED
      BY <3>1 DEF ScoredAt
  <2>4. AheadAt(history', x, r) = AheadAt(history, x, r)
    <3>1. \A u \in 1..Trials : history'[u][r] = history[u][r]
      BY <1>3, <1>4, <2>1
    <3>2. QED
      BY <2>3, <3>1 DEF AheadAt, ScoredAt
  <2>5. ScoredAt(history', r + 1) \subseteq AheadAt(history, x, r)
    <3> SUFFICES ASSUME NEW u \in ScoredAt(history', r + 1)
                 PROVE  u \in AheadAt(history, x, r)
      OBVIOUS
    <3>1. u \in 1..Trials /\ Len(history'[u]) >= r + 1
      BY DEF ScoredAt
    <3>2. CASE u = t /\ rung = r + 1
      BY <1>2, <2>2, <3>2
    <3>3. CASE ~(u = t /\ rung = r + 1)
      <4>1. Len(history[u]) >= r + 1
        BY <1>3, <1>4, <2>1, <3>1, <3>3
      <4>2. u \in ScoredAt(history, r + 1)
        BY <3>1, <4>1 DEF ScoredAt
      <4>3. QED
        BY <2>2, <4>2
    <3>4. QED
      BY <3>2, <3>3
  <2>6. QED
    BY <2>1, <2>2, <2>3, <2>4, <2>5 DEF r
<1>8. LeaderInv'
  BY <1>1 DEF LeaderInv
<1>9. QED
  BY <1>6, <1>7, <1>8 DEF SweepInv

\* The worse ones are stopped.
LEMMA RungStep ==
  ASSUME SweepInv, EndRung
  PROVE  SweepInv'
<1>1. /\ phase = "rung" /\ turn = alive /\ turn' = {} /\ UNCHANGED <<trained, history, leader>>
  BY DEF EndRung
<1>2. /\ rung \in 1..Len(RungBudgets) /\ Len(RungBudgets) \in Nat /\ rung \in Nat
      /\ alive \in SUBSET (1..Trials) /\ alive # {}
      /\ history \in [1..Trials -> Seq(Nat)]
      /\ \A t \in alive : Len(history[t]) = rung
      /\ \A t \in (1..Trials) \ alive : Len(history[t]) \in 1..(rung - 1)
  BY <1>1, Budgets DEF SweepInv, RungInv
<1>3. CASE rung < Len(RungBudgets)
  <2> DEFINE s == LastScores(alive)
  <2>1. alive' = Survivors(s, alive) /\ rung' = rung + 1 /\ phase' = "rung"
    BY <1>3 DEF EndRung
  <2>2. s \in [alive -> Nat] /\ \A t \in alive : s[t] = history[t][rung]
    BY <1>2 DEF LastScores
  <2> HIDE DEF s
  <2>3. /\ alive' # {} /\ alive' \subseteq alive
        /\ \A t \in alive \ alive' :
             LET ahead == {u \in alive \ {t} : s[u] <= s[t]} IN
             Eta * Cardinality(ahead) >= Cardinality(alive) /\ alive' \subseteq ahead
    BY <1>2, <2>1, <2>2, Halving
  <2>4. ScoredAt(history, rung) = alive /\ ScoredAt(history, rung + 1) = {}
    <3>1. \A t \in 1..Trials : Len(history[t]) >= rung <=> t \in alive
      BY <1>2
    <3>2. \A t \in 1..Trials : ~(Len(history[t]) >= rung + 1)
      BY <1>2
    <3>3. ScoredAt(history, rung) = alive
      BY <1>2, <3>1 DEF ScoredAt
    <3>4. ScoredAt(history, rung + 1) = {}
      BY <3>2 DEF ScoredAt
    <3>5. QED
      BY <3>3, <3>4
  <2>5. RungInv'
    <3>1. /\ phase' = "rung" /\ rung' \in 1..Len(RungBudgets)
          /\ alive' \in SUBSET (1..Trials) /\ alive' # {} /\ turn' \in SUBSET alive'
      <4>1. rung' \in 1..Len(RungBudgets)
        BY <1>2, <1>3, <2>1
      <4>2. alive' \in SUBSET (1..Trials) /\ turn' \in SUBSET alive'
        BY <1>1, <1>2, <2>3
      <4>3. QED
        BY <2>1, <2>3, <4>1, <4>2
    <3>2. ASSUME NEW t \in alive'
          PROVE  Len(history'[t]) = rung' - 1 /\ t \notin turn'
      BY <1>1, <1>2, <2>1, <2>3
    <3>3. ASSUME NEW t \in (1..Trials) \ alive'
          PROVE  Len(history'[t]) \in 1..(rung' - 1)
      BY <1>1, <1>2, <2>1
    <3>4. QED
      BY <1>1, <3>1, <3>2, <3>3 DEF SweepInv, RungInv
  <2>6. StoppedInv'
    <3> SUFFICES ASSUME NEW t \in (1..Trials) \ alive'
                 PROVE  LET r == Len(history[t]) IN
                        /\ Eta * Cardinality(AheadAt(history, t, r)) >= Cardinality(ScoredAt(history, r))
                        /\ ScoredAt(history, r + 1) \subseteq AheadAt(history, t, r)
                        /\ rung' = r + 1 => alive' \subseteq AheadAt(history, t, r)
      BY <1>1 DEF StoppedInv
    <3>1. CASE t \in alive
      <4>1. Len(history[t]) = rung
        BY <1>2, <3>1
      <4>2. AheadAt(history, t, rung) = {u \in alive \ {t} : s[u] <= s[t]}
        BY <2>2, <2>4, <3>1 DEF AheadAt
      <4>3. QED
        BY <2>3, <2>4, <3>1, <4>1, <4>2
    <3>2. CASE t \notin alive
      <4>1. rung' # Len(history[t]) + 1
        BY <1>2, <2>1, <3>2
      <4>2. QED
        BY <3>2, <4>1 DEF SweepInv, StoppedInv
    <3>3. QED
      BY <3>1, <3>2
  <2>7. LeaderInv'
    BY <2>1 DEF LeaderInv
  <2>8. QED
    BY <2>5, <2>6, <2>7 DEF SweepInv
<1>4. CASE ~(rung < Len(RungBudgets))
  <2>1. phase' = "baseline" /\ UNCHANGED <<alive, rung>> /\ rung = Len(RungBudgets)
    BY <1>2, <1>4 DEF EndRung
  <2>2. RungInv'
    BY <1>1, <1>2, <2>1 DEF SweepInv, RungInv
  <2>3. StoppedInv'
    BY <1>1, <2>1 DEF SweepInv, StoppedInv
  <2>4. LeaderInv'
    BY <2>1 DEF LeaderInv
  <2>5. QED
    BY <2>2, <2>3, <2>4 DEF SweepInv
<1>5. QED
  BY <1>3, <1>4

\* The best of all is reported.
LEMMA ReportStep ==
  ASSUME SweepInv, Report
  PROVE  SweepInv'
<1> DEFINE last == LastScores(1..Trials)
<1>1. /\ phase = "baseline" /\ phase' = "reported"
      /\ leader' = CHOOSE t \in 1..Trials : \A u \in 1..Trials \ {t} : Better(last, t, u)
      /\ UNCHANGED <<rung, turn, alive, trained, history>>
  BY DEF Report
<1>2. /\ history \in [1..Trials -> Seq(Nat)] /\ rung \in Nat \ {0} /\ 1 \in 1..Trials
      /\ \A t \in 1..Trials : Len(history[t]) >= 1
  <2>1. rung \in Nat \ {0}
    BY Budgets DEF SweepInv, RungInv
  <2>2. QED
    BY <1>1, <2>1, SweepAssumption DEF SweepInv, RungInv
<1>3. last \in [1..Trials -> Nat] /\ \A t \in 1..Trials : last[t] = history[t][Len(history[t])]
  BY <1>2 DEF LastScores
<1> HIDE DEF last
<1>4. \E t \in 1..Trials : \A u \in 1..Trials \ {t} : Better(last, t, u)
  BY <1>2, <1>3, BestTrial
<1>5. leader' \in 1..Trials /\ \A u \in 1..Trials \ {leader'} : Better(last, leader', u)
  BY <1>1, <1>4
<1>6. \A u \in 1..Trials : last[leader'] <= last[u]
  <2> SUFFICES ASSUME NEW u \in 1..Trials
               PROVE  last[leader'] <= last[u]
    OBVIOUS
  <2>1. CASE u = leader'
    BY <1>3, <2>1
  <2>2. CASE u # leader'
    <3>1. Better(last, leader', u)
      BY <1>5, <2>2
    <3>2. QED
      BY <1>3, <1>5, <3>1, BetterOrder
  <2>3. QED
    BY <2>1, <2>2
<1>7. LeaderInv'
  BY <1>1, <1>3, <1>5, <1>6 DEF LeaderInv
<1>8. RungInv'
  BY <1>1 DEF SweepInv, RungInv
<1>9. StoppedInv'
  BY <1>1 DEF SweepInv, StoppedInv
<1>10. QED
  BY <1>7, <1>8, <1>9 DEF SweepInv

\* Every step keeps the invariant.
LEMMA SweepStep ==
  ASSUME SweepInv, [SweepNext]_sweepVars
  PROVE  SweepInv'
<1>1. CASE UNCHANGED sweepVars
  <2>1. UNCHANGED <<phase, rung, turn, alive, trained, history, leader>>
    BY <1>1 DEF sweepVars
  <2>2. RungInv'
    BY <2>1 DEF SweepInv, RungInv
  <2>3. StoppedInv'
    BY <2>1 DEF SweepInv, StoppedInv
  <2>4. LeaderInv'
    BY <2>1 DEF SweepInv, LeaderInv
  <2>5. QED
    BY <2>2, <2>3, <2>4 DEF SweepInv
<1>2. QED
  BY <1>1, TurnStep, RungStep, ReportStep DEF SweepNext

\* However many configurations are sampled and whatever they score, the sweep
\* stops a trial for a reason and reports one that nothing beats.
THEOREM SweepIsFair == SweepSpec => []HalvingIsFair
<1>1. SweepInv => HalvingIsFair
  <2> SUFFICES ASSUME SweepInv
               PROVE  HalvingIsFair
    OBVIOUS
  <2>1. RungInv /\ StoppedInv /\ LeaderInv
    BY DEF SweepInv
  <2>2. ASSUME NEW t \in 1..Trials, history[t] # <<>>
        PROVE  trained[t] = RungBudgets[Len(history[t])]
    <3>1. history[t] \in Seq(Nat)
      BY <2>1 DEF RungInv
    <3>2. Len(history[t]) # 0
      BY <2>2, <3>1, EmptySeq
    <3>3. QED
      BY <2>1, <3>2 DEF RungInv
  <2>3. alive # {} /\ alive \subseteq 1..Trials
    BY <2>1 DEF RungInv
  <2>4. ASSUME NEW t \in 1..Trials \ alive
        PROVE  LET r == Len(history[t]) IN
               /\ Eta * Cardinality(AheadAt(history, t, r)) >= Cardinality(ScoredAt(history, r))
               /\ \A u \in ScoredAt(history, r + 1) \cup (IF rung = r + 1 THEN alive ELSE {}) :
                    u \in AheadAt(history, t, r)
    BY <2>1 DEF StoppedInv
  <2>5. ASSUME phase # "rung", NEW t \in alive
        PROVE  trained[t] = MaxEpochs
    <3>1. Len(history[t]) = Len(RungBudgets) /\ t \in 1..Trials
      BY <2>1, <2>5 DEF RungInv
    <3>2. QED
      BY <2>1, <3>1, Budgets DEF RungInv
  <2>6. ASSUME phase = "reported", NEW t \in alive
        PROVE  history[leader][Len(history[leader])] <= history[t][Len(history[t])]
    BY <2>1, <2>3, <2>6 DEF LeaderInv
  <2>7. QED
    BY <2>2, <2>3, <2>4, <2>5, <2>6 DEF HalvingIsFair, AheadAt, ScoredAt
<1>2. QED
  BY <1>1, SweepStarts, SweepStep, PTL DEF SweepSpec

-----------------------------------------------------------------------------
(* Scenes and suites *)

Verdicts == {"A beats B", "B beats A", "inconclusive"}
Judged == {"A", "B"}

\* What can stand in a suite, and in the copy of it with the short limit.
SuiteConfigs == {Members[k] : k \in DOMAIN Members}
FastConfigs == {SetTaskTimeLimits(m) : m \in SuiteConfigs}
ManifestRows == {[id |-> m.id, cell |-> m.cell] : m \in SuiteConfigs}
Results == UNION {{ScoreMember(r, g) : g \in Parsed} : r \in ManifestRows}

Sound(m) == Solvable(m.scene) /\ RowTells(m)

\* Strata that are due have fewer configs than they are to get, and no other
\* stratum is more than one ahead of them; a seed is used for each config.
DrawInv ==
  /\ overrides \in Overrides /\ copies \in [1..12 -> Nat]
  /\ drawn = [scene |-> drawn.scene, index |-> drawn.index]
  /\ Solvable(drawn.scene)
  /\ \A k \in 1..12 : copies[k] <= Reps(k)
  /\ \A j, k \in 1..12 : copies[k] < Reps(k) => copies[j] <= copies[k] + 1
  /\ drawn.index \in Int /\ drawn.index + 1 = Total(copies)

\* A directory holds a prefix of its suite, all of it when it has a manifest.
DirInv ==
  /\ suiteDir = [configs |-> suiteDir.configs, manifest |-> suiteDir.manifest]
  /\ suiteDir.configs \in Seq(SuiteConfigs) /\ Len(suiteDir.configs) <= Len(Members)
  /\ \A k \in 1..Len(suiteDir.configs) : suiteDir.configs[k] = Members[k]
  /\ suiteDir.manifest # <<>> =>
       suiteDir.manifest = Rows(Members) /\ Len(suiteDir.configs) = Len(Members)

FastInv ==
  /\ fastDir = [configs |-> fastDir.configs, manifest |-> fastDir.manifest]
  /\ fastDir.configs \in Seq(FastConfigs) /\ Len(fastDir.configs) <= Len(suiteDir.configs)
  /\ \A k \in 1..Len(fastDir.configs) : fastDir.configs[k] = SetTaskTimeLimits(Members[k])
  /\ fastDir.manifest # <<>> =>
       fastDir.manifest = Rows(Members) /\ Len(fastDir.configs) = Len(Members)

\* The rows of a run are those of a prefix of a whole directory.
RunInv ==
  /\ runs = [r \in Judged |-> runs[r]]
  /\ \A r \in Judged :
       /\ runs[r].rows \in Seq(Results) /\ Len(runs[r].rows) <= Len(Members)
       /\ \A k \in 1..Len(runs[r].rows) : runs[r].rows[k].id = Members[k].id
       /\ runs[r].rows # <<>> => (IF runs[r].fast THEN fastDir ELSE suiteDir).manifest # <<>>

\* What comes after what.
DeskInv ==
  /\ desk \in {"draw", "suite"} => suiteDir.manifest = <<>> /\ fastDir = NoDir
  /\ desk = "fast" => fastDir.manifest = <<>>
  /\ desk \in {"draw", "suite", "fast"} => \A r \in Judged : runs[r].rows = <<>>
  /\ desk # "over" => comparison \notin Verdicts
  /\ PairedFairly

SuiteInv == DrawInv /\ DirInv /\ FastInv /\ RunInv /\ DeskInv

\* The cells of a suite, and the scene that is built for one.
LEMMA CellsSound ==
  ASSUME NEW k \in 1..20
  PROVE  /\ AllCells[k].rail \in 0..4 /\ AllCells[k].plug \in {"SFP", "SC"}
         /\ AllCells[k].port \in {0, 1}
         /\ AllCells[k] = [rail |-> AllCells[k].rail, plug |-> AllCells[k].plug,
                           port |-> AllCells[k].port]
<1>1. AllCells[k] = [rail |-> (k - 1) \div 4,
                     plug |-> IF ((k - 1) \div 2) % 2 = 0 THEN "SFP" ELSE "SC",
                     port |-> (k - 1) % 2]
  BY DEF AllCells
<1>2. (k - 1) \div 4 \in 0..4 /\ (k - 1) % 2 \in {0, 1}
  OBVIOUS
<1>3. QED
  BY <1>1, <1>2

LEMMA BuiltSound ==
  ASSUME NEW rail, NEW p \in {0, 1}, NEW plug \in {"SFP", "SC"}, NEW id,
         NEW cell, cell = [rail |-> rail, plug |-> plug, port |-> p]
  PROVE  Sound(Member(id, cell, BuildConfig(cell))) /\ BuildConfig(cell).limit = OfficialLimit
<1>1. CASE plug = "SFP"
  <2> DEFINE board == {Nic(rail)} \cup {m \in Template[1].board : m[1] = "sc"}
  <2>1. BuildConfig(cell) = Scene("sfp", board, Nic(rail), SfpPort(p))
    BY <1>1 DEF BuildConfig, ApplySfpTarget
  <2>2. Nic(rail) \in board
    OBVIOUS
  <2> HIDE DEF board
  <2>3. QED
    BY <1>1, <2>1, <2>2 DEF Sound, Solvable, RowTells, Member, Scene, SfpPort, Nic,
                            InferOfficialStratum
<1>2. CASE plug = "SC"
  <2> DEFINE board == Template[3].board
  <2>1. BuildConfig(cell) = Scene("sc", board, Sc(p), "sc_port_base")
    BY <1>2 DEF BuildConfig, ApplyScTarget
  <2>2. Sc(p) \in board
    BY DEF Template, Scene
  <2> HIDE DEF board
  <2>3. QED
    BY <1>2, <2>1, <2>2 DEF Sound, Solvable, RowTells, Member, Scene, Sc
<1>3. QED
  BY <1>1, <1>2

LEMMA OfficialSound ==
  ASSUME NEW k \in 1..3
  PROVE  /\ Sound(Member(<<"official", k>>, InferOfficialStratum(Template[k]), Template[k]))
         /\ Template[k].limit = OfficialLimit /\ Solvable(Template[k])
<1>1. CASE k = 1
  BY <1>1 DEF Template, Sound, Solvable, RowTells, Member, Scene, Nic, Sc, InferOfficialStratum
<1>2. CASE k = 2
  BY <1>2 DEF Template, Sound, Solvable, RowTells, Member, Scene, Nic, Sc, InferOfficialStratum
<1>3. CASE k = 3
  BY <1>3 DEF Template, Sound, Solvable, RowTells, Member, Scene, Nic, Sc, InferOfficialStratum
<1>4. QED
  BY <1>1, <1>2, <1>3

\* A suite: as many configs as asked for and the three official ones, each of
\* them a trial that can be won under the official limit, told apart by ids.
LEMMA MembersSound ==
  /\ Members \in Seq(SuiteConfigs) /\ Len(Members) = Stratified + 3 /\ Stratified \in Nat
  /\ \A k \in 1..Len(Members) :
       /\ Sound(Members[k]) /\ Members[k].scene.limit = OfficialLimit
       /\ Members[k] = Member(Members[k].id, Members[k].cell, Members[k].scene)
  /\ \A j, k \in 1..Len(Members) : Members[j].id = Members[k].id => j = k
<1> DEFINE cellOf(k) == AllCells[((k - 1) % 20) + 1]
           built(k) == Member(<<"cfg", k>>, cellOf(k), BuildConfig(cellOf(k)))
           given(k) == Member(<<"official", k>>, InferOfficialStratum(Template[k]), Template[k])
           n == Stratified
           first == [k \in 1..n |-> built(k)]
           last == [k \in 1..3 |-> given(k)]
           M == {built(k) : k \in 1..n} \cup {given(k) : k \in 1..3}
<1>1. n \in Nat
  BY SuiteAssumption
<1>2. Members = first \o last
  <2>1. \A k \in 1..n : AssignStrata(n)[k] = cellOf(k)
    BY DEF AssignStrata
  <2> HIDE DEF cellOf
  <2>2. QED
    BY <2>1 DEF Members
<1>3. \A k \in 1..n : Sound(built(k)) /\ built(k).scene.limit = OfficialLimit
                      /\ built(k) = Member(built(k).id, built(k).cell, built(k).scene)
                      /\ built(k).id = <<"cfg", k>>
  <2> SUFFICES ASSUME NEW k \in 1..n
               PROVE  Sound(built(k)) /\ built(k).scene.limit = OfficialLimit
                      /\ built(k) = Member(built(k).id, built(k).cell, built(k).scene)
                      /\ built(k).id = <<"cfg", k>>
    OBVIOUS
  <2>1. ((k - 1) % 20) + 1 \in 1..20
    BY <1>1
  <2> DEFINE c == cellOf(k)
  <2>2. c.plug \in {"SFP", "SC"} /\ c.port \in {0, 1}
        /\ c = [rail |-> c.rail, plug |-> c.plug, port |-> c.port]
    BY <2>1, CellsSound
  <2> HIDE DEF c
  <2>3. Sound(Member(<<"cfg", k>>, c, BuildConfig(c))) /\ BuildConfig(c).limit = OfficialLimit
    BY <2>2, BuiltSound
  <2>4. QED
    BY <2>3 DEF c, Member
<1>4. \A k \in 1..3 : Sound(given(k)) /\ given(k).scene.limit = OfficialLimit
                      /\ given(k) = Member(given(k).id, given(k).cell, given(k).scene)
                      /\ given(k).id = <<"official", k>>
  BY OfficialSound DEF Member
<1> HIDE DEF built, given
<1>5. first \in Seq(M) /\ Len(first) = n
  <2>1. first \in [1..n -> M]
    OBVIOUS
  <2>2. first \in Seq(M)
    BY <1>1, <2>1, SeqDef
  <2>3. QED
    BY <1>1, <2>2
<1>6. last \in Seq(M) /\ Len(last) = 3
  <2>1. last \in [1..3 -> M]
    OBVIOUS
  <2>2. last \in Seq(M)
    BY <2>1, SeqDef
  <2>3. QED
    BY <2>2
<1>7. \A k \in 1..n : first[k] = built(k)
  OBVIOUS
<1>8. \A k \in 1..3 : last[k] = given(k)
  OBVIOUS
<1> HIDE DEF first, last
<1>9. /\ Members \in Seq(M) /\ Len(Members) = n + 3
      /\ \A k \in 1..(n + 3) : Members[k] = IF k <= n THEN first[k] ELSE last[k - n]
  <2> HIDE DEF M
  <2>1. /\ first \o last \in Seq(M)
        /\ Len(first \o last) = Len(first) + Len(last)
        /\ \A k \in 1..Len(first) + Len(last) :
             (first \o last)[k] = IF k <= Len(first) THEN first[k] ELSE last[k - Len(first)]
    BY <1>5, <1>6, ConcatProperties
  <2>2. QED
    BY <1>2, <1>5, <1>6, <2>1
<1> HIDE DEF M
<1>10. \A k \in 1..(n + 3) : Members[k] = IF k <= n THEN built(k) ELSE given(k - n)
  <2> SUFFICES ASSUME NEW k \in 1..(n + 3)
               PROVE  Members[k] = IF k <= n THEN built(k) ELSE given(k - n)
    OBVIOUS
  <2>1. k <= n => k \in 1..n
    BY <1>1
  <2>2. ~(k <= n) => k - n \in 1..3
    BY <1>1
  <2>3. QED
    BY <1>7, <1>8, <1>9, <2>1, <2>2
<1>11. ASSUME NEW k \in 1..(n + 3)
       PROVE  /\ Sound(Members[k]) /\ Members[k].scene.limit = OfficialLimit
              /\ Members[k] = Member(Members[k].id, Members[k].cell, Members[k].scene)
              /\ k <= n => Members[k].id = <<"cfg", k>>
              /\ ~(k <= n) => Members[k].id = <<"official", k - n>>
  <2>1. k <= n => k \in 1..n
    BY <1>1
  <2>2. ~(k <= n) => k - n \in 1..3
    BY <1>1
  <2>3. CASE k <= n
    BY <1>3, <1>10, <2>1, <2>3
  <2>4. CASE ~(k <= n)
    BY <1>4, <1>10, <2>2, <2>4
  <2>5. QED
    BY <2>3, <2>4
<1>12. ASSUME NEW j \in 1..(n + 3), NEW k \in 1..(n + 3), Members[j].id = Members[k].id
       PROVE  j = k
  <2>1. j \in Nat /\ k \in Nat
    BY <1>1
  <2>2. <<"cfg", j>>[1] # <<"official", k - n>>[1] /\ <<"cfg", k>>[1] # <<"official", j - n>>[1]
    OBVIOUS
  <2>3. CASE j <= n /\ k <= n
    <3>1. <<"cfg", j>> = <<"cfg", k>>
      BY <1>11, <1>12, <2>3
    <3>2. QED
      BY <3>1
  <2>4. CASE ~(j <= n) /\ ~(k <= n)
    <3>1. <<"official", j - n>> = <<"official", k - n>>
      BY <1>11, <1>12, <2>4
    <3>2. <<"official", j - n>>[2] = <<"official", k - n>>[2]
      BY <3>1
    <3>3. j - n = k - n
      BY <3>2
    <3>4. QED
      BY <1>1, <2>1, <3>3
  <2>5. CASE j <= n /\ ~(k <= n)
    <3>1. <<"cfg", j>> = <<"official", k - n>>
      BY <1>11, <1>12, <2>5
    <3>2. QED
      BY <2>2, <3>1
  <2>6. CASE ~(j <= n) /\ k <= n
    <3>1. <<"cfg", k>> = <<"official", j - n>>
      BY <1>11, <1>12, <2>6
    <3>2. QED
      BY <2>2, <3>1
  <2>7. QED
    BY <2>3, <2>4, <2>5, <2>6
<1>13. Members \in Seq(SuiteConfigs)
  <2>1. Members \in [1..(n + 3) -> SuiteConfigs]
    BY <1>9 DEF SuiteConfigs
  <2>2. n + 3 \in Nat
    BY <1>1
  <2>3. QED
    BY <2>1, <2>2, SeqDef
<1>14. QED
  BY <1>1, <1>9, <1>11, <1>12, <1>13

\* Finitely many numbers have a least and a greatest one.
LEMMA LeastValue ==
  \A n \in Nat \ {0} : \A f \in [1..n -> Int] : \E k \in 1..n : \A j \in 1..n : f[k] <= f[j]
<1> DEFINE P(n) == \A f \in [1..n -> Int] : \E k \in 1..n : \A j \in 1..n : f[k] <= f[j]
           S == {n \in Nat \ {0} : ~P(n)}
<1> SUFFICES ASSUME S # {}
             PROVE  FALSE
  OBVIOUS
<1>1. Min(S) \in S /\ \A n \in S : Min(S) <= n
  BY LeastNumber
<1>2. PICK n \in S : \A k \in S : n <= k
  BY <1>1
<1>3. PICK f \in [1..n -> Int] : ~\E k \in 1..n : \A j \in 1..n : f[k] <= f[j]
  BY <1>2
<1>4. n \in Nat \ {0} /\ n # 1
  <2>1. n = 1 => \A j \in 1..n : f[1] <= f[j]
    OBVIOUS
  <2>2. n = 1 => 1 \in 1..n
    OBVIOUS
  <2>3. QED
    BY <1>2, <1>3, <2>1, <2>2
<1>5. n - 1 \in Nat \ {0}
  BY <1>4
<1>6. P(n - 1)
  <2>1. n - 1 \notin S
    <3> HIDE DEF S
    <3>1. n - 1 \in S => n <= n - 1
      BY <1>2
    <3>2. QED
      BY <1>4, <3>1
  <2>2. QED
    BY <1>5, <2>1
<1> DEFINE g == [k \in 1..(n - 1) |-> f[k]]
<1>7. g \in [1..(n - 1) -> Int]
  BY <1>4
<1>8. PICK k \in 1..(n - 1) : \A j \in 1..(n - 1) : g[k] <= g[j]
  BY <1>6, <1>7
<1>9. \A j \in 1..(n - 1) : f[k] <= f[j]
  BY <1>8
<1>10. k \in 1..n /\ n \in 1..n /\ f[k] \in Int /\ f[n] \in Int
  BY <1>4
<1>11. \A j \in 1..n : j \in 1..(n - 1) \/ j = n
  BY <1>4
<1>12. CASE f[k] <= f[n]
  BY <1>3, <1>9, <1>10, <1>11, <1>12
<1>13. CASE f[n] <= f[k]
  <2>1. ASSUME NEW j \in 1..n
        PROVE  f[n] <= f[j]
    <3>1. f[j] \in Int
      OBVIOUS
    <3>2. j \in 1..(n - 1) => f[k] <= f[j]
      BY <1>9
    <3>3. CASE j = n
      BY <1>10, <3>3
    <3>4. CASE j \in 1..(n - 1)
      BY <1>10, <1>13, <3>1, <3>2, <3>4
    <3>5. QED
      BY <1>11, <3>3, <3>4
  <2>2. QED
    BY <1>3, <1>10, <2>1
<1>14. QED
  BY <1>10, <1>12, <1>13

LEMMA Extremes ==
  ASSUME NEW n \in Nat \ {0}, NEW f \in [1..n -> Int], NEW d, d = {f[k] : k \in 1..n}
  PROVE  Min(d) \in d /\ Max(d) \in d /\ d \subseteq Int
<1>1. Min(d) \in d
  <2>1. PICK k \in 1..n : \A j \in 1..n : f[k] <= f[j]
    BY LeastValue
  <2>2. f[k] \in d /\ \A y \in d : f[k] <= y
    BY <2>1
  <2>3. QED
    BY <2>2 DEF Min
<1>2. Max(d) \in d
  <2> DEFINE g == [k \in 1..n |-> 0 - f[k]]
  <2>1. g \in [1..n -> Int]
    OBVIOUS
  <2>2. PICK k \in 1..n : \A j \in 1..n : g[k] <= g[j]
    BY <2>1, LeastValue
  <2>3. ASSUME NEW j \in 1..n
        PROVE  f[k] >= f[j]
    <3>1. 0 - f[k] <= 0 - f[j]
      BY <2>2
    <3>2. f[k] \in Int /\ f[j] \in Int
      OBVIOUS
    <3>3. QED
      BY <3>1, <3>2
  <2>4. f[k] \in d /\ \A y \in d : f[k] >= y
    BY <2>3
  <2>5. QED
    BY <2>4 DEF Max
<1>3. QED
  BY <1>1, <1>2

\* A manifest has a row for every config.
LEMMA RowsSound ==
  /\ Rows(Members) \in Seq(ManifestRows) /\ Len(Rows(Members)) = Len(Members)
  /\ Len(Members) \in Nat /\ Rows(Members) # <<>>
  /\ \A k \in 1..Len(Members) : Rows(Members)[k] = [id |-> Members[k].id, cell |-> Members[k].cell]
<1> DEFINE n == Len(Members)
           q == [k \in 1..n |-> [id |-> Members[k].id, cell |-> Members[k].cell]]
<1>1. n \in Nat /\ n >= 3 /\ DOMAIN Members = 1..n
  BY MembersSound
<1>2. Rows(Members) = q
  BY <1>1 DEF Rows
<1>3. q \in [1..n -> ManifestRows]
  BY <1>1 DEF ManifestRows, SuiteConfigs
<1> HIDE DEF n
<1>4. q \in Seq(ManifestRows)
  BY <1>1, <1>3, SeqDef
<1>5. Len(q) = n
  BY <1>1, <1>4
<1>6. \A k \in 1..n : q[k] = [id |-> Members[k].id, cell |-> Members[k].cell]
  OBVIOUS
<1> HIDE DEF q
<1>7. q # <<>>
  BY <1>1, <1>4, <1>5
<1>8. QED
  BY <1>1, <1>2, <1>4, <1>5, <1>6, <1>7 DEF n

LEMMA ResultsTotal ==
  ASSUME NEW r \in ManifestRows, NEW g \in Parsed
  PROVE  ScoreMember(r, g).id = r.id /\ ScoreMember(r, g).total \in Int
<1>1. CASE g = <<>>
  BY <1>1 DEF ScoreMember, Failed
<1>2. CASE g # <<>>
  <2>1. g.rest \in Int /\ g.tier_3 \in Int
    BY <1>2, SuiteAssumption DEF Parsed
  <2>2. ScoreMember(r, g).total = g.rest + g.tier_3 /\ ScoreMember(r, g).id = r.id
    BY <1>2 DEF ScoreMember, FromBreakdown, GradeTotal
  <2>3. QED
    BY <2>1, <2>2
<1>3. QED
  BY <1>1, <1>2

LEMMA ResultsAreNumbers ==
  ASSUME NEW x \in Results
  PROVE  x.total \in Int
<1>1. PICK r \in ManifestRows, g \in Parsed : x = ScoreMember(r, g)
  BY DEF Results
<1>2. QED
  BY <1>1, ResultsTotal

\* The strata of the training scenes, and the scene drawn for one.
LEMMA StrataSound ==
  ASSUME NEW k \in 1..12, NEW others
  PROVE  Solvable(StrataScene(Strata[k], others))
<1>1. CASE k <= 10
  <2> DEFINE rail == (k - 1) \div 2
             p == (k - 1) % 2
  <2>1. Strata[k] = [plug |-> "sfp", rail |-> rail, port |-> SfpPort(p)]
    BY <1>1 DEF Strata
  <2> HIDE DEF rail, p
  <2>2. QED
    BY <2>1 DEF StrataScene, Solvable, Scene, SfpPort, Nic
<1>2. CASE ~(k <= 10)
  <2> DEFINE rail == k - 11
  <2>1. Strata[k] = [plug |-> "sc", rail |-> rail, port |-> "sc_port_base"]
    BY <1>2 DEF Strata
  <2> HIDE DEF rail
  <2>2. QED
    BY <2>1 DEF StrataScene, Solvable, Scene, Sc
<1>3. QED
  BY <1>1, <1>2

LEMMA PlanIsNumbers ==
  ASSUME overrides \in Overrides, NEW k \in 1..12
  PROVE  Reps(k) \in Nat
BY SuiteAssumption DEF Reps

\* One config more is one more in all.
LEMMA OneMoreDrawn ==
  ASSUME NEW c \in [1..12 -> Nat], NEW m \in 1..12
  PROVE  Total(c) \in Int /\ Total([c EXCEPT ![m] = @ + 1]) = Total(c) + 1
<1> DEFINE d == [c EXCEPT ![m] = @ + 1]
           e == [k \in (1..12) \ {m} |-> c[k]]
<1>1. IsFiniteSet(1..12)
  <2>1. 1 \in Int /\ 12 \in Int
    OBVIOUS
  <2>2. QED
    BY <2>1, FS_Interval, Zenon
<1>2. IsFiniteSet(DOMAIN c) /\ (\A k \in DOMAIN c : c[k] \in Int) /\ m \in DOMAIN c
  BY <1>1
<1>3. IsFiniteSet(DOMAIN d) /\ (\A k \in DOMAIN d : d[k] \in Int) /\ m \in DOMAIN d
  BY <1>1
<1>4. DOMAIN e = DOMAIN c \ {m} /\ \A k \in DOMAIN e : e[k] = c[k]
  OBVIOUS
<1>5. DOMAIN e = DOMAIN d \ {m} /\ \A k \in DOMAIN e : e[k] = d[k]
  OBVIOUS
<1>6. d[m] = c[m] + 1 /\ c[m] \in Int
  OBVIOUS
<1> HIDE DEF d, e
<1>7. Summed(c) \in Int /\ Summed(e) \in Int /\ Summed(c) = c[m] + Summed(e)
  BY <1>2, <1>4, SumTakesOut, Zenon
<1>8. Summed(d) = d[m] + Summed(e)
  BY <1>3, <1>5, SumTakesOut, Zenon
<1>9. Total(c) = Summed(c) /\ Total(d) = Summed(d)
  BY DEF Total, Summed
<1>10. QED
  BY <1>6, <1>7, <1>8, <1>9 DEF d

\* No config, none in all.
LEMMA NoneDrawn == Total([k \in 1..12 |-> 0]) = 0
<1> DEFINE f == [k \in 1..12 |-> 0]
<1>1. DOMAIN f = 1..12 /\ \A x \in DOMAIN f : f[x] \in {0}
  OBVIOUS
<1>2. 0 \in {0} /\ \A x, y \in {0} : x + y \in {0}
  OBVIOUS
<1>3. 1 \in Int /\ 12 \in Int
  OBVIOUS
<1>4. IsFiniteSet(1..12)
  BY <1>3, FS_Interval, Zenon
<1> HIDE DEF f
<1>5. Summed(f) \in {0}
  BY <1>1, <1>2, <1>4, SumStaysIn
<1>6. QED
  BY <1>5 DEF Total, Summed, f

\* A scene is drawn for the first of the strata that are behind.
LEMMA StrataStep ==
  ASSUME DrawInv, RunStrata
  PROVE  DrawInv'
<1> DEFINE B == {c \in Due : \A d \in Due : copies[c] <= copies[d]}
           m == Min(B)
<1>1. /\ Due # {} /\ copies' = [copies EXCEPT ![m] = @ + 1] /\ overrides' = overrides
      /\ \E others : drawn' = [scene |-> StrataScene(Strata[m], others), index |-> drawn.index + 1]
  BY DEF RunStrata
<1>2. copies \in [1..12 -> Nat] /\ Due \in SUBSET (1..12) /\ overrides \in Overrides
  BY DEF DrawInv, Due
<1>3. m \in Due /\ \A d \in Due : copies[m] <= copies[d]
  <2> DEFINE V == {copies[c] : c \in Due}
  <2>1. V \in SUBSET Nat /\ V # {}
    BY <1>1, <1>2
  <2>2. Min(V) \in V /\ \A v \in V : Min(V) <= v
    BY <2>1, LeastNumber
  <2>3. PICK c \in Due : copies[c] = Min(V)
    BY <2>2
  <2>4. c \in B
    BY <2>2, <2>3
  <2>5. B \in SUBSET Nat /\ B # {}
    <3>1. B \subseteq Due /\ B # {}
      BY <2>4
    <3>2. Due \subseteq Nat
      BY <1>2
    <3> HIDE DEF B
    <3>3. QED
      BY <3>1, <3>2
  <2>6. Min(B) \in B
    BY <2>5, LeastNumber
  <2>7. QED
    BY <2>6
<1> HIDE DEF m
<1>4. m \in 1..12 /\ copies[m] < Reps(m)
  BY <1>2, <1>3 DEF Due
<1>5. \A k \in 1..12 : Reps(k)' = Reps(k) /\ Reps(k) \in Nat
  BY <1>1, <1>2, PlanIsNumbers DEF Reps
<1>6. /\ copies' \in [1..12 -> Nat] /\ copies'[m] = copies[m] + 1
      /\ \A k \in 1..12 : k # m => copies'[k] = copies[k]
  BY <1>1, <1>2, <1>4
<1>7. Solvable(drawn'.scene) /\ drawn' = [scene |-> drawn'.scene, index |-> drawn'.index]
  BY <1>1, <1>4, StrataSound
<1>8. \A k \in 1..12 : copies[k] \in Nat /\ copies[k] <= Reps(k)
  BY <1>2 DEF DrawInv
<1>9. ASSUME NEW k \in 1..12
      PROVE  copies'[k] <= Reps(k)
  <2>1. CASE k = m
    BY <1>4, <1>5, <1>6, <1>8, <2>1
  <2>2. CASE k # m
    BY <1>6, <1>8, <2>2
  <2>3. QED
    BY <2>1, <2>2
<1>10. ASSUME NEW j \in 1..12, NEW k \in 1..12, copies'[k] < Reps(k)
       PROVE  copies'[j] <= copies'[k] + 1
  <2>1. copies[k] < Reps(k) /\ copies[k] <= copies'[k] /\ copies'[k] \in Nat
    BY <1>5, <1>6, <1>8, <1>10
  <2>2. k \in Due
    BY <2>1 DEF Due
  <2>3. copies[m] <= copies[k] /\ copies[j] <= copies[k] + 1
    BY <1>3, <2>1, <2>2 DEF DrawInv
  <2>4. CASE j = m
    BY <1>4, <1>6, <1>8, <2>1, <2>3, <2>4
  <2>5. CASE j # m
    BY <1>6, <1>8, <2>1, <2>3, <2>5
  <2>6. QED
    BY <2>4, <2>5
<1>11. drawn'.index \in Int /\ drawn'.index + 1 = Total(copies')
  <2>1. drawn.index \in Int /\ drawn.index + 1 = Total(copies) /\ drawn'.index = drawn.index + 1
    BY <1>1 DEF DrawInv
  <2>2. Total(copies') = Total(copies) + 1
    BY <1>1, <1>2, <1>4, OneMoreDrawn
  <2>3. QED
    BY <2>1, <2>2
<1>12. QED
  BY <1>1, <1>2, <1>5, <1>6, <1>7, <1>9, <1>10, <1>11 DEF DrawInv

LEMMA PerturbStep ==
  ASSUME DrawInv, RunPerturb
  PROVE  DrawInv'
<1>1. \E scene \in Perturb : drawn' = [drawn EXCEPT !.scene = scene]
  BY DEF RunPerturb
<1>2. \A scene \in Perturb : Solvable(scene)
  BY OfficialSound DEF Perturb, Solvable, Scene, SfpPort, Nic
<1>3. Solvable(drawn'.scene) /\ drawn' = [scene |-> drawn'.scene, index |-> drawn'.index]
  BY <1>1, <1>2 DEF DrawInv
<1>4. UNCHANGED <<overrides, copies>> /\ \A k \in 1..12 : Reps(k)' = Reps(k)
  BY DEF RunPerturb, Reps
<1>5. drawn'.index = drawn.index /\ Total(copies') = Total(copies)
  BY <1>1, <1>4 DEF DrawInv
<1>6. QED
  BY <1>3, <1>4, <1>5 DEF DrawInv

LEMMA DrawKept ==
  ASSUME DrawInv, UNCHANGED <<overrides, copies, drawn>>
  PROVE  DrawInv'
<1>1. (\A k \in 1..12 : Reps(k)' = Reps(k)) /\ Total(copies') = Total(copies)
  BY DEF Reps
<1>2. QED
  BY <1>1 DEF DrawInv

\* A config, or the manifest, is written.
LEMMA WriteStep ==
  ASSUME DirInv, FastInv, DeskInv, WriteSuite
  PROVE  DirInv' /\ FastInv' /\ desk' \in {"suite", "fast"}
         /\ (desk' = "suite" => suiteDir'.manifest = <<>>)
         /\ UNCHANGED <<genVars, fastDir, runs, comparison>> /\ desk = "suite"
<1> DEFINE n == Len(suiteDir.configs)
<1>1. /\ n \in Nat /\ n <= Len(Members) /\ Len(Members) \in Nat
      /\ desk = "suite" /\ fastDir' = fastDir /\ fastDir = NoDir /\ suiteDir.manifest = <<>>
      /\ UNCHANGED <<genVars, fastDir, runs, comparison>>
  BY MembersSound DEF WriteSuite, DirInv, DeskInv
<1>2. CASE n < Len(Members)
  <2>1. /\ suiteDir' = [suiteDir EXCEPT !.configs = Append(@, Members[n + 1])]
        /\ desk' = desk
    BY <1>2 DEF WriteSuite
  <2>2. n + 1 \in 1..Len(Members) /\ Members[n + 1] \in SuiteConfigs
    BY <1>1, <1>2, MembersSound
  <2>3. /\ suiteDir'.configs = Append(suiteDir.configs, Members[n + 1])
        /\ suiteDir'.manifest = <<>>
        /\ suiteDir' = [configs |-> suiteDir'.configs, manifest |-> suiteDir'.manifest]
    BY <1>1, <2>1 DEF DirInv
  <2> DEFINE q == Append(suiteDir.configs, Members[n + 1])
  <2>4. /\ q \in Seq(SuiteConfigs) /\ Len(q) = n + 1 /\ q[n + 1] = Members[n + 1]
        /\ \A k \in 1..n : q[k] = suiteDir.configs[k]
    BY <2>2 DEF DirInv
  <2> HIDE DEF q
  <2>5. ASSUME NEW k \in 1..(n + 1)
        PROVE  q[k] = Members[k]
    <3>1. k \in 1..n \/ k = n + 1
      BY <1>1
    <3>2. QED
      BY <2>4, <3>1 DEF DirInv
  <2>6. suiteDir'.configs = q
    BY <2>3 DEF q
  <2>7. DirInv'
    BY <1>1, <2>2, <2>3, <2>4, <2>5, <2>6 DEF DirInv
  <2>8. FastInv'
    <3>1. fastDir'.configs = <<>> /\ fastDir'.manifest = <<>>
          /\ fastDir' = [configs |-> <<>>, manifest |-> <<>>]
      BY <1>1 DEF NoDir
    <3>2. <<>> \in Seq(FastConfigs) /\ Len(<<>>) = 0
      BY EmptySeq
    <3>3. Len(suiteDir'.configs) = n + 1
      BY <2>4, <2>6
    <3>4. QED
      BY <1>1, <3>1, <3>2, <3>3 DEF FastInv
  <2>9. QED
    BY <1>1, <2>1, <2>3, <2>7, <2>8
<1>3. CASE ~(n < Len(Members))
  <2>1. /\ suiteDir' = [suiteDir EXCEPT !.manifest = Rows(Members)] /\ desk' = "fast"
    BY <1>3 DEF WriteSuite
  <2>2. /\ suiteDir'.configs = suiteDir.configs /\ suiteDir'.manifest = Rows(Members)
        /\ suiteDir' = [configs |-> suiteDir'.configs, manifest |-> suiteDir'.manifest]
    BY <2>1 DEF DirInv
  <2>3. n = Len(Members)
    BY <1>1, <1>3
  <2>4. DirInv'
    BY <2>2, <2>3 DEF DirInv
  <2>5. FastInv'
    BY <1>1, <2>2 DEF FastInv
  <2>6. QED
    BY <1>1, <2>1, <2>4, <2>5
<1>4. QED
  BY <1>2, <1>3

LEMMA FastStep ==
  ASSUME DirInv, FastInv, DeskInv, BuildFast
  PROVE  FastInv' /\ desk = "fast" /\ desk' \in {"fast", "run"}
         /\ (desk' = "fast" => fastDir'.manifest = <<>>)
         /\ UNCHANGED <<genVars, suiteDir, runs, comparison>>
<1> DEFINE n == Len(fastDir.configs)
<1>1. /\ desk = "fast" /\ suiteDir.manifest # <<>> /\ fastDir.manifest = <<>>
      /\ UNCHANGED <<genVars, suiteDir, runs, comparison>>
  BY DEF BuildFast, DeskInv
<1>2. /\ suiteDir.manifest = Rows(Members) /\ Len(suiteDir.configs) = Len(Members)
      /\ n \in Nat /\ n <= Len(Members) /\ Len(Members) \in Nat
  BY <1>1, MembersSound DEF DirInv, FastInv
<1>3. CASE n < Len(suiteDir.configs)
  <2>1. fastDir' = [fastDir EXCEPT !.configs = Rewritten(n)] /\ desk' = desk
    BY <1>3 DEF BuildFast
  <2> DEFINE c == SetTaskTimeLimits(Members[n + 1])
             q == Append(fastDir.configs, c)
  <2>2. n + 1 \in 1..Len(Members) /\ Members[n + 1] \in SuiteConfigs
    BY <1>2, <1>3, MembersSound
  <2>3. c \in FastConfigs
    BY <2>2 DEF FastConfigs
  <2>4. Rewritten(n) = q
    BY <1>2, <2>2 DEF Rewritten, DirInv
  <2> HIDE DEF c
  <2>5. /\ q \in Seq(FastConfigs) /\ Len(q) = n + 1 /\ q[n + 1] = c
        /\ \A k \in 1..n : q[k] = fastDir.configs[k]
    BY <2>3 DEF FastInv
  <2> HIDE DEF q
  <2>6. /\ fastDir'.configs = q /\ fastDir'.manifest = <<>>
        /\ fastDir' = [configs |-> fastDir'.configs, manifest |-> fastDir'.manifest]
    BY <1>1, <2>1, <2>4 DEF FastInv
  <2>7. ASSUME NEW k \in 1..(n + 1)
        PROVE  q[k] = SetTaskTimeLimits(Members[k])
    <3>1. k \in 1..n \/ k = n + 1
      BY <1>2
    <3>2. QED
      BY <2>5, <3>1 DEF FastInv, c
  <2>8. n + 1 <= Len(suiteDir'.configs)
    BY <1>1, <1>2, <1>3
  <2>9. FastInv'
    BY <2>5, <2>6, <2>7, <2>8 DEF FastInv
  <2>10. QED
    BY <1>1, <2>1, <2>6, <2>9
<1>4. CASE ~(n < Len(suiteDir.configs))
  <2>1. fastDir' = [fastDir EXCEPT !.manifest = suiteDir.manifest] /\ desk' = "run"
    BY <1>4 DEF BuildFast
  <2>2. /\ fastDir'.configs = fastDir.configs /\ fastDir'.manifest = Rows(Members)
        /\ fastDir' = [configs |-> fastDir'.configs, manifest |-> fastDir'.manifest]
    BY <1>2, <2>1 DEF FastInv
  <2>3. n = Len(Members)
    BY <1>2, <1>4
  <2>4. FastInv'
    BY <1>1, <2>2, <2>3 DEF FastInv
  <2>5. QED
    BY <1>1, <2>1, <2>4
<1>5. QED
  BY <1>3, <1>4

\* A prefix of a manifest is run, and every row of it gets its result.
LEMMA RunStep ==
  ASSUME DirInv, FastInv, RunInv, NEW x \in Judged, NEW fast \in BOOLEAN, NEW limit \in RunLimits,
         RunSuite(x, fast, limit)
  PROVE  RunInv' /\ desk = "run" /\ desk' \in {"run", "compare"}
         /\ UNCHANGED <<genVars, suiteDir, fastDir, comparison>>
<1> DEFINE dir == IF fast THEN fastDir ELSE suiteDir
           m == RunnableRows(dir, limit)
<1>1. UNCHANGED <<genVars, suiteDir, fastDir, comparison>> /\ desk = "run" /\ desk' \in {"run", "compare"}
  BY DEF RunSuite
<1>2. PICK grades \in [DOMAIN m -> Parsed] :
        LET q == [k \in DOMAIN m |-> ScoreMember(m[k], grades[k])] IN
        runs' = [runs EXCEPT ![x] =
                   [over |-> TRUE, fast |-> fast, rows |-> q, verdict |-> ReportVerdict(q)]]
  BY DEF RunSuite
<1> DEFINE q == [k \in DOMAIN m |-> ScoreMember(m[k], grades[k])]
<1>3. runs'[x].rows = q /\ runs'[x].fast = fast /\ \A y \in Judged : y # x => runs'[y] = runs[y]
  BY <1>2 DEF RunInv
<1>4. dir.manifest = <<>> \/ dir.manifest = Rows(Members)
  BY DEF DirInv, FastInv
<1>5. /\ m \in Seq(ManifestRows) /\ Len(m) <= Len(Members) /\ Len(Members) \in Nat
      /\ \A k \in 1..Len(m) : m[k].id = Members[k].id
      /\ m # <<>> => dir.manifest # <<>>
  <2> DEFINE e == Len(dir.manifest)
             l == Min({limit, e})
  <2> HIDE DEF dir
  <2>1. CASE dir.manifest = <<>>
    <3>1. e = 0 /\ limit \in Nat
      BY <2>1, SuiteAssumption
    <3>2. {limit, e} \in SUBSET Nat /\ {limit, e} # {}
      BY <3>1
    <3>3. l \in {limit, e} /\ l <= e
      BY <3>2, LeastNumber
    <3>4. l = 0
      BY <3>1, <3>3
    <3>5. SubSeq(dir.manifest, 1, l) = <<>>
      BY <3>4, SubSeqEmpty
    <3>6. m = <<>>
      BY <3>5 DEF RunnableRows
    <3>7. Len(Members) \in Nat
      BY MembersSound
    <3> HIDE DEF m
    <3>8. QED
      BY <3>6, <3>7, EmptySeq
  <2>2. CASE dir.manifest = Rows(Members)
    <3>1. e = Len(Members) /\ e \in Nat /\ limit \in Nat \ {0}
      BY <2>2, RowsSound, SuiteAssumption
    <3>2. {limit, e} \in SUBSET Nat /\ {limit, e} # {}
      BY <3>1
    <3>3. l \in {limit, e} /\ l <= e
      BY <3>2, LeastNumber
    <3>4. l \in Nat
      BY <3>1, <3>3
    <3> HIDE DEF l
    <3> DEFINE s == SubSeq(dir.manifest, 1, l)
    <3>5. \A k \in 1..l : dir.manifest[k] = [id |-> Members[k].id, cell |-> Members[k].cell]
      BY <2>2, <3>1, <3>3, <3>4, RowsSound
    <3>6. dir.manifest \in Seq(ManifestRows)
      BY <2>2, RowsSound
    <3>7. \A k \in 1..l : dir.manifest[k] \in ManifestRows
      BY <3>1, <3>3, <3>4, <3>6
    <3>8. /\ s \in Seq(ManifestRows) /\ Len(s) = IF 1 <= l THEN l - 1 + 1 ELSE 0
          /\ \A k \in 1..(l - 1 + 1) : s[k] = dir.manifest[1 + k - 1]
      BY <3>4, <3>7, SubSeqProperties
    <3>9. Len(s) = l
      BY <3>4, <3>8
    <3>10. \A k \in 1..l : s[k].id = Members[k].id
      <4> SUFFICES ASSUME NEW k \in 1..l
                   PROVE  s[k].id = Members[k].id
        OBVIOUS
      <4>1. k \in 1..(l - 1 + 1) /\ 1 + k - 1 = k
        BY <3>4
      <4>2. s[k] = dir.manifest[k]
        BY <3>8, <4>1
      <4> HIDE DEF s
      <4> DEFINE r == dir.manifest[k]
      <4>0. r = [id |-> Members[k].id, cell |-> Members[k].cell]
        BY <3>5
      <4> HIDE DEF r
      <4>5. r.id = Members[k].id
        BY <4>0
      <4>3. dir.manifest[k].id = Members[k].id
        BY <4>5 DEF r
      <4>4. QED
        BY <4>2, <4>3
    <3>11. m = s \/ m = <<>>
      BY DEF RunnableRows, l
    <3>12. dir.manifest # <<>>
      BY <2>2, RowsSound
    <3> HIDE DEF m, s
    <3>13. CASE m = s
      BY <3>1, <3>3, <3>8, <3>9, <3>10, <3>12, <3>13
    <3>14. CASE m = <<>>
      BY <3>1, <3>14, EmptySeq
    <3>15. QED
      BY <3>11, <3>13, <3>14
  <2>3. QED
    BY <1>4, <2>1, <2>2 DEF dir
<1> HIDE DEF m
<1>6. /\ q \in Seq(Results) /\ Len(q) = Len(m)
      /\ \A k \in 1..Len(m) : q[k].id = Members[k].id
  <2>1. DOMAIN m = 1..Len(m) /\ Len(m) \in Nat
    BY <1>5
  <2>2. ASSUME NEW k \in 1..Len(m)
        PROVE  q[k] \in Results /\ q[k].id = Members[k].id
    <3>1. m[k] \in ManifestRows /\ grades[k] \in Parsed
      BY <1>2, <1>5, <2>1
    <3>2. q[k] = ScoreMember(m[k], grades[k])
      BY <2>1
    <3>3. ScoreMember(m[k], grades[k]) \in Results
      BY <3>1 DEF Results
    <3>4. QED
      BY <1>5, <3>1, <3>2, <3>3, ResultsTotal
  <2>3. q \in [1..Len(m) -> Results]
    BY <2>1, <2>2
  <2> HIDE DEF q
  <2>4. q \in Seq(Results)
    BY <2>1, <2>3, SeqDef
  <2>5. Len(q) = Len(m)
    BY <2>1, <2>3, <2>4
  <2>6. QED
    BY <2>2, <2>4, <2>5
<1>7. q # <<>> => dir.manifest # <<>>
  <2>1. q # <<>> => Len(q) # 0
    BY <1>6
  <2>2. m = <<>> => Len(m) = 0
    OBVIOUS
  <2> HIDE DEF dir, q
  <2>3. QED
    BY <1>5, <1>6, <2>1, <2>2
<1>8. runs' = [r \in Judged |-> runs'[r]]
  BY <1>2 DEF RunInv
<1> HIDE DEF q
<1>9. ASSUME NEW r \in Judged
      PROVE  /\ runs'[r].rows \in Seq(Results) /\ Len(runs'[r].rows) <= Len(Members)
             /\ \A k \in 1..Len(runs'[r].rows) : runs'[r].rows[k].id = Members[k].id
             /\ runs'[r].rows # <<>> => (IF runs'[r].fast THEN fastDir' ELSE suiteDir').manifest # <<>>
  <2>1. CASE r = x
    BY <1>1, <1>3, <1>5, <1>6, <1>7, <2>1
  <2>2. CASE r # x
    BY <1>1, <1>3, <2>2 DEF RunInv
  <2>3. QED
    BY <2>1, <2>2
<1>10. RunInv'
  BY <1>8, <1>9 DEF RunInv
<1>11. QED
  BY <1>1, <1>10

\* Where a run's scene is read from, it is the member's, the limit apart.
LEMMA SceneRead ==
  ASSUME DirInv, FastInv, NEW y, NEW k \in 1..Len(Members),
         (IF y.fast THEN fastDir ELSE suiteDir).manifest # <<>>
  PROVE  [SceneOf(y, Members[k].id) EXCEPT !.limit = 0] = [Members[k].scene EXCEPT !.limit = 0]
<1> DEFINE id == Members[k].id
           n == Len(Members)
<1>1. n \in Nat /\ \A j \in 1..n : Members[j].id = id => j = k
  BY MembersSound
<1>2. CASE y.fast
  <2>1. /\ Len(fastDir.configs) = n /\ fastDir.configs \in Seq(FastConfigs)
        /\ \A j \in 1..n : fastDir.configs[j] = SetTaskTimeLimits(Members[j])
    BY <1>2 DEF FastInv
  <2>2. \A j \in 1..n : SetTaskTimeLimits(Members[j]).id = Members[j].id
    BY MembersSound DEF SetTaskTimeLimits, Member
  <2>3. Range(fastDir.configs) = {SetTaskTimeLimits(Members[j]) : j \in 1..n}
    BY <2>1 DEF Range
  <2>4. \A c \in Range(fastDir.configs) : c.id = id <=> c = SetTaskTimeLimits(Members[k])
    BY <1>1, <2>2, <2>3
  <2>5. SetTaskTimeLimits(Members[k]) \in Range(fastDir.configs)
    BY <2>3
  <2>6. (CHOOSE c \in Range(fastDir.configs) : c.id = id) = SetTaskTimeLimits(Members[k])
    BY <2>4, <2>5
  <2>7. SceneOf(y, id) = SetTaskTimeLimits(Members[k]).scene
    BY <1>2, <2>6 DEF SceneOf
  <2>8. SetTaskTimeLimits(Members[k]).scene = [Members[k].scene EXCEPT !.limit = FastLimit]
    BY MembersSound DEF SetTaskTimeLimits, Member
  <2>9. QED
    BY <2>7, <2>8
<1>3. CASE ~y.fast
  <2>1. /\ Len(suiteDir.configs) = n /\ suiteDir.configs \in Seq(SuiteConfigs)
        /\ \A j \in 1..n : suiteDir.configs[j] = Members[j]
    BY <1>3 DEF DirInv
  <2>2. Range(suiteDir.configs) = {Members[j] : j \in 1..n}
    BY <2>1 DEF Range
  <2>3. \A c \in Range(suiteDir.configs) : c.id = id <=> c = Members[k]
    BY <1>1, <2>2
  <2>4. Members[k] \in Range(suiteDir.configs)
    BY <2>2
  <2>5. (CHOOSE c \in Range(suiteDir.configs) : c.id = id) = Members[k]
    BY <2>3, <2>4
  <2>6. SceneOf(y, id) = Members[k].scene
    BY <1>3, <2>5 DEF SceneOf
  <2>7. QED
    BY <2>6
<1>4. QED
  BY <1>2, <1>3

\* Two runs with the same ids are as long, and what is compared are the
\* differences of their rows.
LEMMA RowsPaired ==
  ASSUME NEW p \in Seq(Results), NEW q \in Seq(Results), p # <<>>,
         Len(p) <= Len(Members), Len(q) <= Len(Members),
         \A k \in 1..Len(p) : p[k].id = Members[k].id,
         \A k \in 1..Len(q) : q[k].id = Members[k].id,
         Ids(p) = Ids(q)
  PROVE  /\ Len(p) = Len(q) /\ Len(p) \in Nat \ {0}
         /\ Diffs(p, q) = {p[k].total - q[k].total : k \in 1..Len(p)}
<1> DEFINE l == Len(p)
           n == Len(Members)
<1>1. /\ l \in Nat /\ l # 0 /\ n \in Nat /\ Len(q) \in Nat
      /\ DOMAIN p = 1..l /\ DOMAIN q = 1..Len(q)
      /\ \A j, k \in 1..n : Members[j].id = Members[k].id => j = k
  BY MembersSound
<1>2. Ids(p) = {Members[k].id : k \in 1..l} /\ Ids(q) = {Members[k].id : k \in 1..Len(q)}
  <2>1. ASSUME NEW z, NEW w, DOMAIN z = 1..w, \A k \in 1..w : z[k].id = Members[k].id
        PROVE  Ids(z) = {Members[k].id : k \in 1..w}
    <3>1. Range(z) = {z[k] : k \in 1..w}
      BY <2>1 DEF Range
    <3>2. Ids(z) = {z[k].id : k \in 1..w}
      BY <3>1 DEF Ids
    <3>3. QED
      BY <2>1, <3>2
  <2>2. QED
    BY <1>1, <2>1
<1>21. /\ \A x : x \in Ids(p) => \E k \in 1..l : Members[k].id = x
       /\ \A x : x \in Ids(q) => \E k \in 1..Len(q) : Members[k].id = x
       /\ \A k \in 1..l : Members[k].id \in Ids(p)
       /\ \A k \in 1..Len(q) : Members[k].id \in Ids(q)
  BY <1>2
<1> HIDE DEF l
<1>3. ~(l < Len(q))
  <2> SUFFICES ASSUME l < Len(q)
               PROVE  FALSE
    OBVIOUS
  <2>1. Len(q) \in 1..Len(q) /\ Len(q) \in 1..n
    BY <1>1
  <2>2. Members[Len(q)].id \in Ids(p)
    BY <1>21, <2>1
  <2>3. PICK k \in 1..l : Members[k].id = Members[Len(q)].id
    BY <1>21, <2>2
  <2>4. k \in 1..n
    BY <1>1
  <2>5. k = Len(q)
    BY <1>1, <2>1, <2>3, <2>4
  <2>6. QED
    BY <1>1, <2>5
<1>4. ~(Len(q) < l)
  <2> SUFFICES ASSUME Len(q) < l
               PROVE  FALSE
    OBVIOUS
  <2>1. l \in 1..l /\ l \in 1..n
    BY <1>1
  <2>2. Members[l].id \in Ids(q)
    BY <1>21, <2>1
  <2>3. PICK k \in 1..Len(q) : Members[k].id = Members[l].id
    BY <1>21, <2>2
  <2>4. k \in 1..n
    BY <1>1
  <2>5. k = l
    BY <1>1, <2>1, <2>3, <2>4
  <2>6. QED
    BY <1>1, <2>5
<1>5. Len(q) = l
  <2>1. l \in Nat /\ Len(q) \in Nat
    BY <1>1
  <2>2. QED
    BY <1>3, <1>4, <2>1
<1>0. l = Len(p)
  BY DEF l
<1> DEFINE t(z, id) == (CHOOSE r \in Range(z) : r.id = id).total
<1>6. ASSUME NEW z \in Seq(Results), Len(z) = l, \A k \in 1..l : z[k].id = Members[k].id,
             NEW k \in 1..l
      PROVE  t(z, Members[k].id) = z[k].total
  <2>1. \A j \in 1..l : z[j].id = Members[k].id => j = k
    BY <1>1, <1>6
  <2>2. Range(z) = {z[j] : j \in 1..l}
    <3>1. DOMAIN z = 1..l
      BY <1>6
    <3>2. QED
      BY <3>1 DEF Range
  <2>3. z[k] \in Range(z) /\ \A r \in Range(z) : r.id = Members[k].id <=> r = z[k]
    BY <1>6, <2>1, <2>2
  <2>4. (CHOOSE r \in Range(z) : r.id = Members[k].id) = z[k]
    BY <2>3
  <2>5. QED
    BY <2>4
<1>7. Diffs(p, q) = {t(p, id) - t(q, id) : id \in Ids(p)}
  BY DEF Diffs
<1>8. \A k \in 1..l : t(p, Members[k].id) = p[k].total /\ t(q, Members[k].id) = q[k].total
  BY <1>0, <1>5, <1>6
<1> HIDE DEF t
<1>9. {t(p, id) - t(q, id) : id \in Ids(p)} = {t(p, Members[k].id) - t(q, Members[k].id) : k \in 1..l}
  BY <1>2
<1>10. {t(p, Members[k].id) - t(q, Members[k].id) : k \in 1..l} = {p[k].total - q[k].total : k \in 1..l}
  BY <1>8
<1>11. QED
  BY <1>0, <1>1, <1>5, <1>7, <1>9, <1>10

\* A comparison is fair.
LEMMA CompareStep ==
  ASSUME DirInv, FastInv, RunInv, Compare
  PROVE  PairedFairly' /\ desk' = "over" /\ desk = "compare"
         /\ UNCHANGED <<genVars, suiteDir, fastDir, runs>>
<1> DEFINE p == runs["A"].rows
           q == runs["B"].rows
<1>1. /\ desk' = "over" /\ desk = "compare" /\ UNCHANGED <<genVars, suiteDir, fastDir, runs>>
      /\ IF p = <<>> \/ Ids(p) # Ids(q) THEN comparison' = "refused"
         ELSE \E ci \in BootstrapCi(Diffs(p, q)) : comparison' = CompareVerdict(ci)
  BY DEF Compare, ReadResults
<1>2. CASE p = <<>> \/ Ids(p) # Ids(q)
  <2>1. comparison' = "refused"
    BY <1>1, <1>2
  <2>2. PairedFairly'
    BY <2>1 DEF PairedFairly
  <2>3. QED
    BY <1>1, <2>2
<1>3. CASE p # <<>> /\ Ids(p) = Ids(q)
  <2> DEFINE l == Len(p)
             d == Diffs(p, q)
  <2>1. "A" \in Judged /\ "B" \in Judged
    BY DEF Judged
  <2>2. /\ p \in Seq(Results) /\ q \in Seq(Results)
        /\ Len(p) <= Len(Members) /\ Len(q) <= Len(Members)
        /\ \A k \in 1..Len(p) : p[k].id = Members[k].id
        /\ \A k \in 1..Len(q) : q[k].id = Members[k].id
        /\ p # <<>> => (IF runs["A"].fast THEN fastDir ELSE suiteDir).manifest # <<>>
        /\ q # <<>> => (IF runs["B"].fast THEN fastDir ELSE suiteDir).manifest # <<>>
    BY <2>1 DEF RunInv
  <2> HIDE DEF p, q
  <2>3. Len(p) = Len(q) /\ l \in Nat \ {0} /\ d = {p[k].total - q[k].total : k \in 1..l}
    BY <1>3, <2>2, RowsPaired
  <2>4. DOMAIN p = 1..l /\ q # <<>> /\ Len(Members) \in Nat
    BY <2>2, <2>3, MembersSound
  <2>5. \A k \in 1..l : p[k].total \in Int /\ q[k].total \in Int
    BY <2>2, <2>3, ResultsAreNumbers
  <2> DEFINE f == [k \in 1..l |-> p[k].total - q[k].total]
  <2>6. f \in [1..l -> Int] /\ d = {f[k] : k \in 1..l}
    BY <2>3, <2>5
  <2> HIDE DEF f, d
  <2>7. Min(d) \in d /\ Max(d) \in d
    BY <2>3, <2>6, Extremes
  <2>8. PICK ci \in BootstrapCi(d) : comparison' = CompareVerdict(ci)
    BY <1>1, <1>3 DEF d
  <2>9. ci[1] \in d /\ ci[2] \in d
    BY <2>7, <2>8 DEF BootstrapCi
  <2>10. ASSUME NEW k \in 1..l
         PROVE  /\ p[k].id = q[k].id
                /\ [SceneOf(runs["A"], p[k].id) EXCEPT !.limit = 0]
                     = [SceneOf(runs["B"], q[k].id) EXCEPT !.limit = 0]
    <3>1. k \in 1..Len(Members) /\ p[k].id = Members[k].id /\ q[k].id = Members[k].id
      BY <2>2, <2>3, <2>4
    <3>2. /\ [SceneOf(runs["A"], Members[k].id) EXCEPT !.limit = 0] = [Members[k].scene EXCEPT !.limit = 0]
          /\ [SceneOf(runs["B"], Members[k].id) EXCEPT !.limit = 0] = [Members[k].scene EXCEPT !.limit = 0]
      BY <1>3, <2>2, <2>4, <3>1, SceneRead
    <3>3. QED
      BY <3>1, <3>2
  <2>11. ASSUME comparison' = "A beats B"
         PROVE  \E k \in 1..l : p[k].total > q[k].total
    <3>1. ci[1] > 0
      BY <2>8, <2>11 DEF CompareVerdict
    <3>2. PICK k \in 1..l : ci[1] = p[k].total - q[k].total
      BY <2>3, <2>9 DEF d
    <3>3. QED
      BY <2>5, <3>1, <3>2
  <2>12. ASSUME comparison' = "B beats A"
         PROVE  \E k \in 1..l : q[k].total > p[k].total
    <3>1. ci[2] < 0
      BY <2>8, <2>12 DEF CompareVerdict
    <3>2. PICK k \in 1..l : ci[2] = p[k].total - q[k].total
      BY <2>3, <2>9 DEF d
    <3>3. QED
      BY <2>5, <3>1, <3>2
  <2>13. \A y, id : SceneOf(y, id)' = SceneOf(y, id)
    BY <1>1 DEF SceneOf
  <2>14. PairedFairly'
    <3>1. runs' = runs /\ fastDir' = fastDir /\ suiteDir' = suiteDir
      BY <1>1
    <3> DEFINE fair ==
          LET a == runs["A"]  b == runs["B"] IN
          /\ Len(a.rows) = Len(b.rows)
          /\ \A k \in DOMAIN a.rows :
               /\ a.rows[k].id = b.rows[k].id
               /\ [SceneOf(a, a.rows[k].id) EXCEPT !.limit = 0]
                    = [SceneOf(b, b.rows[k].id) EXCEPT !.limit = 0]
          /\ comparison' = "A beats B" => \E k \in DOMAIN a.rows : a.rows[k].total > b.rows[k].total
          /\ comparison' = "B beats A" => \E k \in DOMAIN a.rows : b.rows[k].total > a.rows[k].total
    <3>2. fair
      BY <2>3, <2>4, <2>10, <2>11, <2>12 DEF p, q
    <3>3. QED
      <4>1. ASSUME NEW k
            PROVE  /\ SceneOf(runs["A"], runs["A"].rows[k].id)' = SceneOf(runs["A"], runs["A"].rows[k].id)
                   /\ SceneOf(runs["B"], runs["B"].rows[k].id)' = SceneOf(runs["B"], runs["B"].rows[k].id)
        BY <3>1 DEF SceneOf
      <4>2. QED
        BY <3>1, <3>2, <4>1 DEF PairedFairly
  <2>15. QED
    BY <1>1, <2>14
<1>4. QED
  BY <1>2, <1>3

LEMMA SuiteStarts == SuiteInit => SuiteInv
<1> SUFFICES ASSUME SuiteInit
             PROVE  SuiteInv
  OBVIOUS
<1>1. /\ overrides \in Overrides /\ copies = [k \in 1..12 |-> 0]
      /\ drawn = [scene |-> Template[1], index |-> -1]
      /\ suiteDir = [configs |-> <<>>, manifest |-> <<>>]
      /\ fastDir = [configs |-> <<>>, manifest |-> <<>>] /\ fastDir = NoDir
      /\ desk \in {"draw", "suite"}
  BY DEF SuiteInit, NoDir
<1>2. runs = [r \in Judged |-> runs[r]] /\ \A r \in Judged : runs[r].rows = <<>>
  BY DEF SuiteInit, Judged
<1>3. comparison \notin Verdicts
  BY Zenon DEF SuiteInit, Verdicts
<1>4. DrawInv
  <2>1. copies \in [1..12 -> Nat] /\ \A k \in 1..12 : copies[k] = 0
    BY <1>1
  <2>2. \A k \in 1..12 : Reps(k) \in Nat
    BY <1>1, PlanIsNumbers
  <2>3. Solvable(drawn.scene) /\ drawn = [scene |-> drawn.scene, index |-> drawn.index]
    BY <1>1, OfficialSound
  <2>4. drawn.index = -1 /\ Total(copies) = 0
    BY <1>1, NoneDrawn
  <2>5. QED
    BY <1>1, <2>1, <2>2, <2>3, <2>4 DEF DrawInv
<1>5. DirInv /\ FastInv
  <2>1. <<>> \in Seq(SuiteConfigs) /\ <<>> \in Seq(FastConfigs) /\ Len(<<>>) = 0
    BY EmptySeq
  <2>2. Len(Members) \in Nat
    BY MembersSound
  <2>3. QED
    BY <1>1, <2>1, <2>2 DEF DirInv, FastInv
<1>6. RunInv
  <2>1. <<>> \in Seq(Results) /\ Len(<<>>) = 0 /\ Len(Members) \in Nat
    BY EmptySeq, MembersSound
  <2>2. ASSUME NEW r \in Judged
        PROVE  /\ runs[r].rows \in Seq(Results) /\ Len(runs[r].rows) <= Len(Members)
               /\ \A k \in 1..Len(runs[r].rows) : runs[r].rows[k].id = Members[k].id
    <3> DEFINE z == runs[r].rows
    <3>1. z = <<>>
      BY <1>2
    <3> HIDE DEF z
    <3>2. z \in Seq(Results) /\ Len(z) = 0
      BY <2>1, <3>1
    <3>3. Len(z) <= Len(Members) /\ \A k \in 1..Len(z) : FALSE
      BY <2>1, <3>2
    <3>4. QED
      BY <3>2, <3>3 DEF z
  <2>3. QED
    BY <1>2, <2>2 DEF RunInv
<1>7. DeskInv
  <2>1. PairedFairly
    BY <1>3 DEF PairedFairly, Verdicts
  <2>2. QED
    BY <1>1, <1>2, <1>3, <2>1 DEF DeskInv
<1>8. QED
  BY <1>4, <1>5, <1>6, <1>7 DEF SuiteInv

\* Nothing is said of a pair of runs before they are compared.
LEMMA Unpaired ==
  ASSUME comparison \notin Verdicts, UNCHANGED comparison
  PROVE  PairedFairly' /\ comparison' \notin Verdicts
BY DEF PairedFairly, Verdicts

LEMMA PairedKept ==
  ASSUME PairedFairly, UNCHANGED <<suiteDir, fastDir, runs, comparison>>
  PROVE  PairedFairly'
<1>1. ASSUME NEW k
      PROVE  /\ SceneOf(runs["A"], runs["A"].rows[k].id)' = SceneOf(runs["A"], runs["A"].rows[k].id)
             /\ SceneOf(runs["B"], runs["B"].rows[k].id)' = SceneOf(runs["B"], runs["B"].rows[k].id)
  BY DEF SceneOf
<1>2. QED
  BY <1>1 DEF PairedFairly

\* What was written and run stays written and run.
LEMMA DirsKept ==
  ASSUME DirInv, FastInv, UNCHANGED <<suiteDir, fastDir>>
  PROVE  DirInv' /\ FastInv'
BY DEF DirInv, FastInv

LEMMA RunsKept ==
  ASSUME RunInv, UNCHANGED runs,
         \/ \A r \in Judged : runs[r].rows = <<>>
         \/ UNCHANGED <<suiteDir, fastDir>>
  PROVE  RunInv'
<1>1. ASSUME NEW r \in Judged
      PROVE  runs'[r].rows # <<>> =>
               (IF runs'[r].fast THEN fastDir' ELSE suiteDir').manifest # <<>>
  BY DEF RunInv
<1>2. QED
  BY <1>1 DEF RunInv

\* Every step keeps the invariant.
LEMMA SuiteStep ==
  ASSUME SuiteInv, [SuiteNext]_suiteVars
  PROVE  SuiteInv'
<1>1. DrawInv /\ DirInv /\ FastInv /\ RunInv /\ DeskInv
  BY DEF SuiteInv
<1>2. CASE RunStrata \/ RunPerturb
  <2>1. DrawInv'
    BY <1>1, <1>2, StrataStep, PerturbStep
  <2>2. desk = "draw" /\ UNCHANGED <<desk, suiteDir, fastDir, runs, comparison>>
    BY <1>2 DEF RunStrata, RunPerturb
  <2>3. DirInv' /\ FastInv' /\ RunInv'
    BY <1>1, <2>2, DirsKept, RunsKept
  <2>4. comparison \notin Verdicts
    BY <1>1, <2>2 DEF DeskInv
  <2>5. DeskInv'
    BY <1>1, <2>2, <2>4, Unpaired DEF DeskInv
  <2>6. QED
    BY <2>1, <2>3, <2>5 DEF SuiteInv
<1>3. CASE GenEnds
  <2>1. desk = "draw" /\ desk' = "over" /\ UNCHANGED <<genVars, suiteDir, fastDir, runs, comparison>>
    BY <1>3 DEF GenEnds
  <2>2. DrawInv' /\ DirInv' /\ FastInv' /\ RunInv'
    BY <1>1, <2>1, DrawKept, DirsKept, RunsKept DEF genVars
  <2>3. DeskInv'
    BY <1>1, <2>1, Unpaired DEF DeskInv
  <2>4. QED
    BY <2>2, <2>3 DEF SuiteInv
<1>4. CASE WriteSuite
  <2>1. /\ DirInv' /\ FastInv' /\ desk' \in {"suite", "fast"} /\ desk = "suite"
        /\ desk' = "suite" => suiteDir'.manifest = <<>>
        /\ UNCHANGED <<genVars, fastDir, runs, comparison>>
    BY <1>1, <1>4, WriteStep
  <2>2. /\ fastDir = NoDir /\ comparison \notin Verdicts
        /\ \A r \in Judged : runs[r].rows = <<>>
    BY <1>1, <2>1 DEF DeskInv
  <2>3. DrawInv' /\ RunInv'
    BY <1>1, <2>1, <2>2, DrawKept, RunsKept DEF genVars
  <2>4. fastDir.manifest = <<>>
    BY <2>2 DEF NoDir
  <2>5. DeskInv'
    BY <2>1, <2>2, <2>4, Unpaired DEF DeskInv
  <2>6. QED
    BY <2>1, <2>3, <2>5 DEF SuiteInv
<1>5. CASE BuildFast
  <2>1. /\ FastInv' /\ desk' \in {"fast", "run"} /\ desk = "fast"
        /\ desk' = "fast" => fastDir'.manifest = <<>>
        /\ UNCHANGED <<genVars, suiteDir, runs, comparison>>
    BY <1>1, <1>5, FastStep
  <2>2. comparison \notin Verdicts /\ \A r \in Judged : runs[r].rows = <<>>
    BY <1>1, <2>1 DEF DeskInv
  <2>3. DrawInv' /\ RunInv'
    BY <1>1, <2>1, <2>2, DrawKept, RunsKept DEF genVars
  <2>4. DirInv'
    BY <1>1, <2>1 DEF DirInv
  <2>5. DeskInv'
    BY <2>1, <2>2, Unpaired DEF DeskInv
  <2>6. QED
    BY <2>1, <2>3, <2>4, <2>5 DEF SuiteInv
<1>6. CASE WriterKilled
  <2>1. /\ desk \in {"suite", "fast"} /\ desk' \in {"fast", "run"} /\ (desk' = "fast" => desk = "suite")
        /\ UNCHANGED <<genVars, suiteDir, fastDir, runs, comparison>>
    BY <1>6 DEF WriterKilled
  <2>2. comparison \notin Verdicts /\ \A r \in Judged : runs[r].rows = <<>>
    BY <1>1, <2>1 DEF DeskInv
  <2>3. DrawInv' /\ DirInv' /\ FastInv' /\ RunInv'
    BY <1>1, <2>1, DrawKept, DirsKept, RunsKept DEF genVars
  <2>4. desk = "suite" => fastDir.manifest = <<>>
    BY <1>1 DEF DeskInv, NoDir
  <2>5. DeskInv'
    BY <2>1, <2>2, <2>4, Unpaired DEF DeskInv
  <2>6. QED
    BY <2>3, <2>5 DEF SuiteInv
<1>7. ASSUME NEW r \in Judged, NEW fast \in BOOLEAN, NEW limit \in RunLimits,
             RunSuite(r, fast, limit)
      PROVE  SuiteInv'
  <2>1. /\ RunInv' /\ desk = "run" /\ desk' \in {"run", "compare"}
        /\ UNCHANGED <<genVars, suiteDir, fastDir, comparison>>
    BY <1>1, <1>7, RunStep
  <2>2. comparison \notin Verdicts
    BY <1>1, <2>1 DEF DeskInv
  <2>3. DrawInv' /\ DirInv' /\ FastInv'
    BY <1>1, <2>1, DrawKept, DirsKept DEF genVars
  <2>4. DeskInv'
    BY <2>1, <2>2, Unpaired DEF DeskInv
  <2>5. QED
    BY <2>1, <2>3, <2>4 DEF SuiteInv
<1>8. CASE Compare
  <2>1. /\ PairedFairly' /\ desk' = "over" /\ UNCHANGED <<genVars, suiteDir, fastDir, runs>>
    BY <1>1, <1>8, CompareStep
  <2>2. DrawInv' /\ DirInv' /\ FastInv' /\ RunInv'
    BY <1>1, <2>1, DrawKept, DirsKept, RunsKept DEF genVars
  <2>3. DeskInv'
    BY <2>1 DEF DeskInv
  <2>4. QED
    BY <2>2, <2>3 DEF SuiteInv
<1>9. CASE UNCHANGED suiteVars
  <2>1. UNCHANGED <<desk, overrides, copies, drawn, suiteDir, fastDir, runs, comparison>>
    BY <1>9 DEF suiteVars, genVars
  <2>2. DrawInv' /\ DirInv' /\ FastInv' /\ RunInv'
    BY <1>1, <2>1, DrawKept, DirsKept, RunsKept
  <2>3. PairedFairly'
    BY <1>1, <2>1, PairedKept DEF DeskInv
  <2>4. DeskInv'
    BY <1>1, <2>1, <2>3 DEF DeskInv
  <2>5. QED
    BY <2>2, <2>4 DEF SuiteInv
<1>10. QED
  BY <1>2, <1>3, <1>4, <1>5, <1>6, <1>7, <1>8, <1>9 DEF SuiteNext, Judged

\* Of suites of any size and any plan: every scene can be won and is told by
\* its row, strata are drawn evenly and each config from a seed of its own, a
\* suite directory that runs is whole, and a verdict is between trials of one
\* scene.
THEOREM SuitesAreFair == SuiteSpec => []SuiteIsFair
<1>1. ASSUME SuiteInv
      PROVE  SuiteIsFair
  <2>1. DrawInv /\ DirInv /\ FastInv /\ PairedFairly
    BY <1>1 DEF SuiteInv, DeskInv
  <2>2. EvenlyDrawn
    <3> SUFFICES ASSUME NEW j \in 1..12, NEW k \in 1..12, Reps(j) = Reps(k)
                 PROVE  copies[j] - copies[k] \in -1..1
      BY DEF EvenlyDrawn
    <3>1. /\ copies[j] \in Nat /\ copies[k] \in Nat /\ Reps(k) \in Nat
          /\ copies[j] <= Reps(j) /\ copies[k] <= Reps(k)
          /\ copies[k] < Reps(k) => copies[j] <= copies[k] + 1
          /\ copies[j] < Reps(j) => copies[k] <= copies[j] + 1
      BY <2>1, PlanIsNumbers DEF DrawInv
    <3>2. QED
      BY <3>1
  <2> DEFINE n == Len(Members)
  <2>3. /\ n \in Nat
        /\ \A k \in 1..n : /\ Sound(Members[k]) /\ Members[k].scene.limit = OfficialLimit
                           /\ Members[k] = Member(Members[k].id, Members[k].cell, Members[k].scene)
    BY MembersSound
  <2> HIDE DEF n
  <2>4. /\ suiteDir.configs \in Seq(SuiteConfigs) /\ Len(suiteDir.configs) <= n
        /\ \A k \in 1..Len(suiteDir.configs) : suiteDir.configs[k] = Members[k]
        /\ fastDir.configs \in Seq(FastConfigs) /\ Len(fastDir.configs) <= n
        /\ \A k \in 1..Len(fastDir.configs) : fastDir.configs[k] = SetTaskTimeLimits(Members[k])
    BY <2>1, <2>3 DEF DirInv, FastInv, n
  <2>5. ASSUME NEW c \in Range(suiteDir.configs)
        PROVE  /\ Solvable(c.scene) /\ RowTells(c) /\ c.scene.limit = OfficialLimit
    <3>1. PICK k \in 1..Len(suiteDir.configs) : c = suiteDir.configs[k]
      BY <2>4, <2>5 DEF Range
    <3>2. k \in 1..n /\ c = Members[k]
      BY <2>3, <2>4, <3>1
    <3>3. QED
      BY <2>3, <3>2 DEF Sound
  <2>6. ASSUME NEW c \in Range(fastDir.configs)
        PROVE  /\ Solvable(c.scene) /\ RowTells(c) /\ c.scene.limit = FastLimit
    <3>1. PICK k \in 1..Len(fastDir.configs) : c = fastDir.configs[k]
      BY <2>4, <2>6 DEF Range
    <3>2. k \in 1..n /\ c = SetTaskTimeLimits(Members[k])
      BY <2>3, <2>4, <3>1
    <3> DEFINE m == Members[k]
    <3>3. Solvable(m.scene) /\ RowTells(m) /\ m = Member(m.id, m.cell, m.scene)
      BY <2>3, <3>2 DEF Sound
    <3> HIDE DEF m
    <3>4. c = [m EXCEPT !.scene.limit = FastLimit]
      BY <3>2 DEF SetTaskTimeLimits, m
    <3>5. c.id = m.id /\ c.cell = m.cell /\ c.scene = [m.scene EXCEPT !.limit = FastLimit]
      BY <3>3, <3>4 DEF Member
    <3>6. /\ c.scene.target = m.scene.target /\ c.scene.board = m.scene.board
          /\ c.scene.plug = m.scene.plug /\ c.scene.port = m.scene.port
          /\ c.scene.limit = FastLimit
      BY <3>5, <2>3
    <3>7. QED
      BY <3>3, <3>5, <3>6 DEF Solvable, RowTells, InferOfficialStratum
  <2>7. Whole(suiteDir, OfficialLimit)
    <3> SUFFICES ASSUME suiteDir.manifest # <<>>
                 PROVE  /\ suiteDir.manifest = Rows(suiteDir.configs)
                        /\ Len(suiteDir.manifest) = Len(Members)
      BY <2>5 DEF Whole
    <3>1. suiteDir.manifest = Rows(Members) /\ Len(suiteDir.configs) = n
      BY <2>1 DEF DirInv, n
    <3>2. DOMAIN suiteDir.configs = 1..n /\ DOMAIN Members = 1..n
      BY <2>4, <3>1, MembersSound DEF n
    <3>3. Rows(suiteDir.configs) = Rows(Members)
      BY <2>4, <3>1, <3>2 DEF Rows
    <3>4. QED
      BY <3>1, <3>3, RowsSound
  <2>8. Whole(fastDir, FastLimit)
    <3> SUFFICES ASSUME fastDir.manifest # <<>>
                 PROVE  /\ fastDir.manifest = Rows(fastDir.configs)
                        /\ Len(fastDir.manifest) = Len(Members)
      BY <2>6 DEF Whole
    <3>1. fastDir.manifest = Rows(Members) /\ Len(fastDir.configs) = n
      BY <2>1 DEF FastInv, n
    <3>2. DOMAIN fastDir.configs = 1..n /\ DOMAIN Members = 1..n
      BY <2>4, <3>1, MembersSound DEF n
    <3>3. ASSUME NEW k \in 1..n
          PROVE  fastDir.configs[k].id = Members[k].id /\ fastDir.configs[k].cell = Members[k].cell
      BY <2>3, <2>4, <3>1 DEF SetTaskTimeLimits, Member
    <3>4. Rows(fastDir.configs) = Rows(Members)
      BY <3>2, <3>3 DEF Rows
    <3>5. QED
      BY <3>1, <3>4, RowsSound
  <2>9. Solvable(drawn.scene) /\ SeededOnce
    BY <2>1 DEF DrawInv, SeededOnce
  <2>10. QED
    BY <2>1, <2>2, <2>5, <2>6, <2>7, <2>8, <2>9 DEF SuiteIsFair
<1>2. QED
  BY <1>1, SuiteStarts, SuiteStep, PTL DEF SuiteSpec

-----------------------------------------------------------------------------
(* Episodes *)

\* One of the images is taken over or not; what has been taken over is in the
\* order of the ticks.
Rising(q, n) ==
  /\ q \in Seq(1..n)
  /\ \A j, k \in 1..Len(q) : j < k => q[j] < q[k]

LEMMA SynchronizedRises ==
  ASSUME NEW from, NEW to, Len(ctrl) \in Nat
  PROVE  Rising(Synchronized(from, to), Len(ctrl))
<1> DEFINE Takes(t) == from <= t /\ t <= to /\ States # {} /\ Away(Nearest(States, t), t) <= MaxDt
           Solves(g, n) == g = [t \in 0..n |-> IF t = 0 THEN <<>>
                                  ELSE IF Takes(t) THEN Append(g[t - 1], t) ELSE g[t - 1]]
           Unsolved == {n \in Nat : \A g : ~Solves(g, n)}
<1> HIDE DEF Takes
<1>1. Unsolved = {}
  <2> SUFFICES ASSUME Unsolved # {}
               PROVE  FALSE
    OBVIOUS
  <2> DEFINE m == Min(Unsolved)
  <2>1. m \in Unsolved /\ \A n \in Unsolved : m <= n
    <3>1. Unsolved \in SUBSET Nat
      OBVIOUS
    <3>2. QED
      BY <3>1, LeastNumber
  <2> HIDE DEF m
  <2>2. CASE m = 0
    <3> DEFINE g == [t \in 0..0 |-> <<>>]
    <3>1. Solves(g, 0)
      OBVIOUS
    <3>2. QED
      BY <2>1, <2>2, <3>1
  <2>3. CASE m # 0
    <3>1. m - 1 \in Nat /\ m \in Nat /\ m - 1 \notin Unsolved
      <4>1. m \in Nat
        BY <2>1
      <4>2. m - 1 \in Nat /\ ~(m <= m - 1)
        BY <2>3, <4>1
      <4>3. QED
        BY <2>1, <4>1, <4>2
    <3>2. PICK g : Solves(g, m - 1)
      BY <3>1
    <3> DEFINE h == [t \in 0..m |-> IF t < m THEN g[t]
                       ELSE IF Takes(t) THEN Append(g[t - 1], t) ELSE g[t - 1]]
    <3>3. \A t \in 0..m : h[t] = IF t = 0 THEN <<>>
                                 ELSE IF Takes(t) THEN Append(h[t - 1], t) ELSE h[t - 1]
      <4> SUFFICES ASSUME NEW t \in 0..m
                   PROVE  h[t] = IF t = 0 THEN <<>>
                                 ELSE IF Takes(t) THEN Append(h[t - 1], t) ELSE h[t - 1]
        OBVIOUS
      <4>1. t # 0 => t - 1 \in 0..m /\ t - 1 < m /\ h[t - 1] = g[t - 1]
        BY <3>1
      <4>2. CASE t < m
        <5>1. t \in 0..(m - 1) /\ h[t] = g[t]
          BY <3>1, <4>2
        <5>2. g[t] = IF t = 0 THEN <<>>
                     ELSE IF Takes(t) THEN Append(g[t - 1], t) ELSE g[t - 1]
          BY <3>2, <5>1
        <5>3. QED
          BY <4>1, <5>1, <5>2
      <4>3. CASE t = m
        BY <3>1, <4>1, <4>3
      <4>4. QED
        BY <3>1, <4>2, <4>3
    <3>4. Solves(h, m)
      BY <3>3
    <3>5. QED
      BY <2>1, <3>4
  <2>4. QED
    BY <2>2, <2>3
<1> DEFINE F == CHOOSE g : Solves(g, Len(ctrl))
<1>2. Solves(F, Len(ctrl))
  <2>1. \E g : Solves(g, Len(ctrl))
    BY <1>1
  <2> HIDE DEF Solves
  <2>2. QED
    BY <2>1
<1>3. Synchronized(from, to) = F[Len(ctrl)]
  BY DEF Synchronized, Takes
<1> HIDE DEF F
<1>5. \A t \in 0..Len(ctrl) :
        F[t] = IF t = 0 THEN <<>> ELSE IF Takes(t) THEN Append(F[t - 1], t) ELSE F[t - 1]
  BY <1>2, Zenon
<1> DEFINE Bad == {n \in 0..Len(ctrl) : ~Rising(F[n], n)}
<1>4. Bad = {}
  <2> SUFFICES ASSUME Bad # {}
               PROVE  FALSE
    OBVIOUS
  <2> DEFINE m == Min(Bad)
  <2>1. m \in Bad /\ \A n \in Bad : m <= n
    <3>1. Bad \in SUBSET Nat
      OBVIOUS
    <3>2. QED
      BY <3>1, LeastNumber
  <2> HIDE DEF m
  <2>2. CASE m = 0
    <3>1. F[0] = <<>>
      BY <1>5
    <3>2. Rising(<<>>, 0)
      BY DEF Rising
    <3>3. QED
      BY <2>1, <2>2, <3>1, <3>2
  <2>3. CASE m # 0
    <3>1. m \in 1..Len(ctrl) /\ m - 1 \in 0..Len(ctrl) /\ m - 1 \notin Bad
      BY <2>1, <2>3
    <3>2. Rising(F[m - 1], m - 1)
      BY <3>1
    <3>3. F[m] = IF Takes(m) THEN Append(F[m - 1], m) ELSE F[m - 1]
      BY <1>5, <3>1
    <3> DEFINE q == F[m - 1]
    <3> HIDE DEF q
    <3>4. q \in Seq(1..(m - 1)) /\ q \in Seq(1..m) /\ Len(q) \in Nat
          /\ \A k \in 1..Len(q) : q[k] \in 1..(m - 1)
      <4>1. q \in Seq(1..(m - 1))
        BY <3>2 DEF Rising, q
      <4>2. \A k \in 1..Len(q) : q[k] \in 1..m
        BY <4>1, <3>1
      <4>3. QED
        BY <4>1, <4>2, <3>1, SeqDef
    <3>5. Rising(Append(q, m), m)
      <4>1. Append(q, m) \in Seq(1..m) /\ Len(Append(q, m)) = Len(q) + 1
        BY <3>1, <3>4
      <4>2. \A k \in 1..(Len(q) + 1) : Append(q, m)[k] = IF k <= Len(q) THEN q[k] ELSE m
        BY <3>4
      <4>3. \A j, k \in 1..Len(q) : j < k => q[j] < q[k]
        BY <3>2 DEF Rising, q
      <4>4. ASSUME NEW j \in 1..(Len(q) + 1), NEW k \in 1..(Len(q) + 1), j < k
            PROVE  Append(q, m)[j] < Append(q, m)[k]
        <5>1. j \in 1..Len(q) /\ Append(q, m)[j] = q[j]
          BY <3>4, <4>2, <4>4
        <5>2. CASE k <= Len(q)
          BY <3>4, <4>2, <4>3, <4>4, <5>1, <5>2
        <5>3. CASE ~(k <= Len(q))
          <6>1. Append(q, m)[k] = m /\ q[j] \in 1..(m - 1)
            BY <3>4, <4>2, <5>1, <5>3
          <6>2. QED
            BY <3>1, <5>1, <6>1
        <5>4. QED
          BY <5>2, <5>3
      <4>5. QED
        BY <4>1, <4>4 DEF Rising
    <3>6. Rising(q, m)
      BY <3>2, <3>4 DEF Rising, q
    <3>7. QED
      BY <2>1, <3>3, <3>5, <3>6 DEF q
  <2>4. QED
    BY <2>2, <2>3
<1>6. QED
  BY <1>3, <1>4

\* The frame of the seat is the one nearest to the insertion event.
LEMMA SeatIsNearest ==
  ASSUME NEW time \in Seq(Nat), time # <<>>, NEW event \in Nat \ {0}
  PROVE  /\ SeatFrame(time, event) \in 1..Len(time)
         /\ \A j \in 1..Len(time) :
              Away(time[SeatFrame(time, event)], event) <= Away(time[j], event)
<1> DEFINE D == {Away(time[j], event) : j \in 1..Len(time)}
           N == {j \in 1..Len(time) : Away(time[j], event) = Min(D)}
<1>1. \A j \in 1..Len(time) : Away(time[j], event) \in Nat
  BY DEF Away
<1>2. Min(D) \in D /\ \A y \in D : Min(D) <= y
  <2>1. Len(time) \in Nat /\ Len(time) >= 1
    BY EmptySeq
  <2>2. D \in SUBSET Nat /\ D # {}
    BY <1>1, <2>1
  <2>3. QED
    BY <2>2, LeastNumber
<1>3. Min(N) \in N /\ \A y \in N : Min(N) <= y
  <2>1. N # {}
    BY <1>2
  <2>2. N \in SUBSET Nat
    OBVIOUS
  <2>3. QED
    BY <2>1, <2>2, LeastNumber
<1> DEFINE Seat(k) == \A j \in 1..Len(time) :
                        \/ Away(time[k], event) < Away(time[j], event)
                        \/ Away(time[k], event) = Away(time[j], event) /\ k <= j
<1>4. Min(N) \in 1..Len(time) /\ Seat(Min(N))
  <2> DEFINE k == Min(N)
  <2>1. k \in 1..Len(time) /\ Away(time[k], event) = Min(D) /\ \A y \in N : k <= y
    BY <1>3
  <2> HIDE DEF k
  <2>2. ASSUME NEW j \in 1..Len(time)
        PROVE  \/ Away(time[k], event) < Away(time[j], event)
               \/ Away(time[k], event) = Away(time[j], event) /\ k <= j
    <3>1. Min(D) <= Away(time[j], event) /\ Away(time[j], event) \in Nat /\ Min(D) \in Nat
      BY <1>1, <1>2
    <3>2. Away(time[j], event) = Min(D) => k <= j
      BY <2>1
    <3>3. QED
      BY <2>1, <3>1, <3>2
  <2>3. QED
    BY <2>1, <2>2 DEF k
<1>5. SeatFrame(time, event) = CHOOSE k \in 1..Len(time) : Seat(k)
  <2>1. DOMAIN time = 1..Len(time) /\ event # 0
    OBVIOUS
  <2>2. QED
    BY <2>1, Zenon DEF SeatFrame
<1> DEFINE s == CHOOSE k \in 1..Len(time) : Seat(k)
<1>6. s \in 1..Len(time) /\ Seat(s)
  <2> HIDE DEF Seat
  <2>1. QED
    BY <1>4
<1> HIDE DEF s
<1>7. \A j \in 1..Len(time) : Away(time[s], event) <= Away(time[j], event)
  BY <1>1, <1>6
<1>8. QED
  BY <1>5, <1>6, <1>7 DEF s

\* What trimming the tail keeps ends at the last frame that moves.
LEMMA TailMoves ==
  ASSUME NEW moves \in Seq(BOOLEAN), Len(moves) >= 1
  PROVE  /\ TailTrimLength(moves, 0) \in 1..Len(moves)
         /\ (\E j \in 1..Len(moves) : moves[j]) =>
              \A k \in 1..Len(moves) : k > TailTrimLength(moves, 0) => ~moves[k]
<1> DEFINE n == Len(moves)
           m == {k \in 1..n : moves[k]}
<1>0. n \in Nat
  OBVIOUS
<1>1. CASE m = {}
  <2>1. TailTrimLength(moves, 0) = n
    BY <1>1 DEF TailTrimLength
  <2>2. QED
    BY <1>0, <1>1, <2>1
<1>2. CASE m # {}
  <2>1. Max(m) \in m /\ \A y \in m : y <= Max(m)
    <3>1. m \in SUBSET (0..n)
      BY <1>0
    <3>2. QED
      BY <1>0, <1>2, <3>1, GreatestNumber
  <2>2. Max(m) \in 1..n
    BY <2>1
  <2>3. TailTrimLength(moves, 0) = Smaller(n, Max(m) + 0)
    BY <1>2 DEF TailTrimLength
  <2>4. Smaller(n, Max(m) + 0) = Max(m)
    BY <1>0, <2>2 DEF Smaller
  <2>5. \A k \in 1..n : k > Max(m) => ~moves[k]
    BY <1>0, <2>1, <2>2
  <2>6. QED
    BY <2>2, <2>3, <2>4, <2>5
<1>3. QED
  BY <1>1, <1>2

\* The last inch is an interval that ends where it should and is long enough,
\* as far as the episode goes.
LastInchStop(moves, seat) ==
  IF seat > 0 THEN Smaller(seat, Len(moves)) ELSE TailTrimLength(moves, 0)

LEMMA LastInchIsInterval ==
  ASSUME NEW moves \in Seq(BOOLEAN), Len(moves) >= 1, NEW seat \in Nat
  PROVE  LET stop == LastInchStop(moves, seat) IN
         /\ stop \in 1..Len(moves)
         /\ \E start \in 1..stop :
              /\ LastInchWindow(moves, seat) = start..stop
              /\ start = 1 \/ stop - start + 1 >= MinFrames
<1> DEFINE stop == LastInchStop(moves, seat)
           start == IF Lookback < MinFrames THEN stop - MinFrames ELSE stop - Lookback
<1>1. stop \in 1..Len(moves)
  BY TailMoves DEF LastInchStop, Smaller
<1>2. LastInchWindow(moves, seat) = Max({0, start}) + 1 .. stop
  BY DEF LastInchWindow, LastInchStop
<1>3. Lookback \in Nat /\ MinFrames \in Nat \ {0}
  BY EpisodesAssumption
<1> HIDE DEF stop
<1>4. start \in Int /\ start < stop /\ start <= stop - MinFrames
  BY <1>1, <1>3
<1> HIDE DEF start
<1>5. Max({0, start}) = IF start > 0 THEN start ELSE 0
  <2> DEFINE M == {0, start}
             v == IF start > 0 THEN start ELSE 0
  <2>1. v \in M /\ \A y \in M : v >= y
    BY <1>4
  <2>2. \A x \in M : (\A y \in M : x >= y) => x = v
    BY <1>4
  <2>3. QED
    BY <2>1, <2>2 DEF Max
<1>6. PICK a \in Nat : a = Max({0, start}) /\ (a = 0 \/ a = start)
  BY <1>4, <1>5
<1>7. a + 1 \in 1..stop
  BY <1>1, <1>4, <1>6
<1>8. a + 1 = 1 \/ stop - (a + 1) + 1 >= MinFrames
  BY <1>1, <1>3, <1>4, <1>6
<1>9. LastInchWindow(moves, seat) = (a + 1)..stop
  BY <1>2, <1>6
<1>10. QED
  BY <1>1, <1>7, <1>8, <1>9 DEF stop

\* Every kept frame has a weight, and the last one the greatest.
LEMMA WeightsRise ==
  ASSUME NEW n \in Nat \ {0}, NEW k \in 1..n
  PROVE  PushinWeight(n, k) \in Nat \ {0} /\ (RampFrames > 0 => PushinWeight(n, n) = WMax)
<1> DEFINE m == Smaller(RampFrames, n)
<1>1. RampFrames \in Nat /\ WMax \in Nat /\ WMax >= 1
  BY EpisodesAssumption
<1>2. m \in 0..n /\ (RampFrames > 0 => m >= 1)
  BY <1>1 DEF Smaller
<1> HIDE DEF m
<1>3. \A a, c \in Nat : c > 0 => (a * c) \div c = a
  OBVIOUS
<1>4. \A a, c \in Nat : c > 0 => a \div c \in Nat
  OBVIOUS
<1>5. PushinWeight(n, k) \in Nat \ {0}
  <2>1. CASE k <= n - m
    BY <1>1, <2>1 DEF PushinWeight, m
  <2>2. CASE ~(k <= n - m) /\ m = 1
    BY <1>1, <2>2 DEF PushinWeight, m
  <2>3. CASE ~(k <= n - m) /\ m # 1
    <3> DEFINE a == k - (n - m) - 1
               p == (WMax - 1) * a
    <3>1. a \in Nat /\ m - 1 \in Nat /\ m - 1 > 0 /\ WMax - 1 \in Nat
      BY <1>1, <1>2, <2>3
    <3>2. p \in Nat
      <4> HIDE DEF a
      <4>1. \A x, y \in Nat : x * y \in Nat
        OBVIOUS
      <4>2. QED
        BY <3>1, <4>1
    <3>3. PushinWeight(n, k) = 1 + p \div (m - 1)
      BY <2>3 DEF PushinWeight, m
    <3> HIDE DEF p, a
    <3>4. p \div (m - 1) \in Nat
      BY <1>4, <3>1, <3>2
    <3>5. QED
      BY <3>3, <3>4
  <2>4. QED
    BY <2>1, <2>2, <2>3
<1>6. ASSUME RampFrames > 0
      PROVE  PushinWeight(n, n) = WMax
  <2>1. m >= 1 /\ ~(n <= n - m)
    BY <1>2, <1>6
  <2>2. CASE m = 1
    BY <2>1, <2>2 DEF PushinWeight, m
  <2>3. CASE m # 1
    <3>1. PushinWeight(n, n) = 1 + ((WMax - 1) * (n - (n - m) - 1)) \div (m - 1)
      BY <2>1, <2>3 DEF PushinWeight, m
    <3>2. n - (n - m) - 1 = m - 1 /\ m - 1 \in Nat /\ m - 1 > 0 /\ WMax - 1 \in Nat
      BY <1>1, <1>2, <2>1, <2>3
    <3>3. ((WMax - 1) * (m - 1)) \div (m - 1) = WMax - 1
      BY <1>3, <3>2
    <3>4. QED
      BY <1>1, <3>1, <3>2, <3>3
  <2>4. QED
    BY <2>2, <2>3
<1>7. QED
  BY <1>5, <1>6

\* A split has at most two episodes: where each one's frames are in it.
Split(d) ==
  /\ d \in Seq([src : Seq(Nat), time : Seq(Nat), moves : Seq(BOOLEAN), seat : Nat])
  /\ Len(d) \in {1, 2}
  /\ \A e \in DOMAIN d : Len(d[e].moves) = Len(d[e].time)

Before(d, e) == IF e = 1 THEN 0 ELSE Len(d[1].time)
Second(d) == IF Len(d) = 1 THEN 0 ELSE Len(d[2].time)
OwnerOf(d, g) == IF g <= Len(d[1].time) THEN 1 ELSE 2

LEMMA SplitTypes ==
  ASSUME NEW d, Split(d)
  PROVE  /\ DOMAIN d = 1..Len(d) /\ Len(d) \in {1, 2}
         /\ \A e \in DOMAIN d :
              /\ d[e].time \in Seq(Nat) /\ DOMAIN d[e].time = 1..Len(d[e].time) /\ Len(d[e].time) \in Nat
              /\ d[e].moves \in Seq(BOOLEAN) /\ Len(d[e].moves) = Len(d[e].time) /\ d[e].seat \in Nat
              /\ d[e].time # <<>> <=> Len(d[e].time) >= 1
<1>1. DOMAIN d = 1..Len(d) /\ Len(d) \in {1, 2}
  BY DEF Split
<1>2. ASSUME NEW e \in DOMAIN d
      PROVE  /\ d[e].time \in Seq(Nat) /\ d[e].moves \in Seq(BOOLEAN) /\ d[e].seat \in Nat
             /\ Len(d[e].moves) = Len(d[e].time)
  <2>1. d[e] \in [src : Seq(Nat), time : Seq(Nat), moves : Seq(BOOLEAN), seat : Nat]
    <3>1. ASSUME NEW R, NEW q \in Seq(R), NEW k \in DOMAIN q
          PROVE  q[k] \in R
      BY <3>1
    <3>2. d \in Seq([src : Seq(Nat), time : Seq(Nat), moves : Seq(BOOLEAN), seat : Nat])
      BY DEF Split
    <3>3. QED
      BY <3>1, <3>2, <1>2
  <2>2. QED
    BY <2>1 DEF Split
<1>3. ASSUME NEW q \in Seq(Nat)
      PROVE  DOMAIN q = 1..Len(q) /\ Len(q) \in Nat /\ (q # <<>> <=> Len(q) >= 1)
  BY EmptySeq
<1>4. QED
  BY <1>1, <1>2, <1>3

LEMMA FlattenOne ==
  ASSUME NEW s
  PROVE  FlattenSeq(<<s>>) = s
<1> DEFINE q == <<s>>
           Solves(f) == f = [x \in 1..Len(q) |-> IF x = 1 THEN q[x] ELSE f[x - 1] \o q[x]]
           F == CHOOSE f : Solves(f)
<1>1. Solves([x \in 1..1 |-> s])
  OBVIOUS
<1>2. Solves(F)
  <2>1. \E f : Solves(f)
    BY <1>1
  <2> HIDE DEF Solves
  <2>2. QED
    BY <2>1
<1>3. F[1] = s
  <2>1. 1 \in 1..Len(q) /\ q[1] = s
    OBVIOUS
  <2> HIDE DEF F
  <2>2. F[1] = IF 1 = 1 THEN q[1] ELSE F[1 - 1] \o q[1]
    BY <1>2, <2>1, Zenon
  <2>3. QED
    BY <2>1, <2>2
<1>4. FlattenSeq(q) = F[Len(q)] /\ Len(q) = 1
  BY DEF FlattenSeq
<1>5. QED
  BY <1>3, <1>4

LEMMA FlattenTwo ==
  ASSUME NEW s, NEW t
  PROVE  FlattenSeq(<<s, t>>) = s \o t
<1> DEFINE q == <<s, t>>
           Solves(f) == f = [x \in 1..Len(q) |-> IF x = 1 THEN q[x] ELSE f[x - 1] \o q[x]]
           F == CHOOSE f : Solves(f)
           G == [x \in 1..2 |-> IF x = 1 THEN s ELSE s \o t]
<1>1. Solves(G)
  <2>1. Len(q) = 2 /\ q[1] = s /\ q[2] = t /\ G[1] = s
    OBVIOUS
  <2>2. \A x \in 1..2 : G[x] = IF x = 1 THEN q[x] ELSE G[x - 1] \o q[x]
    BY <2>1
  <2>3. QED
    BY <2>1, <2>2
<1>2. Solves(F)
  <2>1. \E f : Solves(f)
    BY <1>1
  <2> HIDE DEF Solves
  <2>2. QED
    BY <2>1
<1>3. F[2] = s \o t
  <2>1. 1 \in 1..Len(q) /\ 2 \in 1..Len(q) /\ q[1] = s /\ q[2] = t /\ 2 - 1 = 1 /\ 2 # 1
    OBVIOUS
  <2> HIDE DEF F
  <2>2. /\ F[1] = IF 1 = 1 THEN q[1] ELSE F[1 - 1] \o q[1]
        /\ F[2] = IF 2 = 1 THEN q[2] ELSE F[2 - 1] \o q[2]
    BY <1>2, <2>1, Zenon
  <2>3. QED
    BY <2>1, <2>2
<1>4. FlattenSeq(q) = F[Len(q)] /\ Len(q) = 2
  BY DEF FlattenSeq
<1>5. QED
  BY <1>3, <1>4

LEMMA Joined ==
  ASSUME NEW s \in Seq({1, 2}), NEW t \in Seq({1, 2}),
         \A k \in 1..Len(s) : s[k] = 1, \A k \in 1..Len(t) : t[k] = 2
  PROVE  s \o t = [g \in 1..(Len(s) + Len(t)) |-> IF g <= Len(s) THEN 1 ELSE 2]
<1> DEFINE q == s \o t
<1>1. q \in Seq({1, 2}) /\ Len(q) = Len(s) + Len(t) /\ Len(s) \in Nat /\ Len(t) \in Nat
  BY ConcatProperties
<1>2. \A g \in 1..(Len(s) + Len(t)) : q[g] = IF g <= Len(s) THEN s[g] ELSE t[g - Len(s)]
  BY ConcatProperties
<1> HIDE DEF q
<1>3. ASSUME NEW g \in 1..(Len(s) + Len(t))
      PROVE  q[g] = IF g <= Len(s) THEN 1 ELSE 2
  <2>1. g <= Len(s) => g \in 1..Len(s)
    BY <1>1
  <2>2. ~(g <= Len(s)) => g - Len(s) \in 1..Len(t)
    BY <1>1
  <2>3. QED
    BY <1>2, <1>3, <2>1, <2>2
<1>4. q = [g \in 1..Len(q) |-> q[g]]
  BY <1>1
<1>5. QED
  BY <1>1, <1>3, <1>4 DEF q

\* The identities that prepare_split hands on name the owner of every frame.
LEMMA IdsOfSplit ==
  ASSUME NEW d, Split(d)
  PROVE  /\ Len(d[1].time) \in Nat /\ Second(d) \in Nat
         /\ EpisodeIds(d) = [g \in 1..(Len(d[1].time) + Second(d)) |-> OwnerOf(d, g)]
<1> DEFINE Block(e) == [k \in DOMAIN d[e].time |-> e]
<1>1. /\ \A e \in DOMAIN d : d[e].time \in Seq(Nat) /\ DOMAIN d[e].time = 1..Len(d[e].time)
      /\ 1 \in DOMAIN d /\ DOMAIN d = 1..Len(d)
      /\ Len(d[1].time) \in Nat
  BY SplitTypes
<1>2. CASE Len(d) = 1
  <2>1. [e \in DOMAIN d |-> Block(e)] = <<Block(1)>>
    BY <1>1, <1>2
  <2>2. EpisodeIds(d) = Block(1)
    BY <2>1, FlattenOne DEF EpisodeIds
  <2>3. QED
    BY <1>1, <1>2, <2>2 DEF Second, OwnerOf
<1>3. CASE Len(d) = 2
  <2>1. [e \in DOMAIN d |-> Block(e)] = <<Block(1), Block(2)>>
    BY <1>1, <1>3
  <2>2. EpisodeIds(d) = Block(1) \o Block(2)
    <3> HIDE DEF Block
    <3>1. QED
      BY <2>1, FlattenTwo DEF EpisodeIds, Block
  <2>3. Len(d[2].time) \in Nat /\ Second(d) = Len(d[2].time) /\ DOMAIN d[2].time = 1..Len(d[2].time)
    BY <1>1, <1>3 DEF Second
  <2>4. Block(1) \in Seq({1, 2}) /\ Block(2) \in Seq({1, 2})
    BY <1>1, <2>3
  <2>5. Len(Block(1)) = Len(d[1].time) /\ Len(Block(2)) = Len(d[2].time)
    BY <1>1, <2>3
  <2>6. Block(1) \o Block(2) = [g \in 1..(Len(d[1].time) + Len(d[2].time)) |-> OwnerOf(d, g)]
    <3>1. \A g \in 1..Len(d[1].time) : Block(1)[g] = 1
      BY <1>1
    <3>2. \A g \in 1..Len(d[2].time) : Block(2)[g] = 2
      BY <2>3
    <3>3. Block(1) \o Block(2) = [g \in 1..(Len(Block(1)) + Len(Block(2))) |->
                                    IF g <= Len(Block(1)) THEN 1 ELSE 2]
      <4> HIDE DEF Block
      <4>1. (\A k \in 1..Len(Block(1)) : Block(1)[k] = 1) /\ (\A k \in 1..Len(Block(2)) : Block(2)[k] = 2)
        BY <3>1, <3>2, <2>5
      <4>2. QED
        BY <4>1, <2>4, Joined
    <3> HIDE DEF Block
    <3>4. QED
      BY <3>3, <2>5 DEF OwnerOf
  <2>7. QED
    BY <1>1, <2>2, <2>3, <2>6
<1>4. QED
  BY <1>2, <1>3 DEF Split

\* The bounds of the runs of identities are the episodes' own.
LEMMA BoundsOfSplit ==
  ASSUME NEW d, Split(d)
  PROVE  EpisodeBounds(EpisodeIds(d)) =
           {<<Before(d, e) + 1, Before(d, e) + Len(d[e].time)>> : e \in {e \in DOMAIN d : d[e].time # <<>>}}
<1> DEFINE n1 == Len(d[1].time)
           n2 == Second(d)
           ids == EpisodeIds(d)
           Run(p) == /\ p[1] <= p[2] /\ \A k \in p[1]..p[2] : ids[k] = ids[p[1]]
                     /\ p[1] = 1 \/ ids[p[1] - 1] # ids[p[1]]
                     /\ p[2] = Len(ids) \/ ids[p[2] + 1] # ids[p[2]]
<1>1. /\ n1 \in Nat /\ n2 \in Nat /\ DOMAIN ids = 1..(n1 + n2) /\ Len(ids) = n1 + n2
      /\ \A g \in 1..(n1 + n2) : ids[g] = IF g <= n1 THEN 1 ELSE 2
  BY IdsOfSplit DEF OwnerOf
<1>2. /\ DOMAIN d = 1..Len(d) /\ Len(d) \in {1, 2}
      /\ \A e \in DOMAIN d : d[e].time \in Seq(Nat)
      /\ \A e \in DOMAIN d : Len(d[e].time) = IF e = 1 THEN n1 ELSE n2
      /\ Len(d) = 1 => n2 = 0
  BY SplitTypes DEF Second
<1>3. EpisodeBounds(ids) = {p \in (1..(n1 + n2)) \X (1..(n1 + n2)) : Run(p)}
  BY <1>1 DEF EpisodeBounds
<1> HIDE DEF ids, n1, n2
<1>4. ASSUME NEW p \in (1..(n1 + n2)) \X (1..(n1 + n2)), Run(p)
      PROVE  (p = <<1, n1>> /\ n1 > 0) \/ (p = <<n1 + 1, n1 + n2>> /\ n2 > 0)
  <2> DEFINE a == p[1]  b == p[2]
  <2>1. a \in 1..(n1 + n2) /\ b \in 1..(n1 + n2) /\ p = <<a, b>>
    OBVIOUS
  <2>2. a <= b /\ ids[b] = ids[a]
    BY <2>1, <1>4
  <2>3. a = 1 \/ (a - 1 \in 1..(n1 + n2) /\ ids[a - 1] # ids[a])
    BY <2>1, <1>4, <1>1
  <2>4. b = n1 + n2 \/ (b + 1 \in 1..(n1 + n2) /\ ids[b + 1] # ids[b])
    BY <2>1, <1>4, <1>1
  <2> HIDE DEF a, b, Run
  <2>5. CASE a <= n1
    <3>1. a = 1 /\ b <= n1
      BY <1>1, <2>1, <2>2, <2>3, <2>5
    <3>2. b = n1
      BY <1>1, <2>1, <2>4, <3>1
    <3>3. QED
      BY <1>1, <2>1, <2>5, <3>1, <3>2
  <2>6. CASE ~(a <= n1)
    <3>1. a = n1 + 1
      BY <1>1, <2>1, <2>3, <2>6
    <3>2. b = n1 + n2
      BY <1>1, <2>1, <2>2, <2>4, <2>6
    <3>3. QED
      BY <1>1, <2>1, <3>1, <3>2
  <2>7. QED
    BY <2>5, <2>6
<1>5. n1 > 0 => <<1, n1>> \in (1..(n1 + n2)) \X (1..(n1 + n2)) /\ Run(<<1, n1>>)
  BY <1>1
<1>6. n2 > 0 => <<n1 + 1, n1 + n2>> \in (1..(n1 + n2)) \X (1..(n1 + n2)) /\ Run(<<n1 + 1, n1 + n2>>)
  BY <1>1
<1> DEFINE E == {e \in DOMAIN d : d[e].time # <<>>}
           B(e) == <<Before(d, e) + 1, Before(d, e) + Len(d[e].time)>>
<1>7. \A e \in DOMAIN d : d[e].time # <<>> <=> Len(d[e].time) > 0
  BY <1>2, EmptySeq
<1>8. 1 \in E <=> n1 > 0
  BY <1>1, <1>2, <1>7
<1>9. 2 \in E <=> n2 > 0
  BY <1>1, <1>2, <1>7
<1>10. E \subseteq {1, 2}
  BY <1>2
<1>11. B(1) = <<1, n1>> /\ (2 \in E => B(2) = <<n1 + 1, n1 + n2>>)
  <2>1. Before(d, 1) = 0 /\ Before(d, 2) = n1
    BY DEF Before, n1
  <2>2. 1 \in DOMAIN d /\ Len(d[1].time) = n1
    BY <1>2
  <2>3. 2 \in E => Len(d[2].time) = n2
    BY <1>2
  <2>4. QED
    BY <1>1, <2>1, <2>2, <2>3
<1> HIDE DEF Run, E, B
<1>12. {p \in (1..(n1 + n2)) \X (1..(n1 + n2)) : Run(p)} = {B(e) : e \in E}
  <2>1. ASSUME NEW p \in (1..(n1 + n2)) \X (1..(n1 + n2)), Run(p)
        PROVE  \E e \in E : p = B(e)
    BY <2>1, <1>4, <1>8, <1>9, <1>11
  <2>2. ASSUME NEW e \in E
        PROVE  B(e) \in (1..(n1 + n2)) \X (1..(n1 + n2)) /\ Run(B(e))
    BY <1>5, <1>6, <1>8, <1>9, <1>10, <1>11
  <2>3. QED
    BY <2>1, <2>2
<1>13. QED
  BY <1>3, <1>12 DEF ids, E, B

\* The blocks of a split are disjoint and cover it.
Full(d) == {e \in DOMAIN d : d[e].time # <<>>}

LEMMA BlocksPartition ==
  ASSUME NEW d, Split(d)
  PROVE  LET N == Len(d[1].time) + Second(d) IN
         /\ \A e \in Full(d) : \A k \in 1..Len(d[e].time) : Before(d, e) + k \in 1..N
         /\ \A e, f \in Full(d) : \A k \in 1..Len(d[e].time), j \in 1..Len(d[f].time) :
              Before(d, e) + k = Before(d, f) + j => e = f /\ k = j
         /\ \A g \in 1..N : \E e \in Full(d) : \E k \in 1..Len(d[e].time) : g = Before(d, e) + k
         /\ \A e \in Full(d) : \A k \in 1..Len(d[e].time) : OwnerOf(d, Before(d, e) + k) = e
         /\ \A e \in Full(d) : Before(d, e) \in Nat /\ Len(d[e].time) \in Nat \ {0}
<1> DEFINE n1 == Len(d[1].time)
           n2 == Second(d)
<1>1. /\ n1 \in Nat /\ n2 \in Nat
      /\ Full(d) \subseteq {1, 2} /\ (1 \in Full(d) <=> n1 > 0) /\ (2 \in Full(d) <=> n2 > 0)
      /\ \A e \in Full(d) : Len(d[e].time) = IF e = 1 THEN n1 ELSE n2
  <2>1. /\ DOMAIN d = 1..Len(d) /\ Len(d) \in {1, 2}
        /\ \A e \in DOMAIN d : Len(d[e].time) \in Nat /\ (d[e].time # <<>> <=> Len(d[e].time) >= 1)
    BY SplitTypes
  <2>2. CASE Len(d) = 1
    BY <2>1, <2>2 DEF Full, Second
  <2>3. CASE Len(d) = 2
    BY <2>1, <2>3 DEF Full, Second
  <2>4. QED
    BY <2>1, <2>2, <2>3
<1>2. Before(d, 1) = 0 /\ Before(d, 2) = n1
  BY DEF Before
<1>3. \A g : OwnerOf(d, g) = IF g <= n1 THEN 1 ELSE 2
  BY DEF OwnerOf
<1> HIDE DEF n1, n2
<1>4. \A e \in Full(d) : \A k \in 1..Len(d[e].time) : Before(d, e) + k \in 1..(n1 + n2)
  BY <1>1, <1>2
<1>5. \A e \in Full(d) : \A k \in 1..Len(d[e].time) : OwnerOf(d, Before(d, e) + k) = e
  BY <1>1, <1>2, <1>3
<1>6. \A e, f \in Full(d) : \A k \in 1..Len(d[e].time), j \in 1..Len(d[f].time) :
        Before(d, e) + k = Before(d, f) + j => e = f /\ k = j
  BY <1>1, <1>2
<1>7. ASSUME NEW g \in 1..(n1 + n2)
      PROVE  \E e \in Full(d) : \E k \in 1..Len(d[e].time) : g = Before(d, e) + k
  <2>1. CASE g <= n1
    <3>1. 1 \in Full(d) /\ g \in 1..Len(d[1].time) /\ g = Before(d, 1) + g
      BY <1>1, <1>2, <2>1
    <3>2. QED
      BY <3>1
  <2>2. CASE ~(g <= n1)
    <3>1. 2 \in Full(d) /\ g - n1 \in 1..Len(d[2].time) /\ g = Before(d, 2) + (g - n1)
      BY <1>1, <1>2, <2>2
    <3>2. QED
      BY <3>1
  <2>3. QED
    BY <2>1, <2>2
<1>8. \A e \in Full(d) : Before(d, e) \in Nat /\ Len(d[e].time) \in Nat \ {0}
  BY <1>1, <1>2
<1>9. QED
  BY <1>4, <1>5, <1>6, <1>7, <1>8 DEF n1, n2

\* What is kept and how it is weighted, episode by episode.
LEMMA LoadedBlocks ==
  ASSUME NEW d, Split(d), LoadSplit(d), lastInch
  PROVE  /\ DOMAIN weight' = 1..(Len(d[1].time) + Second(d))
         /\ \A e \in Full(d) : \A k \in 1..Len(d[e].time) :
              LET K == LastInchWindow(d[e].moves, d[e].seat) IN
              /\ Before(d, e) + k \in keep' <=> k \in K
              /\ weight'[Before(d, e) + k] =
                   IF k \in K THEN PushinWeight(Cardinality(K), k - Min(K) + 1) ELSE 0
<1> DEFINE N == Len(d[1].time) + Second(d)
           ids == EpisodeIds(d)
           B(e) == <<Before(d, e) + 1, Before(d, e) + Len(d[e].time)>>
           Bs == EpisodeBounds(ids)
           kept == [b \in Bs |-> KeptOf(d[ids[b[1]]])]
           K(e) == LastInchWindow(d[e].moves, d[e].seat)
<1>1. ids = [g \in 1..N |-> OwnerOf(d, g)]
  BY IdsOfSplit
<1>2. Bs = {B(e) : e \in Full(d)}
  BY BoundsOfSplit DEF Full
<1>3. /\ \A e \in Full(d) : \A k \in 1..Len(d[e].time) : Before(d, e) + k \in 1..N
      /\ \A e, f \in Full(d) : \A k \in 1..Len(d[e].time), j \in 1..Len(d[f].time) :
           Before(d, e) + k = Before(d, f) + j => e = f /\ k = j
      /\ \A e \in Full(d) : \A k \in 1..Len(d[e].time) : OwnerOf(d, Before(d, e) + k) = e
      /\ \A e \in Full(d) : Before(d, e) \in Nat /\ Len(d[e].time) \in Nat \ {0}
  BY BlocksPartition
<1>4. \A e \in Full(d) : K(e) \in SUBSET (1..Len(d[e].time))
  <2> TAKE e \in Full(d)
  <2>1. e \in DOMAIN d /\ Len(d[e].time) >= 1
    BY <1>3 DEF Full
  <2>2. d[e].moves \in Seq(BOOLEAN) /\ Len(d[e].moves) = Len(d[e].time) /\ d[e].seat \in Nat
    BY <2>1, SplitTypes
  <2> DEFINE stop == LastInchStop(d[e].moves, d[e].seat)
  <2> HIDE DEF stop
  <2>3. stop \in 1..Len(d[e].time) /\ \E start \in 1..stop : K(e) = start..stop
    BY <2>1, <2>2, LastInchIsInterval DEF stop
  <2>4. QED
    BY <1>3, <2>3
<1>5. \A e \in Full(d) : B(e) \in Bs /\ kept[B(e)] = K(e)
  <2> TAKE e \in Full(d)
  <2>1. B(e) \in Bs
    BY <1>2
  <2>2. 1 \in 1..Len(d[e].time)
    BY <1>3
  <2>3. ids[Before(d, e) + 1] = e
    BY <1>1, <1>3, <2>2
  <2>4. kept[B(e)] = KeptOf(d[e])
    <3> HIDE DEF Bs, ids
    <3>1. QED
      BY <2>1, <2>3
  <2>5. KeptOf(d[e]) = K(e)
    BY DEF KeptOf, KeptLastInch
  <2>6. QED
    BY <2>1, <2>4, <2>5
<1>6. keep' = UNION {{b[1] - 1 + k : k \in kept[b]} : b \in Bs}
  BY DEF LoadSplit
<1>7. weight' = [g \in DOMAIN ids |->
        LET b == CHOOSE c \in Bs : g \in c[1]..c[2]
            k == g - b[1] + 1
        IN  IF k \in kept[b] THEN PushinWeight(Cardinality(kept[b]), k - Min(kept[b]) + 1) ELSE 0]
  BY DEF LoadSplit
<1>8. DOMAIN weight' = 1..N
  BY <1>1, <1>7
<1> HIDE DEF ids, Bs, kept, K, N
<1>9. ASSUME NEW e \in Full(d), NEW k \in 1..Len(d[e].time)
      PROVE  /\ Before(d, e) + k \in keep' <=> k \in K(e)
             /\ weight'[Before(d, e) + k] =
                  IF k \in K(e) THEN PushinWeight(Cardinality(K(e)), k - Min(K(e)) + 1) ELSE 0
  <2> DEFINE g == Before(d, e) + k
  <2>1. g \in 1..N /\ Before(d, e) \in Nat /\ Len(d[e].time) \in Nat \ {0}
    BY <1>3
  <2>2. ASSUME NEW f \in Full(d), g \in (Before(d, f) + 1)..(Before(d, f) + Len(d[f].time))
        PROVE  f = e
    <3>1. Before(d, f) \in Nat /\ Len(d[f].time) \in Nat \ {0}
      BY <1>3
    <3>2. g - Before(d, f) \in 1..Len(d[f].time) /\ g = Before(d, f) + (g - Before(d, f))
      BY <2>1, <2>2, <3>1
    <3>3. QED
      BY <1>3, <3>2
  <2>3. g \in keep' <=> k \in K(e)
    <3>1. ASSUME k \in K(e)
          PROVE  g \in keep'
      <4>1. B(e) \in Bs /\ kept[B(e)] = K(e)
        BY <1>5
      <4>2. g = B(e)[1] - 1 + k
        BY <2>1
      <4>3. QED
        BY <1>6, <3>1, <4>1, <4>2
    <3>2. ASSUME g \in keep'
          PROVE  k \in K(e)
      <4>1. PICK b \in Bs : \E j \in kept[b] : g = b[1] - 1 + j
        BY <1>6, <3>2
      <4>2. PICK f \in Full(d) : b = B(f)
        BY <1>2, <4>1
      <4>3. PICK j \in K(f) : g = B(f)[1] - 1 + j
        BY <1>5, <4>1, <4>2
      <4>4. j \in 1..Len(d[f].time) /\ Before(d, f) \in Nat /\ Len(d[f].time) \in Nat \ {0}
        BY <1>3, <1>4
      <4>5. g = Before(d, f) + j
        BY <4>3, <4>4
      <4>6. f = e /\ j = k
        BY <1>3, <4>4, <4>5
      <4>7. QED
        BY <4>6
    <3>3. QED
      BY <3>1, <3>2
  <2>4. (CHOOSE c \in Bs : g \in c[1]..c[2]) = B(e)
    <3>1. B(e) \in Bs /\ g \in B(e)[1]..B(e)[2]
      <4>1. B(e) \in Bs
        BY <1>5
      <4>2. g \in (Before(d, e) + 1)..(Before(d, e) + Len(d[e].time))
        BY <2>1
      <4>3. QED
        BY <4>1, <4>2
    <3>2. ASSUME NEW c \in Bs, g \in c[1]..c[2]
          PROVE  c = B(e)
      <4>1. PICK f \in Full(d) : c = B(f)
        BY <1>2
      <4>2. g \in (Before(d, f) + 1)..(Before(d, f) + Len(d[f].time))
        BY <3>2, <4>1
      <4>3. QED
        BY <2>2, <4>1, <4>2
    <3> HIDE DEF g, B
    <3>3. QED
      BY <3>1, <3>2
  <2>5. g - B(e)[1] + 1 = k
    BY <2>1
  <2>6. g \in DOMAIN ids
    BY <1>1, <2>1 DEF ids, N
  <2>7. kept[B(e)] = K(e)
    BY <1>5
  <2>8. weight'[g] = LET b == CHOOSE c \in Bs : g \in c[1]..c[2]
                         l == g - b[1] + 1
                     IN  IF l \in kept[b]
                         THEN PushinWeight(Cardinality(kept[b]), l - Min(kept[b]) + 1) ELSE 0
    <3> HIDE DEF g
    <3>1. QED
      BY <1>7, <2>6
  <2>9. weight'[g] = IF k \in K(e) THEN PushinWeight(Cardinality(K(e)), k - Min(K(e)) + 1) ELSE 0
    <3> HIDE DEF g, B
    <3>1. QED
      BY <2>4, <2>5, <2>7, <2>8, Zenon
  <2>10. QED
    BY <2>3, <2>9
<1>10. QED
  BY <1>8, <1>9 DEF K, N

\* A frame has a weight just if it is kept.
LEMMA WeightedIsKept ==
  ASSUME NEW d, Split(d), LoadSplit(d), lastInch
  PROVE  \A g \in DOMAIN weight' : weight'[g] > 0 <=> g \in keep'
<1> SUFFICES ASSUME NEW g \in DOMAIN weight'
             PROVE  weight'[g] > 0 <=> g \in keep'
  OBVIOUS
<1>1. PICK e \in Full(d) : \E k \in 1..Len(d[e].time) : g = Before(d, e) + k
  <2>1. g \in 1..(Len(d[1].time) + Second(d))
    BY LoadedBlocks
  <2>2. QED
    BY <2>1, BlocksPartition
<1>2. PICK k \in 1..Len(d[e].time) : g = Before(d, e) + k
  BY <1>1
<1> DEFINE K == LastInchWindow(d[e].moves, d[e].seat)
<1>3. /\ g \in keep' <=> k \in K
      /\ weight'[g] = IF k \in K THEN PushinWeight(Cardinality(K), k - Min(K) + 1) ELSE 0
  BY <1>2, LoadedBlocks
<1>4. ASSUME k \in K
      PROVE  PushinWeight(Cardinality(K), k - Min(K) + 1) \in Nat \ {0}
  <2>1. e \in DOMAIN d /\ d[e].time # <<>>
    BY DEF Full
  <2>2. /\ d[e].moves \in Seq(BOOLEAN) /\ Len(d[e].moves) = Len(d[e].time) /\ d[e].seat \in Nat
        /\ Len(d[e].time) >= 1 /\ Len(d[e].time) \in Nat
    BY <2>1, SplitTypes
  <2> DEFINE stop == LastInchStop(d[e].moves, d[e].seat)
  <2> HIDE DEF stop
  <2>3. stop \in 1..Len(d[e].time) /\ \E start \in 1..stop : K = start..stop
    BY <2>2, LastInchIsInterval DEF stop
  <2>4. PICK start \in 1..stop : K = start..stop
    BY <2>3
  <2>5. start \in Nat /\ stop \in Nat /\ start >= 1 /\ start <= stop
    BY <2>2, <2>3
  <2>6. Min(start..stop) = start /\ Cardinality(start..stop) = stop - start + 1
    BY <2>5, IntervalEnds
  <2>7. k \in start..stop
    BY <1>4, <2>4
  <2>8. k - start + 1 \in 1..(stop - start + 1) /\ stop - start + 1 \in Nat \ {0}
    BY <2>5, <2>7
  <2>9. PushinWeight(stop - start + 1, k - start + 1) \in Nat \ {0}
    BY <2>8, WeightsRise
  <2>10. QED
    BY <2>4, <2>6, <2>9
<1> HIDE DEF K
<1>5. CASE k \in K
  <2>1. weight'[g] \in Nat \ {0}
    BY <1>3, <1>4, <1>5
  <2>2. QED
    BY <1>3, <1>5, <2>1
<1>6. CASE k \notin K
  BY <1>3, <1>6
<1>7. QED
  BY <1>5, <1>6

\* What an episode is, as recorded or turned around.
EpisodeInv ==
  LET n == Len(ep1.time) IN
  /\ ep1 \in [src : Seq(Nat), time : Seq(Nat), moves : Seq(BOOLEAN), seat : Nat]
  /\ n \in Nat \ {0} /\ Len(ep1.src) = n /\ Len(ep1.moves) = n
  /\ \A j, k \in 1..n : j < k => ep1.time[j] < ep1.time[k]
  /\ turned => ep1.seat = n /\ \A j, k \in 1..n : j < k => ep1.src[j] > ep1.src[k]
  /\ ~turned => /\ \A j, k \in 1..n : j < k => ep1.src[j] < ep1.src[k]
                /\ seatAt = 0 => ep1.seat = 0
                /\ seatAt # 0 => /\ ep1.seat \in 1..n
                                 /\ \A k \in 1..n : Away(ep1.src[ep1.seat], seatAt)
                                                      <= Away(ep1.src[k], seatAt)

EpisodesInv ==
  /\ made \in {"bag", "frames", "empty", "loaded"} /\ turned \in BOOLEAN
  /\ ctrl \in Seq({"none", "still", "moving"}) /\ seatAt \in Nat
  /\ made = "bag" => ~turned
  /\ made \in {"frames", "loaded"} => EpisodeInv
  /\ DemoEndsAtSeat

LEMMA EpisodesStarts == EpisodesInit => EpisodesInv
<1>1. made = "bag" => DemoEndsAtSeat
  BY DEF DemoEndsAtSeat
<1>2. <<>> \in Seq({"none", "still", "moving"})
  OBVIOUS
<1>3. ASSUME EpisodesInit
      PROVE  made = "bag" /\ ctrl = <<>> /\ seatAt = 0 /\ turned = FALSE
  BY <1>3 DEF EpisodesInit
<1>4. QED
  BY <1>1, <1>2, <1>3 DEF EpisodesInv

LEMMA ProcessingMakes ==
  ASSUME EpisodesInv, NEW first, NEW last, NEW event \in Nat, ProcessBag(first, last, event)
  PROVE  EpisodesInv'
<1> DEFINE f == Synchronized(first, TaskWindowEnd(first, last))
           n == Len(f)
           m == [k \in DOMAIN f |-> ctrl[Nearest(States, f[k])] = "moving"]
<1>1. Len(ctrl) \in Nat /\ ~turned /\ turned \in BOOLEAN
  BY DEF EpisodesInv, ProcessBag
<1>2. Rising(f, Len(ctrl))
  BY <1>1, SynchronizedRises
<1>3. /\ ep1' = [src |-> f, time |-> f, moves |-> m, seat |-> SeatFrame(f, event)]
      /\ made' = (IF f = <<>> THEN "empty" ELSE "frames") /\ seatAt' = event /\ ctrl' = <<>>
      /\ turned' = turned
  BY DEF ProcessBag
<1> HIDE DEF f
<1>4. f \in Seq(Nat) /\ DOMAIN f = 1..n /\ n \in Nat /\ \A j, k \in 1..n : j < k => f[j] < f[k]
  <2>1. f \in Seq(1..Len(ctrl)) /\ \A j, k \in 1..n : j < k => f[j] < f[k]
    BY <1>2 DEF Rising
  <2>2. \A k \in 1..n : f[k] \in Nat
    BY <1>1, <2>1
  <2>3. QED
    BY <2>1, <2>2, SeqDef
<1>5. m \in Seq(BOOLEAN) /\ Len(m) = n
  <2>1. m \in [1..n -> BOOLEAN]
    BY <1>4
  <2>2. QED
    BY <1>4, <2>1
<1>6. ASSUME f # <<>>
      PROVE  EpisodeInv'
  <2>1. n # 0
    BY <1>4, <1>6, EmptySeq
  <2>2. /\ event = 0 => SeatFrame(f, event) = 0
        /\ event # 0 => /\ SeatFrame(f, event) \in 1..n
                        /\ \A k \in 1..n : Away(f[SeatFrame(f, event)], event) <= Away(f[k], event)
    <3>1. event = 0 => SeatFrame(f, event) = 0
      BY DEF SeatFrame
    <3>2. QED
      BY <3>1, <1>4, <1>6, SeatIsNearest
  <2> HIDE DEF m, n
  <2>3. SeatFrame(f, event) \in Nat
    BY <1>4, <2>2
  <2>4. ep1' \in [src : Seq(Nat), time : Seq(Nat), moves : Seq(BOOLEAN), seat : Nat]
    BY <1>3, <1>4, <1>5, <2>3
  <2>5. ep1'.src = f /\ ep1'.time = f /\ ep1'.moves = m /\ ep1'.seat = SeatFrame(f, event)
    BY <1>3
  <2>6. QED
    BY <1>1, <1>3, <1>4, <1>5, <2>1, <2>2, <2>4, <2>5 DEF EpisodeInv, n
<1>7. QED
  BY <1>1, <1>3, <1>6 DEF EpisodesInv, DemoEndsAtSeat

\* Turned around, the last frame is the one at the port.
LEMMA ReversingTurns ==
  ASSUME EpisodesInv, ReverseEpisode
  PROVE  EpisodesInv'
<1> DEFINE n == Len(ep1.time)
           s == Reverse(ep1.src)
           t == RebuildTimestamps(ep1.time)
           m == Reverse(ep1.moves)
<1>1. /\ ep1.src \in Seq(Nat) /\ ep1.time \in Seq(Nat) /\ ep1.moves \in Seq(BOOLEAN)
      /\ n \in Nat \ {0} /\ Len(ep1.src) = n /\ Len(ep1.moves) = n
      /\ \A j, k \in 1..n : j < k => ep1.time[j] < ep1.time[k] /\ ep1.src[j] < ep1.src[k]
  <2>1. EpisodeInv /\ ~turned
    BY DEF EpisodesInv, ReverseEpisode
  <2>2. QED
    BY <2>1 DEF EpisodeInv
<1>2. /\ ep1' = [src |-> s, time |-> t, moves |-> m, seat |-> n]
      /\ turned' = TRUE /\ made' = "frames" /\ ctrl' = ctrl /\ seatAt' = seatAt
  BY DEF ReverseEpisode, ReversedSeatIndex
<1>3. s = [k \in 1..n |-> ep1.src[n - k + 1]] /\ m = [k \in 1..n |-> ep1.moves[n - k + 1]]
  BY <1>1 DEF Reverse
<1>4. t = [k \in 1..n |-> ep1.time[1] + (ep1.time[n] - ep1.time[n + 1 - k])]
  <2>1. DOMAIN ep1.time = 1..n /\ Last(ep1.time) = ep1.time[n]
    BY <1>1 DEF Last
  <2>2. QED
    BY <2>1, Zenon DEF RebuildTimestamps
<1> HIDE DEF n, s, t, m
<1>5. \A k \in 1..n : n - k + 1 \in 1..n /\ n + 1 - k \in 1..n
  BY <1>1
<1>6. \A k \in 1..n : ep1.src[k] \in Nat /\ ep1.time[k] \in Nat /\ ep1.moves[k] \in BOOLEAN
  BY <1>1, ElementOfSeq DEF n
<1>7. s \in Seq(Nat) /\ Len(s) = n /\ m \in Seq(BOOLEAN) /\ Len(m) = n
  <2>1. s \in [1..n -> Nat] /\ m \in [1..n -> BOOLEAN]
    BY <1>3, <1>5, <1>6
  <2>2. QED
    BY <1>1, <2>1
<1>8. t \in Seq(Nat) /\ Len(t) = n
  <2>1. \A k \in 1..n : ep1.time[n + 1 - k] <= ep1.time[n]
    <3> TAKE k \in 1..n
    <3>1. n \in 1..n /\ n + 1 - k \in 1..n /\ (n + 1 - k < n \/ n + 1 - k = n)
      BY <1>1, <1>5
    <3>2. ep1.time[n] \in Nat /\ ep1.time[n + 1 - k] \in Nat
      BY <1>6, <3>1
    <3>3. n + 1 - k < n => ep1.time[n + 1 - k] < ep1.time[n]
      BY <1>1, <3>1
    <3>4. QED
      BY <3>1, <3>2, <3>3
  <2>2. \A k \in 1..n : ep1.time[1] + (ep1.time[n] - ep1.time[n + 1 - k]) \in Nat
    <3> TAKE k \in 1..n
    <3>1. 1 \in 1..n /\ n \in 1..n /\ n + 1 - k \in 1..n
      BY <1>1, <1>5
    <3>2. ep1.time[1] \in Nat /\ ep1.time[n] \in Nat /\ ep1.time[n + 1 - k] \in Nat
      BY <1>6, <3>1
    <3>3. QED
      BY <2>1, <3>2
  <2>3. t \in [1..n -> Nat]
    BY <1>4, <2>2
  <2>4. QED
    BY <1>1, <2>3
<1>9. ASSUME NEW j \in 1..n, NEW k \in 1..n, j < k
      PROVE  s[j] > s[k] /\ t[j] < t[k]
  <2> DEFINE a == n - k + 1  b == n - j + 1
  <2>0. n \in Nat
    BY <1>1
  <2>1. a \in 1..n /\ b \in 1..n /\ a < b /\ n + 1 - k = a /\ n + 1 - j = b
    BY <2>0, <1>9
  <2>2. s[j] = ep1.src[b] /\ s[k] = ep1.src[a]
    BY <1>3
  <2> HIDE DEF a, b
  <2>3. /\ t[j] = ep1.time[1] + (ep1.time[n] - ep1.time[b])
        /\ t[k] = ep1.time[1] + (ep1.time[n] - ep1.time[a])
    BY <1>4, <2>1
  <2>4. ep1.src[a] < ep1.src[b] /\ ep1.time[a] < ep1.time[b]
    BY <1>1, <2>1
  <2>5. /\ ep1.time[1] \in Nat /\ ep1.time[n] \in Nat /\ ep1.time[a] \in Nat /\ ep1.time[b] \in Nat
        /\ ep1.src[a] \in Nat /\ ep1.src[b] \in Nat
    BY <1>1, <1>6, <2>1
  <2>6. QED
    BY <2>2, <2>3, <2>4, <2>5
<1>10. EpisodeInv'
  <2>1. ep1' \in [src : Seq(Nat), time : Seq(Nat), moves : Seq(BOOLEAN), seat : Nat]
    BY <1>1, <1>2, <1>7, <1>8
  <2>2. ep1'.src = s /\ ep1'.time = t /\ ep1'.moves = m /\ ep1'.seat = n
    BY <1>2
  <2>3. QED
    BY <1>1, <1>2, <1>7, <1>8, <1>9, <2>1, <2>2 DEF EpisodeInv
<1>11. QED
  BY <1>2, <1>10 DEF EpisodesInv, DemoEndsAtSeat

\* Wherever the episode is in the split.
LEMMA LoadingEndsAtSeat ==
  ASSUME EpisodesInv, NEW d, Split(d), LoadSplit(d),
         \E p \in DOMAIN d : d[p] = ep1
  PROVE  EpisodesInv'
<1> DEFINE n == Len(ep1.time)
           p == IF d[1] = ep1 THEN 1 ELSE 2
           off == Before(d, p)
           K == {k \in 1..n : Offset1(ep1)' + k \in keep'}
<1>1. EpisodeInv /\ ds' = d /\ UNCHANGED <<ctrl, seatAt, ep1, turned, lastInch>> /\ made' = "loaded"
  BY DEF EpisodesInv, LoadSplit
<1>2. EpisodeInv'
  BY <1>1 DEF EpisodeInv
<1>3. /\ n \in Nat \ {0} /\ ep1.moves \in Seq(BOOLEAN) /\ Len(ep1.moves) = n /\ ep1.seat \in Nat
      /\ ep1.src \in Seq(Nat) /\ Len(ep1.src) = n /\ ep1.time \in Seq(Nat)
      /\ \A j, k \in 1..n : j < k => ep1.time[j] < ep1.time[k]
      /\ turned \in BOOLEAN /\ seatAt \in Nat
  BY <1>1 DEF EpisodeInv, EpisodesInv
<1>4. p \in DOMAIN d /\ d[p] = ep1
  <2>1. DOMAIN d = 1..Len(d) /\ Len(d) \in {1, 2}
    BY SplitTypes
  <2>2. DOMAIN d \subseteq {1, 2} /\ 1 \in DOMAIN d
    BY <2>1
  <2>3. PICK q \in DOMAIN d : d[q] = ep1
    OBVIOUS
  <2>4. q = 1 \/ q = 2
    BY <2>2, <2>3
  <2>5. QED
    BY <2>2, <2>3, <2>4
<1>5. p \in Full(d)
  <2>1. d[p].time # <<>>
    BY <1>3, <1>4
  <2>2. QED
    BY <1>4, <2>1 DEF Full
<1>6. Offset1(ep1)' = off
  BY <1>1 DEF Offset1, Before
<1> HIDE DEF p
<1>7. ASSUME lastInch
      PROVE  DemoEndsAtSeat'
  <2> DEFINE W == LastInchWindow(ep1.moves, ep1.seat)
             stop == LastInchStop(ep1.moves, ep1.seat)
  <2>1. \A k \in 1..n : /\ off + k \in keep' <=> k \in W
                        /\ weight'[off + k] = IF k \in W
                             THEN PushinWeight(Cardinality(W), k - Min(W) + 1) ELSE 0
    BY <1>4, <1>5, <1>7, LoadedBlocks
  <2>2. stop \in 1..n /\ \E start \in 1..stop :
                           W = start..stop /\ (start = 1 \/ stop - start + 1 >= MinFrames)
    <3>1. Len(ep1.moves) = n /\ Len(ep1.moves) >= 1
      BY <1>3
    <3> HIDE DEF stop, n
    <3>2. /\ stop \in 1..Len(ep1.moves)
          /\ \E start \in 1..stop : W = start..stop /\ (start = 1 \/ stop - start + 1 >= MinFrames)
      BY <1>3, <3>1, LastInchIsInterval DEF stop
    <3>3. QED
      BY <3>1, <3>2
  <2> HIDE DEF stop
  <2>3. PICK start \in 1..stop : W = start..stop /\ (start = 1 \/ stop - start + 1 >= MinFrames)
    BY <2>2
  <2>4. start \in 1..n /\ stop \in 1..n /\ start <= stop /\ start \in Nat /\ stop \in Nat
    BY <1>3, <2>2, <2>3
  <2>5. K = start..stop
    <3>1. \A k \in 1..n : k \in K <=> k \in W
      BY <1>6, <2>1
    <3>2. W \subseteq 1..n
      BY <1>3, <2>3, <2>4
    <3> HIDE DEF W
    <3>3. K \subseteq 1..n
      OBVIOUS
    <3> HIDE DEF K
    <3>4. QED
      BY <2>3, <3>1, <3>2, <3>3
  <2>6. Min(start..stop) = start /\ Max(start..stop) = stop /\ Cardinality(start..stop) = stop - start + 1
    BY <2>4, IntervalEnds
  <2>7. stop \in W /\ weight'[off + stop] = PushinWeight(stop - start + 1, stop - start + 1)
    BY <2>1, <2>3, <2>4, <2>6
  <2>8. RampFrames > 0 => weight'[off + stop] = WMax
    <3>1. stop - start + 1 \in Nat \ {0} /\ stop - start + 1 \in 1..(stop - start + 1)
      BY <2>4
    <3>2. QED
      BY <2>7, <3>1, WeightsRise
  <2>9. \A g \in DOMAIN weight' : weight'[g] > 0 <=> g \in keep'
    BY <1>7, WeightedIsKept
  <2>10. ~turned /\ seatAt # 0 => \A k \in 1..n : Away(ep1.src[stop], seatAt) <= Away(ep1.src[k], seatAt)
    <3> SUFFICES ASSUME ~turned, seatAt # 0
                 PROVE  \A k \in 1..n : Away(ep1.src[stop], seatAt) <= Away(ep1.src[k], seatAt)
      OBVIOUS
    <3>1. /\ ep1.seat \in 1..n
          /\ \A k \in 1..n : Away(ep1.src[ep1.seat], seatAt) <= Away(ep1.src[k], seatAt)
      BY <1>1 DEF EpisodeInv
    <3>2. stop = ep1.seat
      BY <1>3, <3>1 DEF stop, LastInchStop, Smaller
    <3>3. QED
      BY <3>1, <3>2
  <2>11. ~turned /\ seatAt = 0 => \A k \in 1..n : k > stop => ~ep1.moves[k]
    <3> SUFFICES ASSUME ~turned, seatAt = 0
                 PROVE  \A k \in 1..n : k > stop => ~ep1.moves[k]
      OBVIOUS
    <3>1. ep1.seat = 0
      BY <1>1 DEF EpisodeInv
    <3>2. stop = TailTrimLength(ep1.moves, 0)
      BY <3>1 DEF stop, LastInchStop
    <3>3. CASE \E j \in 1..n : ep1.moves[j]
      <4>1. Len(ep1.moves) = n /\ Len(ep1.moves) >= 1
        BY <1>3
      <4> HIDE DEF n
      <4>2. \A k \in 1..Len(ep1.moves) : k > TailTrimLength(ep1.moves, 0) => ~ep1.moves[k]
        BY <1>3, <3>3, <4>1, TailMoves
      <4>3. QED
        BY <3>2, <4>1, <4>2
    <3>4. CASE ~\E j \in 1..n : ep1.moves[j]
      BY <3>4
    <3>5. QED
      BY <3>3, <3>4
  <2>12. turned => \A k \in start..stop, j \in (1..n) \ (start..stop) : ep1.src[k] < ep1.src[j]
    <3> SUFFICES ASSUME turned, NEW k \in start..stop, NEW j \in (1..n) \ (start..stop)
                 PROVE  ep1.src[k] < ep1.src[j]
      OBVIOUS
    <3>1. ep1.seat = n /\ \A a, b \in 1..n : a < b => ep1.src[a] > ep1.src[b]
      BY <1>1 DEF EpisodeInv
    <3>2. stop = n
      BY <1>3, <3>1 DEF stop, LastInchStop, Smaller
    <3>3. k \in 1..n /\ j \in 1..n /\ j < k
      BY <1>3, <2>4, <3>2
    <3>4. ep1.src[j] > ep1.src[k] /\ ep1.src[j] \in Nat /\ ep1.src[k] \in Nat
      BY <1>3, <3>1, <3>3, ElementOfSeq
    <3>5. QED
      BY <3>4
  <2>13. start..stop # {} /\ (Cardinality(start..stop) >= MinFrames \/ Min(start..stop) = 1)
    <3>1. start \in start..stop
      BY <2>4
    <3>2. start = 1 \/ stop - start + 1 >= MinFrames
      BY <2>3
    <3> HIDE DEF W, K, n, off
    <3>3. QED
      BY <2>6, <3>1, <3>2
  <2> HIDE DEF K, off, W, n
  <2>14. /\ K # {} /\ Min(K)..Max(K) = K
         /\ Cardinality(K) >= MinFrames \/ Min(K) = 1
         /\ ~turned /\ seatAt # 0 =>
              \A k \in 1..n : Away(ep1.src[Max(K)], seatAt) <= Away(ep1.src[k], seatAt)
         /\ ~turned /\ seatAt = 0 => \A k \in 1..n : k > Max(K) => ~ep1.moves[k]
         /\ turned => \A k \in K, j \in (1..n) \ K : ep1.src[k] < ep1.src[j]
         /\ \A j, k \in 1..n : j < k => ep1.time[j] < ep1.time[k]
         /\ \A g \in DOMAIN weight' : weight'[g] > 0 <=> g \in keep'
         /\ RampFrames > 0 => weight'[off + Max(K)] = WMax
    BY <1>3, <2>5, <2>6, <2>8, <2>9, <2>10, <2>11, <2>12, <2>13
  <2>15. QED
    BY <1>1, <1>6, <2>14, Zenon DEF DemoEndsAtSeat, K, n
<1>8. ASSUME ~lastInch
      PROVE  DemoEndsAtSeat'
  BY <1>1, <1>8 DEF DemoEndsAtSeat
<1>9. QED
  BY <1>1, <1>2, <1>7, <1>8 DEF EpisodesInv

LEMMA EpisodesStep == EpisodesInv /\ [EpisodesNext]_episodesVars => EpisodesInv'
<1> SUFFICES ASSUME EpisodesInv, [EpisodesNext]_episodesVars
             PROVE  EpisodesInv'
  OBVIOUS
<1>1. CASE UNCHANGED episodesVars
  BY <1>1 DEF episodesVars, EpisodesInv, EpisodeInv, DemoEndsAtSeat, Offset1
<1>2. ASSUME NEW c \in {"none", "still", "moving"}, RecordTick(c)
      PROVE  EpisodesInv'
  BY <1>2 DEF RecordTick, EpisodesInv, DemoEndsAtSeat
<1>3. ASSUME NEW first \in 0..BagTicks, NEW last \in 0..BagTicks, NEW event \in 0..BagTicks,
             ProcessBag(first, last, event)
      PROVE  EpisodesInv'
  <2>1. event \in Nat
    BY EpisodesAssumption
  <2>2. QED
    BY <1>3, <2>1, ProcessingMakes
<1>4. CASE ReverseEpisode
  BY <1>4, ReversingTurns
<1>5. ASSUME NEW d, LoadSplit(d), d = <<ep1>> \/ \E e \in Neighbours : d = <<e, ep1>> \/ d = <<ep1, e>>
      PROVE  EpisodesInv'
  <2> DEFINE T == [src : Seq(Nat), time : Seq(Nat), moves : Seq(BOOLEAN), seat : Nat]
             G(e) == e \in T /\ Len(e.moves) = Len(e.time)
  <2>1. G(ep1)
    BY <1>5 DEF EpisodesInv, EpisodeInv, LoadSplit
  <2>2. \A e \in Neighbours : G(e)
    BY EpisodesAssumption
  <2>3. \A e : G(e) => Split(<<e>>)
    BY DEF Split
  <2>4. \A e, f : G(e) /\ G(f) => Split(<<e, f>>)
    BY DEF Split
  <2> HIDE DEF G
  <2>5. Split(d) /\ \E p \in DOMAIN d : d[p] = ep1
    <3>1. CASE d = <<ep1>>
      <4>1. 1 \in DOMAIN d /\ d[1] = ep1
        BY <3>1
      <4>2. QED
        BY <2>1, <2>3, <3>1, <4>1
    <3>2. ASSUME NEW e \in Neighbours, d = <<e, ep1>> \/ d = <<ep1, e>>
          PROVE  Split(d) /\ \E p \in DOMAIN d : d[p] = ep1
      <4>1. (1 \in DOMAIN d /\ d[1] = ep1) \/ (2 \in DOMAIN d /\ d[2] = ep1)
        BY <3>2
      <4>2. Split(d)
        BY <2>1, <2>2, <2>4, <3>2
      <4>3. QED
        BY <4>1, <4>2
    <3>3. QED
      BY <1>5, <3>1, <3>2
  <2>6. QED
    BY <1>5, <2>5, LoadingEndsAtSeat
<1>6. QED
  BY <1>1, <1>2, <1>3, <1>4, <1>5 DEF EpisodesNext

\* A demo ends at its seat and a reversed retract at the port, for bags and
\* episodes of any length, however the streams are cut and synchronized, and
\* whichever other episode is loaded before or after it.
THEOREM DemosEndAtSeat == EpisodesSpec => []DemoEndsAtSeat
<1>1. EpisodesInv => DemoEndsAtSeat
  BY DEF EpisodesInv
<1>2. QED
  BY <1>1, EpisodesStarts, EpisodesStep, PTL DEF EpisodesSpec

-----------------------------------------------------------------------------
(* The tools together *)

\* A run of the pipeline is a run of each of its tools: the one that runs
\* takes its steps, and the others stay where they started.
THEOREM ToolsRunAlone ==
  PipelineSpec => CollectionSpec /\ RelabelSpec /\ EpisodesSpec /\ TrainingSpec /\ SweepSpec /\ SuiteSpec
<1>1. PipelineInit => CollectionInit /\ RelabelInit /\ EpisodesInit /\ TrainingInit /\ SweepInit /\ SuiteInit
  BY DEF PipelineInit
<1>2. ASSUME [PipelineNext]_pipelineVars
      PROVE  /\ [CollectionNext]_collectionVars /\ [RelabelNext]_relabelVars
             /\ [EpisodesNext]_episodesVars /\ [TrainingNext]_trainingVars
             /\ [SweepNext]_sweepVars /\ [SuiteNext]_suiteVars
  <2>1. CASE UNCHANGED pipelineVars
    BY <2>1 DEF pipelineVars
  <2>2. CASE Collecting
    BY <2>2 DEF Collecting, Alone, CollectionNext
  <2>3. CASE Faulting
    BY <2>3 DEF Faulting, Alone, CollectionNext
  <2>4. CASE Relabelling
    BY <2>4 DEF Relabelling, Alone
  <2>5. CASE Preparing
    BY <2>5 DEF Preparing, Alone
  <2>6. CASE TrainingUp
    BY <2>6 DEF TrainingUp, Alone
  <2>7. CASE Sweeping
    BY <2>7 DEF Sweeping, Alone
  <2>8. CASE Comparing
    BY <2>8 DEF Comparing, Alone
  <2>9. QED
    BY <1>2, <2>1, <2>2, <2>3, <2>4, <2>5, <2>6, <2>7, <2>8 DEF PipelineNext
<1>3. QED
  BY <1>1, <1>2, PTL DEF PipelineSpec, CollectionSpec, RelabelSpec, EpisodesSpec, TrainingSpec,
                         SweepSpec, SuiteSpec

\* So what was proved of one tool holds of the pipeline that is model-checked.
THEOREM PipelineSound ==
  PipelineSpec => [](KeptIsWhole /\ LabelsAreTrue /\ OfflineSeesTheStall /\ DemoEndsAtSeat
                       /\ CheckpointIsTrained /\ HalvingIsFair /\ SuiteIsFair)
                    /\ PortIsTrue
BY ToolsRunAlone, KeptWhole, LabelsTrue, OfflineAgrees, DemosEndAtSeat, CheckpointTrained, SweepIsFair,
   SuitesAreFair, PortLabelIsTrue, PTL
===============================================================================
