--------------------------------- MODULE Sweep ---------------------------------
(***************************************************************************)
(* opt/sweep.py: successive halving over sampled configurations.  At every *)
(* rung each live trial is trained on from where it stopped, up to the     *)
(* rung's budget of epochs, and scored (lower is better); opt/asha.py says *)
(* what the budgets are and which trials go on.                            *)
(***************************************************************************)
EXTENDS Integers, Sequences, FiniteSets, FiniteSetsExt

CONSTANTS
  Trials,               \* n_configs: trials are numbered from 1
  MinEpochs, MaxEpochs, Eta,
  Scores                \* values of the validation error

ASSUME SweepAssumption ==
  /\ Trials \in Nat \ {0} /\ Scores \subseteq Nat
  /\ MinEpochs \in Nat \ {0} /\ MaxEpochs \in Nat /\ MinEpochs <= MaxEpochs
  /\ Eta \in Nat \ {0, 1}

(* A fact of arithmetic: TLC knows how to compute ^, the provers only its name. *)
ASSUME PowersAreNumbers == \A n \in 0..MaxEpochs : Eta^n \in Nat

VARIABLES
  phase,      \* "rung", "baseline", "reported"
  rung, turn, \* rung of the loop, trials of alive_ids already scored in it
  alive,      \* alive_ids
  trained,    \* epochs each model was trained for
  history,    \* score of each trial at each rung it reached
  leader      \* BEST of main

sweepVars == <<phase, rung, turn, alive, trained, history, leader>>

(* MinEpochs, times Eta while below MaxEpochs, and MaxEpochs itself. *)
RungBudgets ==
  LET small == {n \in 0..MaxEpochs : MinEpochs * Eta^n < MaxEpochs} IN
  [r \in 1..Cardinality(small) + 1 |->
     IF r <= Cardinality(small) THEN MinEpochs * Eta^(r - 1) ELSE MaxEpochs]

(* sorted is stable, and scores are entered in the order of the trials. *)
Better(s, a, b) == s[a] < s[b] \/ (s[a] = s[b] /\ a < b)

Survivors_Floor(s, ids) ==
  {t \in ids : Eta * Cardinality({u \in ids : ~Better(s, t, u)}) <= Cardinality(ids)}

Survivors(s, ids) ==
  {t \in ids : Eta * Cardinality({u \in ids : Better(s, u, t)}) < Cardinality(ids)}

SweepInit ==
  /\ phase = "rung" /\ rung = 1 /\ turn = {} /\ alive = 1..Trials
  /\ trained = [t \in 1..Trials |-> 0] /\ history = [t \in 1..Trials |-> <<>>]
  /\ leader = 0

LastScores(ids) == [t \in ids |-> history[t][Len(history[t])]]

(* The live trials take their turns in order. *)
TrainAndScore(e) ==
  LET t == Min(alive \ turn) IN
  /\ phase = "rung" /\ turn # alive
  /\ trained' = [trained EXCEPT ![t] =
                   @ + RungBudgets[rung] - (IF rung = 1 THEN 0 ELSE RungBudgets[rung - 1])]
  /\ history' = [history EXCEPT ![t] = Append(@, e)]
  /\ turn' = turn \cup {t}
  /\ UNCHANGED <<phase, rung, alive, leader>>

(* After the last rung nobody is dropped. *)
EndRung ==
  /\ phase = "rung" /\ turn = alive
  /\ IF rung < Len(RungBudgets)
     THEN alive' = Survivors(LastScores(alive), alive) /\ rung' = rung + 1 /\ phase' = "rung"
     ELSE phase' = "baseline" /\ UNCHANGED <<alive, rung>>
  /\ turn' = {}
  /\ UNCHANGED <<trained, history, leader>>

(* The baseline is trained and the leaderboard written; BEST is taken of    *)
(* all trials, those that stopped early included: the first of the least.   *)
Report ==
  LET last == LastScores(1..Trials) IN
  /\ phase = "baseline" /\ phase' = "reported"
  /\ leader' = CHOOSE t \in 1..Trials : \A u \in 1..Trials \ {t} : Better(last, t, u)
  /\ UNCHANGED <<rung, turn, alive, trained, history>>

SweepNext == (\E e \in Scores : TrainAndScore(e)) \/ EndRung \/ Report

SweepSpec == SweepInit /\ [][SweepNext]_sweepVars

-----------------------------------------------------------------------------
(* Properties *)

(* Halving is fair: a score stands for the epochs its rung promises, a      *)
(* trial that led its rung every time is trained to the end, one that was   *)
(* stopped had at least as many no worse ahead of it as went on, somebody   *)
(* always goes on, and a leader that was stopped early still scored no      *)
(* worse than every finalist.                                               *)
HalvingIsFair ==
  LET scoredAt(r) == {t \in 1..Trials : Len(history[t]) >= r} IN
  /\ \A t \in 1..Trials : history[t] # <<>> => trained[t] = RungBudgets[Len(history[t])]
  /\ alive # {}
  /\ \A t \in 1..Trials \ alive :
       LET r == Len(history[t])
           ahead == {u \in scoredAt(r) \ {t} : history[u][r] <= history[t][r]} IN
       /\ Eta * Cardinality(ahead) >= Cardinality(scoredAt(r))
       /\ \A u \in scoredAt(r + 1) \cup (IF rung = r + 1 THEN alive ELSE {}) : u \in ahead
  /\ phase # "rung" => \A t \in alive : trained[t] = MaxEpochs
  /\ phase = "reported" =>
       \A t \in alive : history[leader][Len(history[leader])] <= history[t][Len(history[t])]

=============================================================================
