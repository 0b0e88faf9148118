------------------------------- MODULE Pipeline -------------------------------
(***************************************************************************)
(* The offline tools, from recorded bag to trained network, and the scenes *)
(* it is judged on.  They are programs of their own, which hand over       *)
(* files: a behaviour is a run of one of them, and the variables of the    *)
(* others keep an initial value.                                           *)
(***************************************************************************)
EXTENDS Collection, Relabel, Episodes, Training, Sweep, Suite

VARIABLE tool

pipelineVars ==
  <<tool, collectionVars, relabelVars, episodesVars, trainingVars, sweepVars, suiteVars>>

PipelineInit ==
  /\ CollectionInit /\ RelabelInit /\ EpisodesInit /\ TrainingInit /\ SweepInit /\ SuiteInit
  /\ tool \in {"collect", "relabel", "prepare", "train", "sweep", "suite"}
  /\ tool # "collect" => mode = CHOOSE m \in Modes : TRUE
  /\ tool # "relabel" => /\ portFrame = CHOOSE f \in FrameOptions : TRUE
                         /\ lag = CHOOSE l \in Lags : TRUE
  /\ tool # "prepare" => ~lastInch
  /\ tool # "train" => trainer = (CHOOSE t \in Trainers : TRUE) /\ ~ema
  /\ tool # "suite" => desk = "suite"

(* One tool runs, and keeps the variables of the others as they are. *)
Alone(t, step, others) == tool = t /\ step /\ UNCHANGED <<tool, others>>

Collecting == Alone("collect", CampaignStep,
  <<relabelVars, episodesVars, trainingVars, sweepVars, suiteVars>>)
Faulting == Alone("collect", ConverterFails \/ KillAndRestart,
  <<relabelVars, episodesVars, trainingVars, sweepVars, suiteVars>>)
Relabelling == Alone("relabel", RelabelNext,
  <<collectionVars, episodesVars, trainingVars, sweepVars, suiteVars>>)
Preparing == Alone("prepare", EpisodesNext,
  <<collectionVars, relabelVars, trainingVars, sweepVars, suiteVars>>)
TrainingUp == Alone("train", TrainingNext,
  <<collectionVars, relabelVars, episodesVars, sweepVars, suiteVars>>)
Sweeping == Alone("sweep", SweepNext,
  <<collectionVars, relabelVars, episodesVars, trainingVars, suiteVars>>)
Comparing == Alone("suite", SuiteNext,
  <<collectionVars, relabelVars, episodesVars, trainingVars, sweepVars>>)

PipelineNext ==
  \/ Collecting \/ Faulting \/ Relabelling \/ Preparing
  \/ TrainingUp \/ Sweeping \/ Comparing

(* The campaign's shell goes on to its next line; it may be killed, and its *)
(* converter may fail, but neither has to happen.                           *)
PipelineSpec ==
  PipelineInit /\ [][PipelineNext]_pipelineVars /\ WF_pipelineVars(Collecting)

=============================================================================
