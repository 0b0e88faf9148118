---------------------------- MODULE TrialServices ----------------------------
(***************************************************************************)
(* What serves a trial: the plugins that hold the cable, home the arm and  *)
(* watch its contacts, the adapter that makes observations, the recorder   *)
(* of the engine and the scores it computes.  Each meets the others only   *)
(* in calls and messages, which its module lets come at any moment: a      *)
(* behaviour is one of them at work, and the variables of the others keep  *)
(* an initial value.                                                       *)
(***************************************************************************)
EXTENDS OffLimitContacts, CablePlugin, ResetJointsPlugin, AicAdapter, Recorder, Scoring

VARIABLE service

servicesVars ==
  <<service, offLimitVars, cableVars, resetJointsVars, adapterVars, recorderVars, content>>

ServicesInit ==
  /\ OffLimitInit /\ CableInit /\ ResetJointsInit /\ AdapterInit
  /\ RecorderInit /\ ScoringInit
  /\ service \in {"contacts", "cable", "joints", "adapter", "recorder", "scores"}
  /\ service # "recorder" => published = Topic

\* One service is at work, and leaves the others as they are.
Only(s, step, others) == service = s /\ step /\ UNCHANGED <<service, others>>

WatchingContacts == Only("contacts", OffLimitNext,
  <<cableVars, resetJointsVars, adapterVars, recorderVars, content>>)
HoldingCable(step) == Only("cable", step,
  <<offLimitVars, resetJointsVars, adapterVars, recorderVars, content>>)
ResettingJoints(step) == Only("joints", step,
  <<offLimitVars, cableVars, adapterVars, recorderVars, content>>)
Observing == Only("adapter", AdapterNext,
  <<offLimitVars, cableVars, resetJointsVars, recorderVars, content>>)
Recording == Only("recorder", RecorderNext,
  <<offLimitVars, cableVars, resetJointsVars, adapterVars, content>>)
Scores == Only("scores", ScoringNext,
  <<offLimitVars, cableVars, resetJointsVars, adapterVars, recorderVars>>)

ServicesNext ==
  \/ WatchingContacts
  \/ HoldingCable(CableNext) \/ ResettingJoints(ResetJointsNext)
  \/ Observing
  \/ Recording \/ Scores

\* The simulator updates its plugins, and a thread that was called returns.
ServicesSpec ==
  /\ ServicesInit /\ [][ServicesNext]_servicesVars
  /\ \A c \in Cable : WF_servicesVars(HoldingCable(CablePreUpdate(c)))
  /\ WF_servicesVars(HoldingCable(TouchCallbackEnds))
  /\ WF_servicesVars(ResettingJoints(ResetJointsPreUpdate))
  /\ WF_servicesVars(ResettingJoints(Service))

=============================================================================
