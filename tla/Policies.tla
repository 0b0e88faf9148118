------------------------------- MODULE Policies -------------------------------
(***************************************************************************)
(* The policy of a participant node: aic_model makes one policy object, of *)
(* the class its "policy" parameter names, and that object executes the    *)
(* goals of the node's life one after the other.                           *)
(***************************************************************************)
EXTENDS DeployACT, ScriptedPolicies

VARIABLE policy  \* "learned" (DeployACT) or "scripted"

policiesVars == <<policy, deployVars, scriptedVars>>

(* The policies that are not loaded stay at one arbitrary initial state. *)
PoliciesInit ==
  /\ DeployInit /\ ScriptedInit
  /\ \/ /\ policy = "learned" /\ port = "sfp" /\ seed = 0
        /\ sp = (CHOOSE p \in Policies : TRUE) /\ rows = (CHOOSE n \in RowCounts : TRUE)
     \/ policy = "scripted" /\ cfg = FromEnv(CHOOSE c \in Configs : TRUE)

LearnedGoal  == policy = "learned" /\ DeployNext /\ UNCHANGED <<policy, scriptedVars>>
ScriptedGoal == policy = "scripted" /\ ScriptedNext /\ UNCHANGED <<policy, deployVars>>

PoliciesNext == LearnedGoal \/ ScriptedGoal

PoliciesSpec == PoliciesInit /\ [][PoliciesNext]_policiesVars

=============================================================================
