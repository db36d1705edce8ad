------------------------------ MODULE MCSession ------------------------------
(* One run for two models that share nothing: model is chosen at the start  *)
(* and says which of them moves, the other stays in one initial state.      *)
(* Fairness is owed only to the model that moves.  The two grid sizes are   *)
(* interchangeable, so the window's first size may be either.               *)
EXTENDS MCTmuxViewer, MCReadPipeline

VARIABLE model

SessionInit ==
    /\ model \in {"viewer", "pipeline"}
    /\ Init /\ grid = small /\ (model # "viewer" => tmux.size = small)
    /\ PipelineInit

SessionNext ==
    \/ model = "viewer" /\ UNCHANGED <<model, pipelineVars>> /\ Next
    \/ model = "pipeline" /\ UNCHANGED <<model, vars>> /\ PipelineNext

SessionSpec ==
    /\ SessionInit /\ [][SessionNext]_<<model, vars, pipelineVars>>
    /\ WF_vars(model = "viewer" /\ TakeNotification)
    /\ WF_vars(model = "viewer" /\ EndBatch)
    /\ WF_vars(model = "viewer" /\ Execute)
    /\ WF_pipelineVars(model = "pipeline" /\ Gather)
    /\ WF_pipelineVars(model = "pipeline" /\ Reader)
=============================================================================
