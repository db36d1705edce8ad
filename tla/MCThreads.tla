------------------------------ MODULE MCThreads ------------------------------
(* One run for two models that share nothing: model is chosen at the start  *)
(* and says which of them moves, the other stays in one initial state.  The *)
(* properties of each are stated over its own variables, and fairness is    *)
(* owed only to the model that moves.  The two window sizes are             *)
(* interchangeable, so the first may be either.                             *)
EXTENDS MCWriterThread, MCExecLifecycle

VARIABLE model

ThreadsInit ==
    /\ model \in {"writer", "life"}
    /\ HubInit /\ winsize = 1
    /\ LifeInit /\ (model # "life" => habits = {})

ThreadsNext ==
    \/ model = "writer" /\ UNCHANGED <<model, lifeVars>> /\ HubNext
    \/ model = "life" /\ UNCHANGED <<model, hubVars>> /\ LifeNext

ThreadsSpec ==
    /\ ThreadsInit /\ [][ThreadsNext]_<<model, hubVars, lifeVars>>
    /\ WF_hubVars(model = "writer" /\ Loop)
    /\ WF_hubVars(model = "writer" /\ Tick)
    /\ WF_lifeVars(model = "life" /\ Writer)
    /\ SF_lifeVars(model = "life" /\ LoopEnds)
    /\ WF_lifeVars(model = "life" /\ Watcher)
    /\ WF_lifeVars(model = "life" /\ ReaderEnds)
    /\ WF_lifeVars(model = "life" /\ Joined)
    /\ WF_lifeVars(model = "life" /\ "stuck" \notin habits /\ Setsid)
    /\ WF_lifeVars(model = "life" /\ ChildHangsUp)
    /\ WF_lifeVars(model = "life" /\ InputRead)
    /\ WF_lifeVars(model = "life" /\ "helperStays" \notin habits /\ HelperExits)
=============================================================================
