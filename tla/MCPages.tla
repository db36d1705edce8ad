------------------------------- MODULE MCPages -------------------------------
(* One run for two models that share nothing: model is chosen at the start  *)
(* and says which of them moves, the other stays in one initial state.      *)
EXTENDS MCVtStream, MCPageList

VARIABLE model

PagesInit ==
    /\ model \in {"stream", "list"}
    /\ StreamInit
    /\ Init /\ (model # "list" => ~scrollback)

PagesNext ==
    \/ model = "stream" /\ UNCHANGED <<model, vars>> /\ StreamNext
    \/ model = "list" /\ UNCHANGED <<model, stream>> /\ Next

PagesSpec == PagesInit /\ [][PagesNext]_<<model, stream, vars>>
=============================================================================
