-------------------------- MODULE MCExecLifecycle --------------------------
(* Instances of ExecLifecycle for TLC.                                      *)
EXTENDS ExecLifecycle
Everything == {"ignoresHup", "helperStays", "neverReads", "stuck", "changesUid"}
=============================================================================
