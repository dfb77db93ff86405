---------------------------- MODULE MCLifecycle -----------------------------
(* Lifecycle for TLC: the environments of the runs.                        *)
EXTENDS Lifecycle

Quiet == {}
Everything == EnvKinds
UserActs == {"user"}
=============================================================================
