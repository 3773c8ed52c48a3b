---------------------------- MODULE MCLifecycle ----------------------------
(* A small instance of Lifecycle for TLC. *)
EXTENDS LifecycleInvariant

\* The platform kills before the process gives up, as after the 10 seconds of
\* Cloud Run, or after it.
MCKillAfters == {1, 3}
=============================================================================
