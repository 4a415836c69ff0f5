----------------------------- MODULE MCScheduledScan -----------------------------
(***************************************************************************)
(* Small instances of ScheduledScan.                                        *)
(***************************************************************************)
EXTENDS ScheduledScan

\* Everything that may fail.
AnyStep == Steps \ {"idle", "gate", "exited", "done"}

\* A pod may be killed at any time.
Anywhere == Steps \ {"idle"}
=============================================================================
