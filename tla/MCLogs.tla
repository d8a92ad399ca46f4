------------------------------- MODULE MCLogs -------------------------------
(* Small instances of Logs for TLC.                                        *)
EXTENDS Logs
=============================================================================
