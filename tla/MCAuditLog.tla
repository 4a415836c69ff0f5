------------------------------- MODULE MCAuditLog -------------------------------
(***************************************************************************)
(* Small instances of AuditLog: one process or two, two configurations.     *)
(***************************************************************************)
EXTENDS AuditLog

CONSTANTS serve, scan
=============================================================================
