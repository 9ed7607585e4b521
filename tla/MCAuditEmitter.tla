--------------------------- MODULE MCAuditEmitter ---------------------------
(* Small instances of AuditEmitter for TLC.                                *)
EXTENDS AuditEmitter
=============================================================================
