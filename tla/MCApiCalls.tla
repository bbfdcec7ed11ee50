---------------------------- MODULE MCApiCalls ----------------------------
(* Small instances of ApiCalls: every call but storage_delete, whose row of *)
(* the table is that of storage_write.                                     *)
EXTENDS ApiCalls

MCAllCalls == DOMAIN Api \ {"storage_delete"}
=============================================================================
