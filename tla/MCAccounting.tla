----------------------------- MODULE MCAccounting -----------------------------
(* Model-checking instances of Accounting: small accounts, whose quota a few   *)
(* uploads fill; the values are in the .cfg files.                             *)
EXTENDS Accounting

=============================================================================
