------------------------------ MODULE MCAccounts ------------------------------
(* Model-checking instances of Accounts: three addresses, two of which two   *)
(* accounts can hold while they move to the third.                           *)
EXTENDS Accounts

=============================================================================
