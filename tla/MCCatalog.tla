------------------------------ MODULE MCCatalog ------------------------------
(* Model-checking instances of Catalog: small numbers of users, directories *)
(* and files; the values are in the .cfg files.                             *)
EXTENDS Catalog

=============================================================================
