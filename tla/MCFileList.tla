------------------------------ MODULE MCFileList ------------------------------
(* A model-checking instance of FileList: at most three files and folders,  *)
(* and a handful of requests; the values are in the .cfg files.              *)
EXTENDS FileList

=============================================================================
