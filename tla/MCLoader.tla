------------------------------ MODULE MCLoader ------------------------------
(***************************************************************************)
(* The loader alone, with the files of LoaderFiles.                        *)
(***************************************************************************)
EXTENDS Loader, LoaderFiles
=============================================================================
