---------------------------- MODULE MCWorkspace ----------------------------
(* Two directories in the order of active_directories, one that a run      *)
(* fills first and one it fills last.                                      *)
EXTENDS Workspace

SomeDirectories == <<"tmp", "critique", "approved">>
=============================================================================
