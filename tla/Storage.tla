------------------------------- MODULE Storage -------------------------------
(***************************************************************************)
(* The server and the files it keeps: it may crash between any two steps,  *)
(* the write of a file and its beginning included, and is started again.   *)
(***************************************************************************)
EXTENDS TokenKeys

\* Bound: which of the two groups of files changes in a behaviour.  What they
\* have in common, the settings a start reads and the crash, is in both.
VARIABLE group

vars == <<fileVars, keyVars, group>>

StorageTypeOK ==
  StateFilesTypeOK /\ TokenKeysTypeOK /\ group \in {"state", "keys"}

StorageInit ==
  /\ group \in {"state", "keys"}
  /\ StateFilesInit
  /\ TokenKeysInit

Crash == phase # "down" /\ Panic

StorageNext ==
  /\ \/ /\ FilesStep
        /\ group = "state" \/ phase # "running"
        /\ IF phase' = "down" THEN EndKeys ELSE UNCHANGED keyVars
     \/ group = "keys" /\ KeysStep
     \/ Crash
  /\ UNCHANGED group

StorageSpec == StorageInit /\ [][StorageNext]_vars
=============================================================================
