-------------------------------- MODULE Files --------------------------------
(***************************************************************************)
(* The files the server keeps, as os.WriteFile, os.Create and os.Open show *)
(* them: a write first truncates the file (or creates it empty) and then   *)
(* fills it, so a crash or a failure in between leaves it Torn, and a      *)
(* reader may see it so.  The contents are the values of the modules that  *)
(* extend this one.                                                        *)
(***************************************************************************)
CONSTANTS
  Missing, Torn     \* contents of no file, and of an empty or cut off one

File == {"settings", "bans", "private", "public", "certificate", "certificateKey"}

VARIABLES
  disk,      \* file -> what it contains
  phase      \* of the process: "down", "defaults", "bans" (starting), "running"

Exists(f) == disk[f] # Missing

Truncate(f) == disk' = [disk EXCEPT ![f] = Torn]

Fill(f, content) == disk' = [disk EXCEPT ![f] = content]
=============================================================================
