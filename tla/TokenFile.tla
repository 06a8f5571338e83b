------------------------------ MODULE TokenFile ------------------------------
(***************************************************************************)
(* The token file of VTubeStudioClient.cpp: loadToken() and saveToken(),   *)
(* which writes a temporary file and renames it.  Between any two of these *)
(* steps the process may be killed; only the two files outlive it.         *)
(*                                                                         *)
(* A file is "none", "whole", "torn" (begun and never closed), or "short"  *)
(* (closed, but the close lost what was written); a torn or short one      *)
(* cannot be decrypted.  create_directories() and remove() are the         *)
(* overloads that throw (lines 122, 140, 167, 176): `throws` says whether  *)
(* an exception leaves the function.                                       *)
(***************************************************************************)

VARIABLES tokenFile, tmpFile,
          saving   \* next step of saveToken(), "no" outside it

fileVars == <<tokenFile, tmpFile, saving>>

Files == {"none", "whole", "torn", "short"}

FilesInit ==
  /\ tokenFile \in {"none", "whole"}
  /\ tmpFile = "none" /\ saving = "no"

(* Where the token cannot be decrypted the file is removed; a file that     *)
(* cannot be opened, or is empty, is left alone.                            *)
LoadToken(loaded, throws) ==
  /\ loaded => tokenFile = "whole" /\ ~throws
  /\ throws => tokenFile # "none"
  /\ tokenFile' \in IF loaded \/ throws THEN {tokenFile} ELSE {tokenFile, "none"}
  /\ UNCHANGED <<tmpFile, saving>>

RemoveTmp(throws) == tmpFile' = IF throws THEN tmpFile ELSE "none"

(* Mutant: the token is written in place. *)
TruncateInPlace == tokenFile' = "torn" /\ UNCHANGED tmpFile
Truncate        == tmpFile' = "torn" /\ UNCHANGED tokenFile

BeginSave(throws) ==
  /\ saving = "no"
  /\ \/ saving' = "no" /\ UNCHANGED <<tokenFile, tmpFile>>
     \/ ~throws /\ saving' = "write" /\ Truncate

WriteTmp(throws) ==
  /\ saving = "write"
  /\ \/ ~throws /\ saving' = "close" /\ UNCHANGED tmpFile
     \/ saving' = "no" /\ RemoveTmp(throws)
  /\ UNCHANGED tokenFile

(* good() was asked before the destructor flushes the file. *)
CloseTmp ==
  /\ saving = "close"
  /\ saving' = "rename"
  /\ tmpFile' \in {"whole", "short"}
  /\ UNCHANGED tokenFile

RenameTmp(throws) ==
  /\ saving = "rename"
  /\ saving' = "no"
  /\ \/ ~throws /\ tokenFile' = tmpFile /\ tmpFile' = "none"
     \/ UNCHANGED tokenFile /\ RemoveTmp(throws)

SaveStep(throws) == WriteTmp(throws) \/ (CloseTmp /\ ~throws) \/ RenameTmp(throws)

FilesTypeOK ==
  /\ {tokenFile, tmpFile} \subseteq Files
  /\ saving \in {"no", "write", "close", "rename"}

(* Atomic write-then-rename (VTubeStudioClient.cpp:41): over any kill and   *)
(* any failure the token is the old one, the new one or none, or what a     *)
(* close made of the new one, which saveToken() does not notice.            *)
TokenWhole == tokenFile # "torn"
=============================================================================
