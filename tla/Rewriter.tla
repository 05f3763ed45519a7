------------------------------ MODULE Rewriter ------------------------------
(***************************************************************************)
(* src/rewriter/rewriter.js edits the source files of a directory in       *)
(* place: each file's new text is written beside it, the file becomes its  *)
(* own backup, and the new text takes its name.  A run may be killed at    *)
(* any point, and a call that fails ends the work on that file only.       *)
(*                                                                         *)
(* External: renames are atomic and replace what has the name; a write     *)
(* that is cut short leaves part of the text.                              *)
(***************************************************************************)
EXTENDS Naturals

CONSTANTS
  File,
  MaxBackups   \* bound on the backups made of one file

VARIABLES
  disk,     \* [file -> [name, new, bak -> Text]], name being the file itself
  queue,    \* files the run has not come to
  at,       \* the file being edited, and the next call
  backups   \* history: how often each file was made its backup

vars == <<disk, queue, at, backups>>

(* original, as the user wrote it; rewritten; part of one; no such file.   *)
Text == {"original", "rewritten", "part", "absent"}
Idle == [file |-> "none", call |-> "none"]

Init ==
  /\ disk = [f \in File |-> [name |-> "original", new |-> "absent", bak |-> "absent"]]
  /\ queue = {} /\ at = Idle /\ backups = [f \in File |-> 0]

(* Links are rewritten to https or lose their protocol; neither is edited  *)
(* again by a later run.                                                   *)
Rewritten(text) == IF text = "original" THEN "rewritten" ELSE text

(* The directory is listed; .new and .bak are not names of source files.   *)
processDir ==
  /\ queue = {} /\ at = Idle
  /\ queue' = {f \in File : disk[f].name # "absent"}
  /\ UNCHANGED <<disk, at, backups>>

Goto(f, call) == at' = [file |-> f, call |-> call]

(* processFile reads the file and begins to write the new text.            *)
BeginFile(f) ==
  /\ f \in queue /\ at = Idle
  /\ queue' = queue \ {f}
  /\ disk' = [disk EXCEPT ![f].new = "part"]
  /\ Goto(f, "write")
  /\ UNCHANGED backups

FinishWrite(f) ==
  /\ at = [file |-> f, call |-> "write"]
  /\ disk' = [disk EXCEPT ![f].new = Rewritten(disk[f].name)]
  /\ Goto(f, "back up")
  /\ UNCHANGED <<queue, backups>>

(* Fault: the new text takes the name before the old one is backed up.     *)
BackUpReplaced(f) ==
  /\ at = [file |-> f, call |-> "back up"] /\ backups[f] < MaxBackups
  /\ disk' = [disk EXCEPT ![f] = [name |-> "absent", new |-> @.new, bak |-> @.new]]
  /\ backups' = [backups EXCEPT ![f] = @ + 1]
  /\ Goto(f, "replace")
  /\ UNCHANGED queue

BackUp(f) ==
  /\ at = [file |-> f, call |-> "back up"] /\ backups[f] < MaxBackups
  /\ disk' = [disk EXCEPT ![f] = [name |-> "absent", new |-> @.new, bak |-> @.name]]
  /\ backups' = [backups EXCEPT ![f] = @ + 1]
  /\ Goto(f, "replace")
  /\ UNCHANGED queue

Replace(f) ==
  /\ at = [file |-> f, call |-> "replace"]
  /\ disk' = [disk EXCEPT ![f] = [name |-> @.new, new |-> "absent", bak |-> @.bak]]
  /\ at' = Idle
  /\ UNCHANGED <<queue, backups>>

(* The call throws: processDir logs it and goes on with the next file.     *)
CallFails ==
  /\ at # Idle /\ at' = Idle
  /\ UNCHANGED <<disk, queue, backups>>

Killed ==
  /\ queue # {} \/ at # Idle
  /\ queue' = {} /\ at' = Idle
  /\ UNCHANGED <<disk, backups>>

(* The user puts a backup back.                                            *)
Restore(f) ==
  /\ at.file # f /\ disk[f].name = "absent"
  /\ disk' = [disk EXCEPT ![f] = [name |-> @.bak, new |-> @.new, bak |-> "absent"]]
  /\ UNCHANGED <<queue, at, backups>>

Next ==
  \/ processDir \/ CallFails \/ Killed
  \/ \E f \in File : BeginFile(f) \/ FinishWrite(f) \/ BackUp(f) \/ Replace(f) \/ Restore(f)

Spec == Init /\ [][Next]_vars

-----------------------------------------------------------------------------
TypeOK ==
  /\ disk \in [File -> [{"name", "new", "bak"} -> Text]]
  /\ queue \subseteq File
  /\ at = Idle \/ at \in [file : File, call : {"write", "back up", "replace"}]
  /\ backups \in [File -> 0 .. MaxBackups]

(* Wherever runs are killed or fail, a file or its backup holds a whole    *)
(* text, no file ever holds part of one, and until the file is backed up a *)
(* second time one of the two holds the original (94-96).                  *)
OriginalKept ==
  \A f \in File :
    /\ disk[f].name # "part"
    /\ {disk[f].name, disk[f].bak} \cap {"original", "rewritten"} # {}
    /\ backups[f] <= 1 => "original" \in {disk[f].name, disk[f].bak}
=============================================================================
