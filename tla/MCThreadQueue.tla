---------------------------- MODULE MCThreadQueue ----------------------------
(* Instances of ThreadQueue for TLC.                                       *)
EXTENDS ThreadQueue, TLC

(* Workers, and tasks of one kind, are interchangeable.                    *)
Interchangeable ==
  Permutations(Workers) \cup Permutations(LogTasks) \cup Permutations(Tasks \ LogTasks)
=============================================================================
