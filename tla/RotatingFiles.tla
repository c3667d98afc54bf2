--------------------------- MODULE RotatingFiles ---------------------------
(***************************************************************************)
(* The files the workers write: the transactions (src/transaction.c,       *)
(* txn_1.csv ... txn_5.csv) and the log (src/log.c, log_file_1.txt ...).   *)
(* Both rotate the same way: when file 1 has passed its limit it is        *)
(* closed, the oldest file is removed, every other file is renamed to the  *)
(* next number, from the oldest to the newest, and a new file 1 is opened. *)
(* A mutex is held from the test of the size until the record is flushed,  *)
(* so records are saved one at a time; but the process may die between any *)
(* two of these system calls and start again on what it left.              *)
(*                                                                         *)
(* They differ in how they start: init_txn opens file 1 to append and      *)
(* writes a line of column names into an empty one; init_log truncates it. *)
(* A file is the sequence of its lines, and its limit counts lines.        *)
(***************************************************************************)
EXTENDS Naturals, Sequences

SeqExt == INSTANCE SequencesExt

CONSTANTS MaxFiles,    \* MAX_TRANSACTION_FILES, MAX_LOG_FILES
          MaxFileSize, \* MAX_FILE_SIZE, in lines
          Absent,      \* in place of a file that does not exist
          MaxSaved,    \* bound: records saved
          MaxEmitted,  \* bound: lines of libwebsockets
          MaxCrashes   \* bound: deaths of the process

ASSUME FilesAssumption ==
  /\ MaxFiles \in Nat /\ MaxFiles >= 2
  /\ MaxFileSize \in Nat \ {0}
  /\ Absent \notin Seq(Nat)
  /\ MaxSaved \in Nat /\ MaxEmitted \in Nat /\ MaxCrashes \in Nat

VARIABLES is_txn,  \* these are the files of transactions, or of the log
          files,   \* the directory
          pc,      \* where the process is
          i,       \* the loop variable of the rotation
          saved,   \* history: records saved since the directory was empty
          since,   \* history: of these, the ones when the log was truncated last
          emitted, \* history: how many of these libwebsockets printed
          lost,    \* history: of these, the ones printed to a closed stream
          crashes  \* history: deaths of the process

filesVars == <<is_txn, files, pc, i, saved, since, emitted, lost, crashes>>
history == <<since, emitted, lost, crashes>>

Header == 0
Numbers == 1..MaxFiles

FilesInit ==
  /\ is_txn \in BOOLEAN
  /\ files = [n \in Numbers |-> Absent]
  /\ pc = "down"
  /\ i = 1
  /\ saved = 0
  /\ since = 0
  /\ emitted = 0
  /\ lost = {}
  /\ crashes = 0

(* fopen(file 1, "a")                                                      *)
StartTxn ==
  /\ is_txn
  /\ pc = "down"
  /\ files' = [files EXCEPT ![1] = IF @ = Absent THEN << >> ELSE @]
  /\ pc' = "opened"
  /\ UNCHANGED <<is_txn, i, saved, history>>

(* Mutated: `st.st_size == 0` is not tested.                               *)
WriteHeaderAlways ==
  /\ pc = "opened"
  /\ files' = [files EXCEPT ![1] = Append(@, Header)]
  /\ pc' = "idle"
  /\ UNCHANGED <<is_txn, i, saved, history>>

WriteHeader ==
  /\ pc = "opened"
  /\ files' = [files EXCEPT ![1] = IF @ = << >> THEN <<Header>> ELSE @]
  /\ pc' = "idle"
  /\ UNCHANGED <<is_txn, i, saved, history>>

(* fopen(file 1, "w")                                                      *)
StartLog ==
  /\ ~is_txn
  /\ pc = "down"
  /\ files' = [files EXCEPT ![1] = << >>]
  /\ since' = saved
  /\ pc' = "idle"
  /\ UNCHANGED <<is_txn, i, saved, emitted, lost, crashes>>

(* A worker has the mutex and tests the size of file 1, then closes it.    *)
BeginSave ==
  /\ pc = "idle"
  /\ saved < MaxSaved
  /\ pc' = IF Len(files[1]) > MaxFileSize THEN "remove" ELSE "write"
  /\ UNCHANGED <<is_txn, files, i, saved, history>>

(* Mutated: the loop starts at MAX_FILES - 2.                              *)
RemoveOldestOffByOne ==
  /\ pc = "remove"
  /\ files' = [files EXCEPT ![MaxFiles] = Absent]
  /\ i' = MaxFiles - 2
  /\ pc' = "rename"
  /\ UNCHANGED <<is_txn, saved, history>>

RemoveOldest ==
  /\ pc = "remove"
  /\ files' = [files EXCEPT ![MaxFiles] = Absent]
  /\ i' = MaxFiles - 1
  /\ pc' = "rename"
  /\ UNCHANGED <<is_txn, saved, history>>

(* Mutated: the files are renamed from the newest to the oldest.           *)
RenameNextUpwards ==
  /\ pc = "rename"
  /\ LET n == MaxFiles - i
     IN  files' = IF files[n] = Absent THEN files
                  ELSE [files EXCEPT ![n] = Absent, ![n + 1] = files[n]]
  /\ i' = IF i = 1 THEN 1 ELSE i - 1
  /\ pc' = IF i = 1 THEN "reopen" ELSE "rename"
  /\ UNCHANGED <<is_txn, saved, history>>

(* rename(file i, file i + 1); a file that does not exist is not noticed.  *)
RenameNext ==
  /\ pc = "rename"
  /\ files' = IF files[i] = Absent THEN files
              ELSE [files EXCEPT ![i] = Absent, ![i + 1] = files[i]]
  /\ i' = IF i = 1 THEN 1 ELSE i - 1
  /\ pc' = IF i = 1 THEN "reopen" ELSE "rename"
  /\ UNCHANGED <<is_txn, saved, history>>

Reopen ==
  /\ pc = "reopen"
  /\ files' = [files EXCEPT ![1] = << >>]
  /\ pc' = "write"
  /\ UNCHANGED <<is_txn, i, saved, history>>

(* fprintf and fflush: a record that is only in the process's own buffer   *)
(* is as good as one that has not been printed.                            *)
WriteRecord ==
  /\ pc = "write"
  /\ saved' = saved + 1
  /\ files' = [files EXCEPT ![1] = Append(@, saved')]
  /\ pc' = "idle"
  /\ UNCHANGED <<is_txn, i, history>>

(* libwebsockets logs in its own threads, without the mutex: between       *)
(* fclose and fopen the line goes to a stream that is closed, which loses  *)
(* it, or ends in Crash.                                                   *)
log_emit ==
  /\ ~is_txn
  /\ pc # "down"
  /\ saved + 1 < MaxSaved
  /\ emitted < MaxEmitted
  /\ emitted' = emitted + 1
  /\ saved' = saved + 1
  /\ IF pc \in {"idle", "write"}
     THEN files' = [files EXCEPT ![1] = Append(@, saved')] /\ UNCHANGED lost
     ELSE lost' = lost \cup {saved'} /\ UNCHANGED files
  /\ UNCHANGED <<is_txn, pc, i, since, crashes>>

(* The process dies or exits; an fopen that fails calls exit().            *)
Crash ==
  /\ pc # "down"
  /\ crashes < MaxCrashes
  /\ crashes' = crashes + 1
  /\ pc' = "down"
  /\ i' = 1
  /\ UNCHANGED <<is_txn, files, saved, since, emitted, lost>>

(* rotate_txn_file and rotate_log_file; save_txn_task and logging_task.    *)
Rotate == RemoveOldest \/ RenameNext \/ Reopen
Save == BeginSave \/ Rotate \/ WriteRecord

FilesNext == StartTxn \/ WriteHeader \/ StartLog \/ Save \/ log_emit \/ Crash

FilesSpec == FilesInit /\ [][FilesNext]_filesVars

-----------------------------------------------------------------------------
(* PROPERTIES                                                              *)

Lines(n) == IF files[n] = Absent THEN << >> ELSE files[n]
Records(n) ==
  IF Lines(n) # << >> /\ Lines(n)[1] = Header THEN Tail(Lines(n)) ELSE Lines(n)

(* All the records, from the file with the highest number to file 1.       *)
OldestFirst == [n \in Numbers |-> Records(MaxFiles + 1 - n)]
Kept == SeqExt!FlattenSeq(OldestFirst)

(* Every variable has its type, and a process that is about to write has a *)
(* file 1 to write to.                                                     *)
FilesTypeOK ==
  /\ is_txn \in BOOLEAN
  /\ \A n \in Numbers :
       files[n] = Absent \/ \A k \in DOMAIN files[n] : files[n][k] \in Header..saved
  /\ pc \in {"down", "opened", "idle", "remove", "rename", "reopen", "write"}
  /\ i \in 1..(MaxFiles - 1)
  /\ saved \in 0..MaxSaved /\ since \in 0..saved /\ lost \subseteq 1..saved /\ emitted \in 0..MaxEmitted
  /\ crashes \in 0..MaxCrashes
  /\ pc \in {"opened", "idle", "write"} => files[1] # Absent

(* The column names are the first line of a file or are not in it, however *)
(* often the program is started on the files it has.                       *)
HeaderOnTop ==
  \A n \in Numbers : \A k \in DOMAIN Lines(n) : Lines(n)[k] = Header => k = 1

(* The files are well formed at every step of a rotation and after every   *)
(* death, and whoever is about to write has a file to write to.            *)
FilesInv == FilesTypeOK /\ HeaderOnTop

Least(a, b) == IF a <= b THEN a ELSE b

(* A file is full with MaxFileSize + 1 lines, of which one of a            *)
(* transaction file may be the header.                                     *)
FullSize == IF is_txn THEN MaxFileSize ELSE MaxFileSize + 1

(* How many full files are sure to be there: a death costs the             *)
(* transactions one of them, the log starts anew.                          *)
FullFiles ==
  CASE ~is_txn -> MaxFiles - 1
    [] is_txn /\ MaxFiles - 1 > crashes -> MaxFiles - 1 - crashes
    [] is_txn /\ MaxFiles - 1 <= crashes -> 1

Readable(r) == \E n \in Numbers : r \in {Lines(n)[k] : k \in DOMAIN Lines(n)}

(* Transactions that were saved stay readable until MaxFiles - 1 full      *)
(* files of newer ones have followed; a death in the middle of a rotation  *)
(* costs one file of them and never the newest ones.  So do the lines      *)
(* logged since the program was started, whatever earlier deaths left of   *)
(* the files, but for lines printed without the mutex during a rotation.   *)
NewestKept ==
  \A r \in (since + 1)..saved \ lost : r > saved - FullSize * FullFiles => Readable(r)

(* Read in the order of their numbers the files are one journal, in which  *)
(* nothing is out of order or repeated and nothing is lost in the middle,  *)
(* also in the middle of a rotation and after one that was cut short.  The *)
(* log loses its last lines at every start; that the transactions do not   *)
(* is NewestKept.                                                          *)
J == INSTANCE Journal WITH journal <- Kept
ImplementsJournal == J!JournalSpec
=============================================================================
