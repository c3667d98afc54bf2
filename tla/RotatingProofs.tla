--------------------------- MODULE RotatingProofs ---------------------------
(* Proofs about the rotated files, for every number of files, every limit  *)
(* of a file and every number of deaths: they stay well formed, what was   *)
(* saved last stays readable, and together they implement Journal.         *)
EXTENDS RotatingFiles, FiniteSets, FiniteSetTheorems, SequenceTheorems,
        NaturalsInduction, WellFoundedInduction, TLAPS

(* The files with numbers between 1 and n that there are, and the ones     *)
(* that there are not.                                                     *)
Present(n) == {m \in 2..(n - 1) : files[m] # Absent}
Missing(n) == {m \in 2..(n - 1) : files[m] = Absent}

(* Records that file 1 has at least: one line may be the header.           *)
InFirst ==
  IF files[1] \in {Absent, << >>} THEN 0
  ELSE Len(files[1]) - (IF is_txn THEN 1 ELSE 0)

(* How many files may be missing below file n: one for every rotation that *)
(* a death cut short, and, above the loop variable of a rotation, the one  *)
(* that the rotation is moving down.  A log that is started keeps no       *)
(* promise about earlier files, so there it is the last death that counts. *)
CutShort == IF is_txn THEN crashes ELSE IF pc = "down" THEN 1 ELSE 0
Holes(n) == CutShort + (IF pc = "rename" /\ n > i + 1 THEN 1 ELSE 0)

RotatingTypes ==
  /\ files \in [Numbers -> Seq(Nat) \cup {Absent}]
  /\ FilesTypeOK

(* What a rotation relies on from step to step: it moves a file that is    *)
(* full to a number that is free.                                          *)
RotationInv ==
  /\ pc \in {"remove", "rename"} => files[1] # Absent /\ Len(files[1]) > MaxFileSize
  /\ pc = "rename" => files[i + 1] = Absent
  /\ pc = "reopen" => files[1] = Absent
  /\ pc = "opened" => is_txn
  /\ pc \in {"remove", "rename", "reopen", "write"} => saved < MaxSaved

(* A record is older than all the files with lower numbers have room for,  *)
(* and few of these are missing.                                           *)
OldFilesDeep ==
  \A n \in 2..MaxFiles : files[n] # Absent =>
    \A k \in DOMAIN files[n] : files[n][k] > since =>
      /\ files[n][k] + InFirst + FullSize * Cardinality(Present(n)) <= saved
      /\ Cardinality(Missing(n)) <= Holes(n)

(* The inductive invariant: a record that leaves with the oldest file is   *)
(* old because every file that a rotation has moved up was full.           *)
FilesIInv ==
  /\ RotatingTypes
  /\ HeaderOnTop
  /\ RotationInv
  /\ OldFilesDeep
  /\ NewestKept

-----------------------------------------------------------------------------
LEMMA HoleTypes ==
  ASSUME NEW n \in Nat
  PROVE  /\ IsFiniteSet(Present(n)) /\ Cardinality(Present(n)) \in Nat
         /\ IsFiniteSet(Missing(n)) /\ Cardinality(Missing(n)) \in Nat
  <1>1. IsFiniteSet(2..(n - 1))
    BY FS_Interval
  <1>2. Present(n) \in SUBSET (2..(n - 1)) /\ Missing(n) \in SUBSET (2..(n - 1))
    BY DEF Present, Missing
  <1>3. IsFiniteSet(Present(n)) /\ IsFiniteSet(Missing(n))
    BY <1>1, <1>2, FS_Subset
  <1> QED
    BY <1>3, FS_CardinalityType

(* There are n - 2 numbers between 1 and n.                                *)
LEMMA HolesCounted ==
  ASSUME NEW n \in Nat, n >= 2
  PROVE  Cardinality(Present(n)) + Cardinality(Missing(n)) = n - 2
  <1>1. Present(n) \cup Missing(n) = 2..(n - 1) /\ Present(n) \cap Missing(n) = {}
    BY DEF Present, Missing
  <1>2. Cardinality(2..(n - 1)) = n - 2
    BY FS_Interval
  <1>3. Cardinality(Present(n) \cap Missing(n)) = 0
    BY <1>1, FS_EmptySet
  <1>4. Cardinality(Present(n) \cup Missing(n))
          = Cardinality(Present(n)) + Cardinality(Missing(n))
              - Cardinality(Present(n) \cap Missing(n))
    BY HoleTypes, FS_Union
  <1> QED
    <2> DEFINE p == Cardinality(Present(n))
               m == Cardinality(Missing(n))
               b == Cardinality(Present(n) \cap Missing(n))
    <2>1. p \in Nat /\ m \in Nat /\ b = 0 /\ p + m - b = n - 2
      BY <1>1, <1>2, <1>3, <1>4, HoleTypes
    <2> HIDE DEF p, m, b
    <2>2. p + m = n - 2
      BY <2>1
    <2> QED
      BY <2>2 DEF p, m

LEMMA SizeTypes == FilesTypeOK => FullSize \in Nat /\ FullSize >= 1 /\ FullSize <= MaxFileSize + 1
  BY FilesAssumption DEF FullSize, FilesTypeOK

LEMMA OneMore ==
  ASSUME NEW s \in Nat, NEW p \in Nat
  PROVE  s * (p + 1) = s * p + s /\ s * p \in Nat
  OBVIOUS

LEMMA Larger ==
  ASSUME NEW s \in Nat, NEW p \in Nat, NEW q \in Nat, p <= q
  PROVE  s * p <= s * q
  OBVIOUS

LEMMA FirstTypes == RotatingTypes => InFirst \in Nat
  <1> SUFFICES ASSUME RotatingTypes, files[1] \notin {Absent, << >>}
               PROVE  Len(files[1]) \in Nat /\ Len(files[1]) >= 1
    BY DEF InFirst, RotatingTypes, FilesTypeOK
  <1>1. files[1] \in Seq(Nat) /\ files[1] # << >>
    BY FilesAssumption DEF RotatingTypes, Numbers
  <1> QED
    BY <1>1

-----------------------------------------------------------------------------
LEMMA FilesIInvInit == FilesInit => FilesIInv
  <1> SUFFICES ASSUME FilesInit
               PROVE  FilesIInv
    OBVIOUS
  <1> USE FilesAssumption DEF FilesInit, Numbers
  <1>1. RotatingTypes /\ RotationInv
    BY DEF RotatingTypes, FilesTypeOK, RotationInv, Header
  <1>2. HeaderOnTop
    BY DEF HeaderOnTop, Lines
  <1>3. OldFilesDeep
    BY DEF OldFilesDeep
  <1>4. NewestKept
    <2>1. (since + 1)..saved = {}
      OBVIOUS
    <2> QED
      BY <2>1 DEF NewestKept
  <1> QED
    BY <1>1, <1>2, <1>3, <1>4 DEF FilesIInv

(* The files are as they should be when only file 1 changes.               *)
LEMMA FirstChanged ==
  ASSUME RotatingTypes, NEW seq \in Seq(Nat), saved' \in Nat, saved' >= saved,
         \A k \in DOMAIN seq : seq[k] \in 0..saved',
         files' = [files EXCEPT ![1] = seq]
  PROVE  /\ files' \in [Numbers -> Seq(Nat) \cup {Absent}]
         /\ files'[1] = seq /\ files'[1] # Absent
         /\ \A n \in Numbers :
              files'[n] = Absent \/ \A k \in DOMAIN files'[n] : files'[n][k] \in 0..saved'
  BY FilesAssumption DEF RotatingTypes, FilesTypeOK, Numbers, Header

LEMMA Appended ==
  ASSUME NEW s \in Seq(Nat), NEW x \in Nat
  PROVE  /\ Append(s, x) \in Seq(Nat)
         /\ Len(Append(s, x)) = Len(s) + 1
         /\ \A k \in DOMAIN Append(s, x) :
              \/ k \in DOMAIN s /\ Append(s, x)[k] = s[k]
              \/ k = Len(s) + 1 /\ Append(s, x)[k] = x
  OBVIOUS

LEMMA AppendKeeps ==
  ASSUME NEW s \in Seq(Nat), NEW x \in Nat
  PROVE  /\ \A k \in DOMAIN s : k \in DOMAIN Append(s, x) /\ Append(s, x)[k] = s[k]
         /\ \E k \in DOMAIN Append(s, x) : Append(s, x)[k] = x
  <1>1. \A k \in DOMAIN s : k \in DOMAIN Append(s, x) /\ Append(s, x)[k] = s[k]
    OBVIOUS
  <1>2. Len(s) + 1 \in DOMAIN Append(s, x) /\ Append(s, x)[Len(s) + 1] = x
    OBVIOUS
  <1> QED
    BY <1>1, <1>2

LEMMA TypesNext == RotatingTypes /\ RotationInv /\ [FilesNext]_filesVars => RotatingTypes'
  <1> SUFFICES ASSUME RotatingTypes, RotationInv, [FilesNext]_filesVars
               PROVE  RotatingTypes'
    OBVIOUS
  <1> USE FilesAssumption DEF RotatingTypes, FilesTypeOK, Numbers, Header, history
  <1>1. CASE StartTxn
    <2> DEFINE seq == IF files[1] = Absent THEN << >> ELSE files[1]
    <2>1. seq \in Seq(Nat) /\ (\A k \in DOMAIN seq : seq[k] \in 0..saved)
      OBVIOUS
    <2>2. files' = [files EXCEPT ![1] = seq] /\ saved' = saved
      BY <1>1 DEF StartTxn
    <2> HIDE DEF seq
    <2> QED
      BY <1>1, <2>1, <2>2, FirstChanged DEF StartTxn
  <1>2. CASE WriteHeader
    <2> DEFINE seq == IF files[1] = << >> THEN <<0>> ELSE files[1]
    <2>1. seq \in Seq(Nat) /\ (\A k \in DOMAIN seq : seq[k] \in 0..saved)
      BY <1>2 DEF WriteHeader
    <2>2. files' = [files EXCEPT ![1] = seq] /\ saved' = saved
      BY <1>2 DEF WriteHeader
    <2> HIDE DEF seq
    <2>3. files' \in [Numbers -> Seq(Nat) \cup {Absent}] /\ files'[1] # Absent
        /\ \A n \in Numbers :
             files'[n] = Absent \/ \A k \in DOMAIN files'[n] : files'[n][k] \in 0..saved'
      BY <2>1, <2>2, FirstChanged
    <2> QED
      BY <1>2, <2>2, <2>3 DEF WriteHeader
  <1>3. CASE StartLog
    <2> DEFINE seq == << >>
    <2>1. seq \in Seq(Nat) /\ (\A k \in DOMAIN seq : seq[k] \in 0..saved)
      OBVIOUS
    <2>2. files' = [files EXCEPT ![1] = seq] /\ saved' = saved
      BY <1>3 DEF StartLog
    <2> HIDE DEF seq
    <2> QED
      BY <1>3, <2>1, <2>2, FirstChanged DEF StartLog
  <1>4. CASE BeginSave
    BY <1>4 DEF BeginSave
  <1>5. CASE RemoveOldest
    BY <1>5 DEF RemoveOldest
  <1>6. CASE RenameNext
    BY <1>6, SMTT(30) DEF RenameNext
  <1>7. CASE Reopen
    <2> DEFINE seq == << >>
    <2>1. seq \in Seq(Nat) /\ (\A k \in DOMAIN seq : seq[k] \in 0..saved)
      OBVIOUS
    <2>2. files' = [files EXCEPT ![1] = seq] /\ saved' = saved
      BY <1>7 DEF Reopen
    <2> HIDE DEF seq
    <2> QED
      BY <1>7, <2>1, <2>2, FirstChanged DEF Reopen
  <1>8. CASE WriteRecord
    <2> DEFINE seq == Append(files[1], saved + 1)
    <2>1. files[1] \in Seq(Nat) /\ (\A k \in DOMAIN files[1] : files[1][k] \in 0..saved)
      BY <1>8 DEF WriteRecord
    <2>2. seq \in Seq(Nat) /\ (\A k \in DOMAIN seq : seq[k] \in 0..(saved + 1))
      BY <2>1, Appended
    <2>3. files' = [files EXCEPT ![1] = seq] /\ saved' = saved + 1 /\ saved < MaxSaved
      BY <1>8 DEF WriteRecord, RotationInv
    <2> HIDE DEF seq
    <2>4. files' \in [Numbers -> Seq(Nat) \cup {Absent}] /\ files'[1] # Absent
        /\ \A n \in Numbers :
             files'[n] = Absent \/ \A k \in DOMAIN files'[n] : files'[n][k] \in 0..saved'
      BY <2>2, <2>3, FirstChanged
    <2> QED
      BY SMTT(30), <1>8, <2>3, <2>4 DEF WriteRecord
  <1>9. CASE log_emit
    <2>1. CASE pc \in {"idle", "write"}
      <3> DEFINE seq == Append(files[1], saved + 1)
      <3>1. files[1] \in Seq(Nat) /\ (\A k \in DOMAIN files[1] : files[1][k] \in 0..saved)
        BY <2>1
      <3>2. seq \in Seq(Nat) /\ (\A k \in DOMAIN seq : seq[k] \in 0..(saved + 1))
        BY <3>1, Appended
      <3>3. files' = [files EXCEPT ![1] = seq] /\ saved' = saved + 1 /\ saved + 1 < MaxSaved
        BY <1>9, <2>1 DEF log_emit
      <3> HIDE DEF seq
      <3>4. files' \in [Numbers -> Seq(Nat) \cup {Absent}] /\ files'[1] # Absent
          /\ \A n \in Numbers :
               files'[n] = Absent \/ \A k \in DOMAIN files'[n] : files'[n][k] \in 0..saved'
        BY <3>2, <3>3, FirstChanged
      <3>5. lost' \subseteq 1..saved' /\ since' \in 0..saved'
        <4>1. lost' = lost /\ since' = since
          BY <1>9, <2>1 DEF log_emit
        <4> QED
          BY <3>3, <4>1
      <3>6. /\ emitted' \in 0..MaxEmitted /\ saved' \in 0..MaxSaved
            /\ is_txn' = is_txn /\ pc' = pc /\ i' = i /\ crashes' = crashes
        BY <1>9, <3>3 DEF log_emit
      <3> QED
        BY <3>4, <3>5, <3>6
    <2>2. CASE pc \notin {"idle", "write"}
      <3>1. files' = files /\ saved' = saved + 1 /\ lost' = lost \cup {saved + 1}
        BY <1>9, <2>2 DEF log_emit
      <3>2. lost' \subseteq 1..saved'
        BY <3>1
      <3>3. \A n \in Numbers :
              files'[n] = Absent \/ \A k \in DOMAIN files'[n] : files'[n][k] \in 0..saved'
        BY <3>1
      <3> QED
        BY <1>9, <2>2, <3>1, <3>2, <3>3 DEF log_emit
    <2> QED
      BY <2>1, <2>2
  <1>10. CASE Crash
    BY <1>10 DEF Crash
  <1>11. CASE UNCHANGED filesVars
    BY <1>11 DEF filesVars
  <1> QED
    BY <1>1, <1>2, <1>3, <1>4, <1>5, <1>6, <1>7, <1>8, <1>9, <1>10, <1>11
       DEF FilesNext, Save, Rotate

LEMMA RotationNext == RotatingTypes /\ RotationInv /\ [FilesNext]_filesVars => RotationInv'
  <1> SUFFICES ASSUME RotatingTypes, RotationInv, [FilesNext]_filesVars
               PROVE  RotationInv'
    OBVIOUS
  <1> USE FilesAssumption DEF RotatingTypes, FilesTypeOK, RotationInv, Numbers, Header, history
  <1>1. CASE StartTxn
    BY <1>1 DEF StartTxn
  <1>2. CASE WriteHeader
    BY <1>2 DEF WriteHeader
  <1>3. CASE StartLog
    BY <1>3 DEF StartLog
  <1>4. CASE BeginSave
    BY <1>4 DEF BeginSave
  <1>5. CASE RemoveOldest
    BY <1>5 DEF RemoveOldest
  <1>6. CASE RenameNext
    BY <1>6 DEF RenameNext
  <1>7. CASE Reopen
    BY <1>7 DEF Reopen
  <1>8. CASE WriteRecord
    BY <1>8 DEF WriteRecord
  <1>9. CASE log_emit
    BY <1>9 DEF log_emit
  <1>10. CASE Crash
    BY <1>10 DEF Crash
  <1>11. CASE UNCHANGED filesVars
    BY <1>11 DEF filesVars
  <1> QED
    BY <1>1, <1>2, <1>3, <1>4, <1>5, <1>6, <1>7, <1>8, <1>9, <1>10, <1>11
       DEF FilesNext, Save, Rotate

LEMMA HeaderNext == RotatingTypes /\ HeaderOnTop /\ [FilesNext]_filesVars => HeaderOnTop'
  <1> SUFFICES ASSUME RotatingTypes, HeaderOnTop, [FilesNext]_filesVars
               PROVE  HeaderOnTop'
    OBVIOUS
  <1> USE FilesAssumption DEF RotatingTypes, FilesTypeOK, HeaderOnTop, Lines, Numbers, Header, history
  <1>1. CASE StartTxn
    BY <1>1 DEF StartTxn
  <1>2. CASE WriteHeader
    BY <1>2 DEF WriteHeader
  <1>3. CASE StartLog
    BY <1>3 DEF StartLog
  <1>5. CASE RemoveOldest
    BY <1>5 DEF RemoveOldest
  <1>6. CASE RenameNext
    BY <1>6 DEF RenameNext
  <1>7. CASE Reopen
    BY <1>7 DEF Reopen
  <1>8. CASE WriteRecord
    BY <1>8 DEF WriteRecord
  <1>9. CASE log_emit
    <2>1. CASE pc \in {"idle", "write"}
      <3>1. files' = [files EXCEPT ![1] = Append(files[1], saved + 1)] /\ files[1] \in Seq(Nat)
        BY <1>9, <2>1 DEF log_emit
      <3> QED
        BY <3>1, Appended
    <2>2. CASE pc \notin {"idle", "write"}
      BY <1>9, <2>2 DEF log_emit
    <2> QED
      BY <2>1, <2>2
  <1>10. CASE BeginSave \/ Crash \/ UNCHANGED filesVars
    BY <1>10 DEF BeginSave, Crash, filesVars
  <1> QED
    BY <1>1, <1>2, <1>3, <1>5, <1>6, <1>7, <1>8, <1>9, <1>10
       DEF FilesNext, Save, Rotate

-----------------------------------------------------------------------------
(* Old records stay deep in steps that leave the files with numbers above  *)
(* 1 alone, if saved grows at least as much as file 1.                     *)
LEMMA DeepKept ==
  ASSUME FilesTypeOK, RotatingTypes, RotatingTypes', OldFilesDeep,
         \A n \in 2..MaxFiles : files'[n] = files[n],
         is_txn' = is_txn, since' >= since, saved' >= saved,
         InFirst' - InFirst <= saved' - saved,
         \/ CutShort' >= CutShort /\ (pc = "rename" => pc' = "rename" /\ i' = i)
         \/ CutShort' >= CutShort + 1
  PROVE  OldFilesDeep'
  <1> SUFFICES ASSUME NEW n \in 2..MaxFiles, files'[n] # Absent,
                      NEW k \in DOMAIN files'[n], files'[n][k] > since'
               PROVE  /\ files'[n][k] + InFirst' + FullSize' * Cardinality(Present(n)') <= saved'
                      /\ Cardinality(Missing(n)') <= Holes(n)'
    BY DEF OldFilesDeep
  <1>1. files[n] # Absent /\ k \in DOMAIN files[n] /\ files[n][k] = files'[n][k]
    OBVIOUS
  <1>2. files[n][k] \in Nat /\ since \in Nat /\ saved \in Nat /\ since' \in Nat /\ saved' \in Nat
    BY <1>1, FilesAssumption DEF RotatingTypes, FilesTypeOK, Numbers, Header
  <1>3. /\ files[n][k] + InFirst + FullSize * Cardinality(Present(n)) <= saved
        /\ Cardinality(Missing(n)) <= Holes(n)
    BY <1>1, <1>2 DEF OldFilesDeep
  <1>4. Present(n)' = Present(n) /\ Missing(n)' = Missing(n) /\ FullSize' = FullSize
    BY FilesAssumption DEF Present, Missing, FullSize
  <1>5. InFirst \in Nat /\ InFirst' \in Nat
    <2>1. RotatingTypes => InFirst \in Nat
      BY FirstTypes
    <2>2. CASE files'[1] \in {Absent, << >>}
      BY <2>1, <2>2 DEF InFirst
    <2>3. CASE files'[1] \notin {Absent, << >>}
      <3>1. files'[1] \in Seq(Nat) /\ files'[1] # << >>
        BY <2>3, FilesAssumption DEF RotatingTypes, Numbers
      <3>2. Len(files'[1]) \in Nat /\ Len(files'[1]) >= 1
        BY <3>1
      <3> QED
        BY <2>1, <2>3, <3>2, SMTT(30) DEF InFirst, RotatingTypes, FilesTypeOK
    <2> QED
      BY <2>2, <2>3
  <1>6. FullSize \in Nat /\ Cardinality(Present(n)) \in Nat /\ Cardinality(Missing(n)) \in Nat
    <2>1. n \in Nat
      BY FilesAssumption
    <2>2. Cardinality(Present(n)) \in Nat /\ Cardinality(Missing(n)) \in Nat
      BY <2>1, HoleTypes
    <2> QED
      BY <2>2, SizeTypes
  <1>7. FullSize * Cardinality(Present(n)) \in Nat
    BY <1>6, OneMore
  <1>8. CutShort \in Nat /\ CutShort' \in Nat
    BY FilesAssumption DEF CutShort, RotatingTypes, FilesTypeOK
  <1>9. Cardinality(Missing(n)') <= Holes(n)'
    <2>1. CASE pc = "rename" /\ pc' = "rename" /\ i' = i /\ CutShort' >= CutShort
      BY <1>3, <1>4, <1>6, <1>8, <2>1 DEF Holes
    <2>2. CASE pc # "rename" /\ CutShort' >= CutShort
      BY <1>3, <1>4, <1>6, <1>8, <2>2 DEF Holes
    <2>3. CASE CutShort' >= CutShort + 1
      BY <1>3, <1>4, <1>6, <1>8, <2>3 DEF Holes
    <2> QED
      BY <2>1, <2>2, <2>3
  <1> DEFINE sp == FullSize * Cardinality(Present(n))
             r == files[n][k]
  <1>10. r + InFirst + sp <= saved /\ sp \in Nat /\ r \in Nat
    BY <1>2, <1>3, <1>7
  <1> HIDE DEF sp, r
  <1>11. r + InFirst' + sp <= saved'
    <2>1. InFirst' - InFirst <= saved' - saved
      OBVIOUS
    <2> DEFINE a == InFirst
               b == InFirst'
               c == saved
               d == saved'
    <2>2. a \in Nat /\ b \in Nat /\ c \in Nat /\ d \in Nat /\ b - a <= d - c /\ r + a + sp <= c
      BY <1>2, <1>5, <1>10, <2>1
    <2> HIDE DEF a, b, c, d
    <2>3. r + b + sp <= d
      BY <2>2, <1>10
    <2> QED
      BY <2>3 DEF b, d
  <1> QED
    BY <1>1, <1>4, <1>9, <1>11 DEF sp, r

(* A line more in file 1 is at most a record more.                         *)
LEMMA FirstAppended ==
  ASSUME RotatingTypes, NEW x \in Nat, files[1] # Absent, is_txn' = is_txn,
         files' = [files EXCEPT ![1] = Append(files[1], x)]
  PROVE  InFirst' - InFirst <= 1
  <1>1. files[1] \in Seq(Nat) /\ files'[1] = Append(files[1], x)
    BY FilesAssumption DEF RotatingTypes, Numbers
  <1>2. Len(files'[1]) = Len(files[1]) + 1 /\ Len(files[1]) \in Nat /\ is_txn \in BOOLEAN
    BY <1>1, Appended DEF RotatingTypes, FilesTypeOK
  <1>3. files'[1] # << >> /\ files'[1] # Absent
    <2>1. files'[1] \in Seq(Nat)
      BY <1>1, Appended
    <2>2. Len(files'[1]) # 0
      BY <1>2
    <2> QED
      BY <2>1, <2>2, FilesAssumption
  <1>4. CASE files[1] = << >>
    BY <1>2, <1>3, <1>4 DEF InFirst
  <1>5. CASE files[1] # << >>
    <2>1. files[1] \notin {Absent, << >>} /\ files'[1] \notin {Absent, << >>}
      BY <1>3, <1>5
    <2>2. InFirst = Len(files[1]) - (IF is_txn THEN 1 ELSE 0)
      BY <2>1 DEF InFirst
    <2>3. InFirst' = Len(files'[1]) - (IF is_txn THEN 1 ELSE 0)
      BY <2>1 DEF InFirst
    <2> QED
      BY <1>2, <2>2, <2>3
  <1> QED
    BY <1>4, <1>5

LEMMA DeepRemove ==
  ASSUME RotatingTypes, RotatingTypes', OldFilesDeep, RemoveOldest
  PROVE  OldFilesDeep'
  <1> SUFFICES ASSUME NEW n \in 2..MaxFiles, files'[n] # Absent,
                      NEW k \in DOMAIN files'[n], files'[n][k] > since'
               PROVE  /\ files'[n][k] + InFirst' + FullSize' * Cardinality(Present(n)') <= saved'
                      /\ Cardinality(Missing(n)') <= Holes(n)'
    BY DEF OldFilesDeep
  <1>1. /\ pc = "remove" /\ pc' = "rename" /\ i' = MaxFiles - 1
        /\ is_txn' = is_txn /\ since' = since /\ saved' = saved /\ crashes' = crashes
        /\ \A m \in Numbers : m # MaxFiles => files'[m] = files[m]
        /\ files'[MaxFiles] = Absent
    BY FilesAssumption DEF RemoveOldest, history, RotatingTypes, Numbers
  <1>2. n # MaxFiles /\ n \in Numbers /\ files'[n] = files[n]
    BY <1>1, FilesAssumption DEF Numbers
  <1>3. /\ files[n][k] + InFirst + FullSize * Cardinality(Present(n)) <= saved
        /\ Cardinality(Missing(n)) <= Holes(n)
    BY <1>1, <1>2 DEF OldFilesDeep
  <1>4. Present(n)' = Present(n) /\ Missing(n)' = Missing(n)
    BY <1>1, <1>2, FilesAssumption DEF Present, Missing, Numbers
  <1>5. FullSize' = FullSize /\ InFirst' = InFirst
    <2>1. files'[1] = files[1]
      BY <1>1, FilesAssumption DEF Numbers
    <2> QED
      BY <1>1, <2>1 DEF FullSize, InFirst
  <1>6. Holes(n) = CutShort + 0
    BY <1>1 DEF Holes
  <1>7. Holes(n)' = CutShort' + 0
    BY <1>1, <1>2, FilesAssumption DEF Holes
  <1>8. CutShort' = CutShort
    BY <1>1 DEF CutShort
  <1> QED
    BY <1>1, <1>2, <1>3, <1>4, <1>5, <1>6, <1>7, <1>8

LEMMA DeepStartLog ==
  ASSUME RotatingTypes, RotatingTypes', StartLog
  PROVE  OldFilesDeep'
  <1> SUFFICES ASSUME NEW n \in 2..MaxFiles, files'[n] # Absent, NEW k \in DOMAIN files'[n]
               PROVE  ~(files'[n][k] > since')
    BY DEF OldFilesDeep
  <1>1. since' = saved /\ saved' = saved /\ saved \in Nat
    BY FilesAssumption DEF StartLog, RotatingTypes, FilesTypeOK
  <1>2. files'[n][k] \in 0..saved'
    BY FilesAssumption DEF RotatingTypes, FilesTypeOK, Numbers, Header
  <1> QED
    BY <1>1, <1>2

(* What renaming file i does to the numbers that are taken.                *)
LEMMA HolesMoved ==
  ASSUME RotatingTypes, RotationInv, RenameNext, files[i] # Absent
  PROVE  /\ \A m \in Numbers : m \notin {i, i + 1} => files'[m] = files[m]
         /\ files[i + 1] = Absent /\ files'[i] = Absent /\ files'[i + 1] = files[i]
         /\ i \in Nat /\ i >= 1 /\ i + 1 <= MaxFiles
  BY FilesAssumption DEF RenameNext, RotatingTypes, FilesTypeOK, RotationInv, Numbers

(* Nothing is there to rename: the hole that was above it is not filled.   *)
LEMMA DeepRenameNothing ==
  ASSUME RotatingTypes, RotatingTypes', RotationInv, OldFilesDeep, RenameNext, files[i] = Absent
  PROVE  OldFilesDeep'
  <1>1. /\ pc = "rename" /\ pc' = "rename" /\ i' = i - 1 /\ i \in Nat /\ i >= 2 /\ i + 1 <= MaxFiles
        /\ files' = files /\ is_txn' = is_txn /\ since' = since /\ saved' = saved
        /\ crashes' = crashes /\ files[i + 1] = Absent
    BY FilesAssumption DEF RenameNext, history, RotatingTypes, FilesTypeOK, RotationInv
  <1>2. InFirst' = InFirst /\ FullSize' = FullSize /\ CutShort' = CutShort
    BY <1>1 DEF InFirst, FullSize, CutShort
  <1> SUFFICES ASSUME NEW n \in 2..MaxFiles, files'[n] # Absent,
                      NEW k \in DOMAIN files'[n], files'[n][k] > since'
               PROVE  /\ files'[n][k] + InFirst' + FullSize' * Cardinality(Present(n)') <= saved'
                      /\ Cardinality(Missing(n)') <= Holes(n)'
    BY DEF OldFilesDeep
  <1>3. n \in Nat /\ n # i /\ n # i + 1
    BY <1>1, FilesAssumption
  <1>4. /\ files[n][k] + InFirst + FullSize * Cardinality(Present(n)) <= saved
        /\ Cardinality(Missing(n)) <= Holes(n)
    BY <1>1 DEF OldFilesDeep
  <1>5. Present(n)' = Present(n) /\ Missing(n)' = Missing(n)
    BY <1>1 DEF Present, Missing
  <1>6. n > i + 1 <=> n > i' + 1
    BY <1>1, <1>3
  <1>7. Holes(n)' = Holes(n)
    BY <1>1, <1>2, <1>6 DEF Holes
  <1> QED
    BY <1>1, <1>2, <1>4, <1>5, <1>7

(* A file is renamed.  Which of the numbers below n are taken changes only *)
(* for the numbers above it, and how many only when it is file 1.          *)
LEMMA DeepRenameFile ==
  ASSUME RotatingTypes, RotatingTypes', RotationInv, OldFilesDeep, RenameNext, files[i] # Absent,
         i # 1
  PROVE  OldFilesDeep'
  <1>1. /\ \A m \in Numbers : m \notin {i, i + 1} => files'[m] = files[m]
        /\ files[i + 1] = Absent /\ files'[i] = Absent /\ files'[i + 1] = files[i]
        /\ i \in Nat /\ i >= 2 /\ i + 1 <= MaxFiles /\ MaxFiles \in Nat
    BY HolesMoved, FilesAssumption
  <1>2. /\ pc = "rename" /\ pc' = "rename" /\ i' = i - 1
        /\ is_txn' = is_txn /\ since' = since /\ saved' = saved /\ crashes' = crashes
    BY <1>1 DEF RenameNext, history
  <1>3. InFirst' = InFirst /\ FullSize' = FullSize /\ CutShort' = CutShort /\ CutShort \in Nat
    <2>1. files'[1] = files[1]
      BY <1>1 DEF Numbers
    <2> QED
      BY <1>2, <2>1, FilesAssumption
         DEF InFirst, FullSize, CutShort, RotatingTypes, FilesTypeOK
  <1> SUFFICES ASSUME NEW n \in 2..MaxFiles, files'[n] # Absent,
                      NEW k \in DOMAIN files'[n], files'[n][k] > since'
               PROVE  /\ files'[n][k] + InFirst' + FullSize' * Cardinality(Present(n)') <= saved'
                      /\ Cardinality(Missing(n)') <= Holes(n)'
    BY DEF OldFilesDeep
  <1>4. n \in Nat /\ n >= 2 /\ n \in Numbers
    BY <1>1 DEF Numbers
  <1>5. CASE n < i
    <2>1. files'[n] = files[n]
      BY <1>1, <1>4, <1>5
    <2>2. Present(n)' = Present(n) /\ Missing(n)' = Missing(n)
      BY <1>1, <1>4, <1>5 DEF Present, Missing, Numbers
    <2>3. /\ files[n][k] + InFirst + FullSize * Cardinality(Present(n)) <= saved
          /\ Cardinality(Missing(n)) <= Holes(n)
      BY <1>2, <2>1 DEF OldFilesDeep
    <2>4. Holes(n)' = Holes(n)
      <3>1. ~(n > i + 1) /\ ~(n > i' + 1)
        BY <1>1, <1>2, <1>4, <1>5
      <3> QED
        BY <1>2, <1>3, <3>1 DEF Holes
    <2> QED
      BY <1>2, <1>3, <2>1, <2>2, <2>3, <2>4
  <1>6. CASE n = i + 1
    <2>1. files'[n] = files[i] /\ i \in 2..MaxFiles
      BY <1>1, <1>6
    <2>2. /\ files[i][k] + InFirst + FullSize * Cardinality(Present(i)) <= saved
          /\ Cardinality(Missing(i)) <= Holes(i)
      BY <1>2, <2>1 DEF OldFilesDeep
    <2>3. Present(n)' = Present(i)
      BY <1>1, <1>6 DEF Present, Numbers
    <2>4. Missing(n)' = Missing(i) \cup {i} /\ i \notin Missing(i)
      BY <1>1, <1>6 DEF Missing, Numbers
    <2>5. Cardinality(Missing(n)') = Cardinality(Missing(i)) + 1 /\ Cardinality(Missing(i)) \in Nat
      BY <1>1, <2>4, HoleTypes, FS_AddElement
    <2>6. Holes(i) = CutShort
      <3>1. ~(i > i + 1)
        BY <1>1
      <3> QED
        BY <1>3, <3>1 DEF Holes
    <2>7. Holes(n)' = CutShort + 1
      <3>1. n > i' + 1
        BY <1>1, <1>2, <1>6
      <3> QED
        BY <1>2, <1>3, <3>1 DEF Holes
    <2>8. Cardinality(Missing(n)') <= Holes(n)'
      BY <1>3, <2>2, <2>5, <2>6, <2>7
    <2> QED
      BY <1>2, <1>3, <2>1, <2>2, <2>3, <2>8
  <1>7. CASE n > i + 1
    <2>1. files'[n] = files[n]
      BY <1>1, <1>4, <1>7
    <2>2. /\ files[n][k] + InFirst + FullSize * Cardinality(Present(n)) <= saved
          /\ Cardinality(Missing(n)) <= Holes(n)
      BY <1>2, <2>1 DEF OldFilesDeep
    <2>3. /\ Present(n)' = (Present(n) \ {i}) \cup {i + 1}
          /\ i \in Present(n) /\ i + 1 \notin Present(n)
      BY <1>1, <1>4, <1>7 DEF Present, Numbers
    <2>4. /\ Missing(n)' = (Missing(n) \ {i + 1}) \cup {i}
          /\ i + 1 \in Missing(n) /\ i \notin Missing(n)
      BY <1>1, <1>4, <1>7 DEF Missing, Numbers
    <2>5. Cardinality(Present(n)') = Cardinality(Present(n))
      <3>1. IsFiniteSet(Present(n)) /\ Cardinality(Present(n)) \in Nat
        BY <1>4, HoleTypes
      <3>2. /\ IsFiniteSet(Present(n) \ {i})
            /\ Cardinality(Present(n) \ {i}) = Cardinality(Present(n)) - 1
        BY <2>3, <3>1, FS_RemoveElement
      <3>3. Cardinality(Present(n)') = Cardinality(Present(n) \ {i}) + 1
        BY <2>3, <3>2, FS_AddElement
      <3> QED
        BY <3>1, <3>2, <3>3
    <2>6. Cardinality(Missing(n)') = Cardinality(Missing(n))
      <3>1. IsFiniteSet(Missing(n)) /\ Cardinality(Missing(n)) \in Nat
        BY <1>4, HoleTypes
      <3>2. /\ IsFiniteSet(Missing(n) \ {i + 1})
            /\ Cardinality(Missing(n) \ {i + 1}) = Cardinality(Missing(n)) - 1
        BY <2>4, <3>1, FS_RemoveElement
      <3>3. Cardinality(Missing(n)') = Cardinality(Missing(n) \ {i + 1}) + 1
        BY <2>4, <3>2, FS_AddElement
      <3> QED
        BY <3>1, <3>2, <3>3
    <2>7. Holes(n)' = Holes(n)
      <3>1. n > i + 1 /\ n > i' + 1
        BY <1>1, <1>2, <1>4, <1>7
      <3> QED
        BY <1>2, <1>3, <3>1 DEF Holes
    <2> QED
      BY <1>2, <1>3, <2>1, <2>2, <2>5, <2>6, <2>7
  <1> QED
    BY <1>1, <1>4, <1>5, <1>6, <1>7

(* File 1, which is full, becomes file 2, which no other number was taken  *)
(* for: what it had at least counts for the files above from now on as a   *)
(* full file.                                                              *)
LEMMA DeepRenameFirst ==
  ASSUME RotatingTypes, RotatingTypes', RotationInv, OldFilesDeep, RenameNext, files[i] # Absent,
         i = 1
  PROVE  OldFilesDeep'
  <1>1. /\ \A m \in Numbers : m \notin {1, 2} => files'[m] = files[m]
        /\ files[2] = Absent /\ files'[1] = Absent /\ files'[2] = files[1]
        /\ 2 <= MaxFiles /\ MaxFiles \in Nat
    BY HolesMoved, FilesAssumption
  <1>2. /\ pc = "rename" /\ pc' = "reopen" /\ i' = 1
        /\ is_txn' = is_txn /\ since' = since /\ saved' = saved /\ crashes' = crashes
        /\ saved \in Nat
    BY FilesAssumption DEF RenameNext, history, RotatingTypes, FilesTypeOK
  <1>3. FullSize' = FullSize /\ CutShort' = CutShort /\ CutShort \in Nat /\ FullSize \in Nat
    <2>1. FullSize \in Nat
      BY SizeTypes DEF RotatingTypes
    <2> QED
      BY <1>2, <2>1, FilesAssumption
         DEF FullSize, CutShort, RotatingTypes, FilesTypeOK
  <1>4. InFirst >= FullSize /\ InFirst \in Nat /\ InFirst' = 0
    <2>1. files[1] \in Seq(Nat) /\ Len(files[1]) \in Nat /\ Len(files[1]) > MaxFileSize
      BY <1>2, FilesAssumption DEF RotatingTypes, RotationInv, Numbers
    <2>2. files[1] \notin {Absent, << >>}
      BY <1>2, <2>1, FilesAssumption DEF RotationInv
    <2>3. InFirst = Len(files[1]) - (IF is_txn THEN 1 ELSE 0)
      BY <2>2 DEF InFirst
    <2>4. InFirst >= FullSize
      BY <2>1, <2>3, FilesAssumption DEF FullSize, RotatingTypes, FilesTypeOK
    <2>5. InFirst' = 0
      BY <1>1 DEF InFirst
    <2> QED
      BY <2>4, <2>5, FirstTypes
  <1> SUFFICES ASSUME NEW n \in 2..MaxFiles, files'[n] # Absent,
                      NEW k \in DOMAIN files'[n], files'[n][k] > since'
               PROVE  /\ files'[n][k] + InFirst' + FullSize' * Cardinality(Present(n)') <= saved'
                      /\ Cardinality(Missing(n)') <= Holes(n)'
    BY DEF OldFilesDeep
  <1>5. n \in Nat /\ n >= 2 /\ n \in Numbers
    BY <1>1 DEF Numbers
  <1>6. Holes(n)' = CutShort
    BY <1>2, <1>3 DEF Holes
  <1>7. files'[n][k] \in 0..saved
    BY <1>2, <1>5 DEF RotatingTypes, FilesTypeOK, Header
  <1>8. CASE n = 2
    <2>1. Present(n)' = {} /\ Missing(n)' = {}
      BY <1>8 DEF Present, Missing
    <2>2. Cardinality(Present(n)') = 0 /\ Cardinality(Missing(n)') = 0
      BY <2>1, FS_EmptySet
    <2> QED
      BY <1>2, <1>3, <1>4, <1>6, <1>7, <2>2
  <1>9. CASE n > 2
    <2>1. files'[n] = files[n]
      BY <1>1, <1>5, <1>9
    <2>2. /\ files[n][k] + InFirst + FullSize * Cardinality(Present(n)) <= saved
          /\ Cardinality(Missing(n)) <= Holes(n)
      BY <1>2, <2>1 DEF OldFilesDeep
    <2>3. Present(n)' = Present(n) \cup {2} /\ 2 \notin Present(n)
      BY <1>1, <1>5, <1>9 DEF Present, Numbers
    <2>4. Missing(n)' = Missing(n) \ {2} /\ 2 \in Missing(n)
      BY <1>1, <1>5, <1>9 DEF Missing, Numbers
    <2>5. /\ IsFiniteSet(Present(n)) /\ Cardinality(Present(n)) \in Nat
          /\ IsFiniteSet(Missing(n)) /\ Cardinality(Missing(n)) \in Nat
      BY <1>5, HoleTypes
    <2>6. Cardinality(Present(n)') = Cardinality(Present(n)) + 1
      BY <2>3, <2>5, FS_AddElement
    <2>7. Cardinality(Missing(n)') = Cardinality(Missing(n)) - 1
      BY <2>4, <2>5, FS_RemoveElement
    <2>8. Holes(n) = CutShort + 1
      <3>1. n > i + 1
        BY <1>5, <1>9
      <3> QED
        BY <1>2, <1>3, <3>1 DEF Holes
    <2>9. Cardinality(Missing(n)') <= Holes(n)'
      BY <1>3, <1>6, <2>2, <2>5, <2>7, <2>8
    <2> DEFINE p == Cardinality(Present(n))
    <2>10. /\ FullSize * (p + 1) = FullSize * p + FullSize
           /\ FullSize * p \in Nat
      BY <1>3, <2>5, OneMore
    <2>11. files[n][k] + 0 + FullSize * (p + 1) <= saved
      BY <1>2, <1>3, <1>4, <1>7, <2>1, <2>2, <2>10
    <2> QED
      BY <1>2, <1>3, <1>4, <2>1, <2>6, <2>9, <2>11
  <1> QED
    BY <1>5, <1>8, <1>9

LEMMA DeepRename ==
  ASSUME RotatingTypes, RotatingTypes', RotationInv, OldFilesDeep, RenameNext
  PROVE  OldFilesDeep'
  BY DeepRenameNothing, DeepRenameFile, DeepRenameFirst

LEMMA DeepNext == FilesIInv /\ RotatingTypes' /\ [FilesNext]_filesVars => OldFilesDeep'
  <1> SUFFICES ASSUME FilesIInv, RotatingTypes', [FilesNext]_filesVars
               PROVE  OldFilesDeep'
    OBVIOUS
  <1>1. RotatingTypes /\ RotationInv /\ OldFilesDeep /\ FilesTypeOK
    BY DEF FilesIInv, RotatingTypes
  <1>2. 1 \in Numbers /\ ~(1 \in 2..MaxFiles) /\ 2..MaxFiles \subseteq Numbers
    BY FilesAssumption DEF Numbers
  <1>3. InFirst \in Nat /\ saved \in Nat /\ since \in Nat /\ crashes \in Nat
    BY <1>1, FirstTypes, FilesAssumption DEF FilesTypeOK
  <1>4. files \in [Numbers -> Seq(Nat) \cup {Absent}] /\ Absent # << >> /\ is_txn \in BOOLEAN
    <2>1. << >> \in Seq(Nat)
      OBVIOUS
    <2> QED
      BY <1>1, <2>1, FilesAssumption DEF RotatingTypes, FilesTypeOK
  <1>5. CASE StartTxn
    <2>1. InFirst' = InFirst
      BY <1>2, <1>4, <1>5 DEF StartTxn, InFirst
    <2>2. /\ \A n \in 2..MaxFiles : files'[n] = files[n]
          /\ is_txn' = is_txn /\ since' = since /\ saved' = saved /\ pc # "rename"
          /\ CutShort' = CutShort
      BY <1>2, <1>4, <1>5 DEF StartTxn, CutShort, history
    <2> QED
      BY <1>1, <1>3, <2>1, <2>2, DeepKept DEF CutShort
  <1>6. CASE WriteHeader
    <2>1. InFirst' = InFirst
      BY <1>1, <1>2, <1>4, <1>6 DEF WriteHeader, InFirst, RotationInv
    <2>2. /\ \A n \in 2..MaxFiles : files'[n] = files[n]
          /\ is_txn' = is_txn /\ since' = since /\ saved' = saved /\ pc # "rename"
          /\ CutShort' = CutShort
      BY <1>2, <1>4, <1>6 DEF WriteHeader, CutShort, history
    <2> QED
      BY <1>1, <1>3, <2>1, <2>2, DeepKept DEF CutShort
  <1>7. CASE StartLog
    BY <1>1, <1>7, DeepStartLog
  <1>8. CASE BeginSave \/ UNCHANGED filesVars
    <2>1. InFirst' = InFirst
      <3>1. files' = files /\ is_txn' = is_txn
        BY <1>8 DEF BeginSave, filesVars
      <3> QED
        BY <3>1 DEF InFirst
    <2>2. /\ \A n \in 2..MaxFiles : files'[n] = files[n]
          /\ is_txn' = is_txn /\ since' = since /\ saved' = saved
          /\ pc = "rename" => pc' = "rename" /\ i' = i
          /\ CutShort' = CutShort
      BY <1>8 DEF BeginSave, filesVars, CutShort, history
    <2> QED
      BY <1>1, <1>3, <2>1, <2>2, DeepKept DEF CutShort
  <1>9. CASE RemoveOldest
    BY <1>1, <1>9, DeepRemove
  <1>10. CASE RenameNext
    BY <1>1, <1>10, DeepRename
  <1>11. CASE Reopen
    <2>1. InFirst' = 0
      BY <1>2, <1>4, <1>11 DEF Reopen, InFirst
    <2>2. /\ \A n \in 2..MaxFiles : files'[n] = files[n]
          /\ is_txn' = is_txn /\ since' = since /\ saved' = saved /\ pc # "rename"
          /\ CutShort' = CutShort
      BY <1>2, <1>4, <1>11 DEF Reopen, CutShort, history
    <2> QED
      BY <1>1, <1>3, <2>1, <2>2, DeepKept DEF CutShort
  <1>12. CASE WriteRecord
    <2>1. InFirst' - InFirst <= 1
      <3>1. /\ files' = [files EXCEPT ![1] = Append(files[1], saved + 1)]
            /\ files[1] # Absent /\ saved + 1 \in Nat /\ is_txn' = is_txn
        BY <1>1, <1>3, <1>12 DEF WriteRecord, FilesTypeOK
      <3> QED
        BY <1>1, <3>1, FirstAppended
    <2>2. /\ \A n \in 2..MaxFiles : files'[n] = files[n]
          /\ is_txn' = is_txn /\ since' = since /\ saved' = saved + 1 /\ pc # "rename"
          /\ CutShort' = CutShort
      BY <1>2, <1>4, <1>12 DEF WriteRecord, CutShort, history
    <2> QED
      BY <1>1, <1>3, <2>1, <2>2, DeepKept DEF CutShort
  <1>13. CASE log_emit
    <2>1. InFirst' - InFirst <= 1
      <3>1. CASE pc \in {"idle", "write"}
        BY <1>1, <1>3, <1>13, <3>1, FirstAppended DEF log_emit, FilesTypeOK
      <3>2. CASE pc \notin {"idle", "write"}
        <4>1. InFirst' = InFirst
          BY <1>13, <3>2 DEF log_emit, InFirst
        <4> QED
          BY <4>1, <1>3
      <3> QED
        BY <3>1, <3>2
    <2>2. /\ \A n \in 2..MaxFiles : files'[n] = files[n]
          /\ is_txn' = is_txn /\ since' = since /\ saved' = saved + 1
          /\ pc' = pc /\ i' = i
          /\ CutShort' = CutShort
      BY <1>2, <1>4, <1>13 DEF log_emit, CutShort
    <2> QED
      BY <1>1, <1>3, <2>1, <2>2, DeepKept DEF CutShort
  <1>14. CASE Crash
    <2>1. InFirst' = InFirst
      BY <1>14 DEF Crash, InFirst
    <2>2. /\ \A n \in 2..MaxFiles : files'[n] = files[n]
          /\ is_txn' = is_txn /\ since' = since /\ saved' = saved
          /\ CutShort' >= CutShort + 1
      BY <1>3, <1>4, <1>14 DEF Crash, CutShort
    <2> QED
      BY <1>1, <1>3, <2>1, <2>2, DeepKept DEF CutShort
  <1> QED
    BY <1>5, <1>6, <1>7, <1>8, <1>9, <1>10, <1>11, <1>12, <1>13, <1>14
       DEF FilesNext, Save, Rotate

-----------------------------------------------------------------------------
LEMMA FullTypes == FilesTypeOK => FullSize \in Nat /\ FullFiles \in Nat /\ FullFiles >= 1
  BY FilesAssumption, SMTT(30) DEF FullSize, FullFiles, FilesTypeOK

(* The older records may be, the fewer files are promised.                 *)
LEMMA PromiseShrinks ==
  ASSUME RotatingTypes, RotatingTypes', is_txn' = is_txn, crashes' >= crashes
  PROVE  /\ FullSize * FullFiles \in Nat /\ FullSize' * FullFiles' \in Nat
         /\ FullSize' * FullFiles' <= FullSize * FullFiles
  <1>1. FilesTypeOK /\ crashes \in Nat /\ crashes' \in Nat /\ is_txn \in BOOLEAN
    BY FilesAssumption DEF RotatingTypes, FilesTypeOK
  <1>2. FullSize' = FullSize /\ FullSize \in Nat /\ FullFiles \in Nat
    BY <1>1, FullTypes DEF FullSize
  <1>3. FullFiles' \in Nat /\ FullFiles' <= FullFiles
    BY <1>1, FilesAssumption DEF FullFiles
  <1> DEFINE a == FullFiles
             b == FullFiles'
             c == FullSize
  <1>4. a \in Nat /\ b \in Nat /\ c \in Nat /\ b <= a
    BY <1>2, <1>3
  <1> HIDE DEF a, b, c
  <1>5. c * b <= c * a /\ c * a \in Nat /\ c * b \in Nat
    BY <1>4, Larger, OneMore
  <1> QED
    BY <1>2, <1>5 DEF a, b, c

(* The records stay readable in steps that lose none of them.              *)
LEMMA NewestStays ==
  ASSUME RotatingTypes, RotatingTypes', NewestKept,
         is_txn' = is_txn, crashes' >= crashes, since' >= since, saved' >= saved,
         lost \subseteq lost',
         \A r \in Nat : r <= saved /\ r > since' /\ Readable(r) => Readable(r)',
         \A r \in Nat : r > saved /\ r <= saved' /\ r \notin lost' => Readable(r)'
  PROVE  NewestKept'
  <1> SUFFICES ASSUME NEW r \in (since' + 1)..saved', r \notin lost',
                      r > saved' - FullSize' * FullFiles'
               PROVE  Readable(r)'
    BY DEF NewestKept
  <1>1. /\ since \in Nat /\ since' \in Nat /\ saved \in Nat /\ saved' \in Nat
        /\ r \in Nat /\ r > since' /\ r <= saved'
    <2>1. since \in Nat /\ since' \in Nat /\ saved \in Nat /\ saved' \in Nat
      BY FilesAssumption DEF RotatingTypes, FilesTypeOK
    <2> DEFINE s == since'
               t == saved'
    <2>2. s \in Nat /\ t \in Nat /\ r \in (s + 1)..t
      BY <2>1
    <2> HIDE DEF s, t
    <2>3. r \in Nat /\ r > s /\ r <= t
      BY <2>2
    <2> QED
      BY <2>1, <2>3 DEF s, t
  <1>2. CASE r > saved
    BY <1>1, <1>2
  <1>3. CASE r <= saved
    <2> DEFINE promised == FullSize * FullFiles
               left == FullSize' * FullFiles'
    <2>1. promised \in Nat /\ left \in Nat /\ left <= promised
      BY PromiseShrinks
    <2>2. r > saved' - left
      OBVIOUS
    <2> HIDE DEF promised, left
    <2>3. r > saved - promised
      <3> DEFINE s == saved
                 t == saved'
      <3>1. s \in Nat /\ t \in Nat /\ s <= t /\ r > t - left /\ r \in Nat
        BY <1>1, <2>2
      <3> HIDE DEF s, t
      <3>2. r > s - promised
        BY <2>1, <3>1
      <3> QED
        BY <3>2 DEF s
    <2>4. r \in (since + 1)..saved /\ r \notin lost
      BY <1>1, <1>3
    <2>5. Readable(r)
      BY <2>3, <2>4 DEF NewestKept, promised
    <2> QED
      BY <1>1, <1>3, <2>5
  <1> QED
    BY <1>1, <1>2, <1>3

(* The records of the oldest file have been followed by full files in all  *)
(* the other numbers but the missing ones.                                 *)
LEMMA NewestRemove ==
  ASSUME RotatingTypes, RotatingTypes', RotationInv, OldFilesDeep, NewestKept, RemoveOldest
  PROVE  NewestKept'
  <1>1. /\ is_txn' = is_txn /\ crashes' = crashes /\ since' = since /\ saved' = saved
        /\ lost' = lost /\ pc = "remove"
        /\ \A m \in Numbers : m # MaxFiles => files'[m] = files[m]
    BY FilesAssumption DEF RemoveOldest, history, RotatingTypes, Numbers
  <1>2. FilesTypeOK /\ MaxFiles \in Nat /\ MaxFiles >= 2 /\ MaxFiles \in 2..MaxFiles
    BY FilesAssumption DEF RotatingTypes
  <1>3. FullSize' = FullSize /\ FullFiles' = FullFiles
    BY <1>1 DEF FullSize, FullFiles
  <1> SUFFICES ASSUME NEW r \in (since + 1)..saved, r \notin lost,
                      r > saved - FullSize * FullFiles
               PROVE  Readable(r)'
    BY <1>1, <1>3 DEF NewestKept
  <1>4. PICK n \in Numbers : r \in {Lines(n)[k] : k \in DOMAIN Lines(n)}
    BY DEF NewestKept, Readable
  <1>5. CASE n # MaxFiles
    BY <1>1, <1>4, <1>5 DEF Readable, Lines
  <1>6. CASE n = MaxFiles
    <2>1. files[n] # Absent /\ \E k \in DOMAIN files[n] : r = files[n][k]
      BY <1>4 DEF Lines
    <2>2. PICK k \in DOMAIN files[n] : r = files[n][k]
      BY <2>1
    <2>3. r \in Nat /\ r > since /\ saved \in Nat /\ crashes \in Nat
      BY FilesAssumption, <1>2 DEF FilesTypeOK
    <2> DEFINE p == Cardinality(Present(MaxFiles))
               m == Cardinality(Missing(MaxFiles))
    <2>4. r + InFirst + FullSize * p <= saved /\ m <= Holes(MaxFiles)
      BY <1>2, <1>6, <2>1, <2>2, <2>3 DEF OldFilesDeep
    <2>5. p \in Nat /\ m \in Nat /\ p + m = MaxFiles - 2
      BY <1>2, HoleTypes, HolesCounted
    <2>6. Holes(MaxFiles) = IF is_txn THEN crashes ELSE 0
      BY <1>1, <1>2, <2>3 DEF Holes, CutShort, FilesTypeOK
    <2>7. InFirst >= FullSize /\ InFirst \in Nat /\ FullSize \in Nat /\ FullFiles \in Nat
      <3>1. files[1] \in Seq(Nat) /\ Len(files[1]) \in Nat /\ Len(files[1]) > MaxFileSize
        BY <1>1, FilesAssumption DEF RotatingTypes, RotationInv, Numbers
      <3>2. files[1] \notin {Absent, << >>}
        BY <1>1, <3>1, FilesAssumption DEF RotationInv
      <3>3. InFirst = Len(files[1]) - (IF is_txn THEN 1 ELSE 0)
        BY <3>2 DEF InFirst
      <3>4. InFirst >= FullSize
        BY <1>2, <3>1, <3>3, FilesAssumption DEF FullSize, FilesTypeOK
      <3> QED
        BY <1>2, <3>4, FirstTypes, FullTypes
    <2>8. FullFiles <= p + 1
      BY <1>2, <2>3, <2>4, <2>5, <2>6 DEF FullFiles, FilesTypeOK
    <2> HIDE DEF p, m
    <2>9. /\ FullSize * (p + 1) = FullSize * p + FullSize /\ FullSize * p \in Nat
          /\ FullSize * FullFiles <= FullSize * (p + 1) /\ FullSize * FullFiles \in Nat
      <3>1. p + 1 \in Nat
        BY <2>5
      <3> QED
        BY <2>5, <2>7, <2>8, <3>1, OneMore, Larger
    <2>10. r + FullSize * (p + 1) <= saved
      BY <2>3, <2>4, <2>7, <2>9
    <2>11. r + FullSize * FullFiles <= saved
      <3> DEFINE a == FullSize * FullFiles
                 b == FullSize * (p + 1)
      <3>1. a \in Nat /\ b \in Nat /\ a <= b /\ r + b <= saved
        BY <2>5, <2>7, <2>9, <2>10
      <3> HIDE DEF a, b
      <3>2. r + a <= saved
        BY <2>3, <3>1
      <3> QED
        BY <3>2 DEF a
    <2> QED
      BY <2>3, <2>9, <2>11
  <1> QED
    BY <1>5, <1>6

(* Only the start of the log and the removal of the oldest file lose       *)
(* records that could be read, and only a line that is written in order    *)
(* becomes readable.                                                       *)
ReadableKept ==
  /\ is_txn' = is_txn /\ crashes' >= crashes /\ since' = since /\ saved' >= saved
  /\ lost \subseteq lost'
  /\ \A r \in Nat : Readable(r) => Readable(r)'
  /\ \A r \in Nat : r > 0 /\ r <= saved /\ Readable(r)' => Readable(r)
  /\ \A r \in Nat : r > saved /\ r <= saved' /\ r \notin lost' => Readable(r)'

(* It is enough to look at the lines of the files that are there.          *)
LEMMA ReadableFiles ==
  ASSUME NEW r
  PROVE  /\ Readable(r) <=> \E n \in Numbers : files[n] # Absent /\ \E k \in DOMAIN files[n] : files[n][k] = r
         /\ Readable(r)' <=> \E n \in Numbers : files'[n] # Absent /\ \E k \in DOMAIN files'[n] : files'[n][k] = r
  BY DEF Readable, Lines

LEMMA ReadableNext ==
  ASSUME RotatingTypes, RotatingTypes', RotationInv, [FilesNext]_filesVars,
         ~StartLog, ~RemoveOldest
  PROVE  ReadableKept
  <1>1. /\ FilesTypeOK
        /\ saved \in Nat /\ since \in Nat /\ crashes \in Nat /\ since <= saved
    BY FilesAssumption DEF RotatingTypes, FilesTypeOK
  <1>2. 1 \in Numbers /\ files \in [Numbers -> Seq(Nat) \cup {Absent}] /\ MaxFiles \in Nat
    BY <1>1, FilesAssumption DEF Numbers, RotatingTypes
  <1>3. CASE StartTxn \/ WriteHeader
    <2>1. /\ is_txn' = is_txn /\ crashes' = crashes /\ since' = since /\ saved' = saved
          /\ lost' = lost
          /\ \A n \in Numbers : n # 1 => files'[n] = files[n]
          /\ files'[1] # files[1] => files[1] \in {Absent, << >>} /\ files'[1] \in {<< >>, <<0>>}
      BY <1>2, <1>3 DEF StartTxn, WriteHeader, history, Header
    <2>2. ASSUME NEW r \in Nat
          PROVE  /\ Readable(r) => Readable(r)'
                 /\ r > 0 /\ Readable(r)' => Readable(r)
      BY <1>2, <2>1, ReadableFiles
    <2> QED
      BY <1>1, <2>1, <2>2 DEF ReadableKept
  <1>4. CASE BeginSave \/ Crash \/ UNCHANGED filesVars
    <2>1. /\ is_txn' = is_txn /\ crashes' >= crashes /\ since' = since /\ saved' = saved
          /\ lost' = lost /\ files' = files
      BY <1>1, <1>4 DEF BeginSave, Crash, filesVars, history
    <2>2. ASSUME NEW r \in Nat
          PROVE  Readable(r)' <=> Readable(r)
      BY <2>1 DEF Readable, Lines
    <2> QED
      BY <1>1, <2>1, <2>2 DEF ReadableKept
  <1>5. CASE RenameNext
    <2>1. /\ is_txn' = is_txn /\ crashes' = crashes /\ since' = since /\ saved' = saved
          /\ lost' = lost
      BY <1>5 DEF RenameNext, history
    <2>2. ASSUME NEW r \in Nat
          PROVE  Readable(r)' <=> Readable(r)
      <3>1. CASE files[i] = Absent
        <4>1. files' = files
          BY <1>5, <3>1 DEF RenameNext
        <4> QED
          BY <4>1 DEF Readable, Lines
      <3>2. CASE files[i] # Absent
        <4>1. /\ \A m \in Numbers : m \notin {i, i + 1} => files'[m] = files[m]
              /\ files[i + 1] = Absent /\ files'[i] = Absent /\ files'[i + 1] = files[i]
              /\ i \in Numbers /\ i + 1 \in Numbers
          BY <1>1, <1>2, <1>5, <3>2, HolesMoved DEF Numbers
        <4>2. PICK m \in Numbers : m = i + 1
          BY <4>1
        <4> QED
          BY <4>1, <4>2, ReadableFiles
      <3> QED
        BY <3>1, <3>2
    <2> QED
      BY <1>1, <2>1, <2>2 DEF ReadableKept
  <1>6. CASE Reopen
    <2>1. /\ is_txn' = is_txn /\ crashes' = crashes /\ since' = since /\ saved' = saved
          /\ lost' = lost
          /\ files[1] = Absent /\ files'[1] = << >>
          /\ \A n \in Numbers : n # 1 => files'[n] = files[n]
      BY <1>1, <1>2, <1>6 DEF Reopen, history, RotationInv
    <2>2. ASSUME NEW r \in Nat
          PROVE  Readable(r)' <=> Readable(r)
      BY <1>2, <2>1, ReadableFiles
    <2> QED
      BY <1>1, <2>1, <2>2 DEF ReadableKept
  <1>7. CASE WriteRecord \/ log_emit
    <2>1. /\ is_txn' = is_txn /\ crashes' = crashes /\ since' = since /\ saved' = saved + 1
          /\ \/ lost' = lost /\ files[1] # Absent
                /\ files' = [files EXCEPT ![1] = Append(files[1], saved + 1)]
             \/ lost' = lost \cup {saved + 1} /\ files' = files
      <3>1. CASE WriteRecord
        BY <1>1, <3>1 DEF WriteRecord, history, FilesTypeOK
      <3>2. CASE log_emit
        <4>1. CASE pc \in {"idle", "write"}
          BY <1>1, <3>2, <4>1 DEF log_emit, FilesTypeOK
        <4>2. CASE pc \notin {"idle", "write"}
          BY <3>2, <4>2 DEF log_emit
        <4> QED
          BY <4>1, <4>2
      <3> QED
        BY <1>7, <3>1, <3>2
    <2>2. CASE lost' = lost \cup {saved + 1} /\ files' = files
      <3>1. ASSUME NEW r \in Nat
            PROVE  Readable(r)' <=> Readable(r)
        BY <2>2 DEF Readable, Lines
      <3>2. \A r \in Nat : r > saved /\ r <= saved' => r \in lost'
        BY <1>1, <2>1, <2>2
      <3> QED
        BY <1>1, <2>1, <2>2, <3>1, <3>2 DEF ReadableKept
    <2>3. CASE /\ lost' = lost /\ files[1] # Absent
               /\ files' = [files EXCEPT ![1] = Append(files[1], saved + 1)]
      <3>1. /\ files[1] \in Seq(Nat) /\ files'[1] = Append(files[1], saved + 1)
            /\ files'[1] # Absent
            /\ \A n \in Numbers : n # 1 => files'[n] = files[n]
        <4>1. files[1] \in Seq(Nat) /\ files'[1] = Append(files[1], saved + 1)
          BY <1>2, <2>3
        <4>2. files'[1] \in Seq(Nat)
          BY <1>1, <4>1, Appended
        <4> QED
          BY <1>2, <2>3, <4>1, <4>2, FilesAssumption
      <3>2. /\ \A k \in DOMAIN files[1] : k \in DOMAIN files'[1] /\ files'[1][k] = files[1][k]
            /\ \E k \in DOMAIN files'[1] : files'[1][k] = saved + 1
            /\ \A k \in DOMAIN files'[1] :
                 \/ k \in DOMAIN files[1] /\ files'[1][k] = files[1][k]
                 \/ files'[1][k] = saved + 1
        <4>1. saved + 1 \in Nat
          BY <1>1
        <4>2. /\ \A k \in DOMAIN files[1] :
                   /\ k \in DOMAIN Append(files[1], saved + 1)
                   /\ Append(files[1], saved + 1)[k] = files[1][k]
              /\ \E k \in DOMAIN Append(files[1], saved + 1) :
                   Append(files[1], saved + 1)[k] = saved + 1
          BY <3>1, <4>1, AppendKeeps
        <4>3. \A k \in DOMAIN Append(files[1], saved + 1) :
                \/ /\ k \in DOMAIN files[1]
                   /\ Append(files[1], saved + 1)[k] = files[1][k]
                \/ Append(files[1], saved + 1)[k] = saved + 1
          BY <3>1, <4>1, Appended
        <4> QED
          BY <3>1, <4>2, <4>3, Zenon
      <3>3. ASSUME NEW r \in Nat
            PROVE  Readable(r) => Readable(r)'
        BY <2>3, <3>1, <3>2, ReadableFiles
      <3>4. ASSUME NEW r \in Nat, r > saved, r <= saved'
            PROVE  Readable(r)'
        <4>1. r = saved + 1
          BY <1>1, <2>1, <3>4
        <4> QED
          BY <1>2, <3>1, <3>2, <4>1, ReadableFiles
      <3>5. ASSUME NEW r \in Nat, r <= saved, Readable(r)'
            PROVE  Readable(r)
        <4>1. r # saved + 1
          BY <1>1, <3>5
        <4> QED
          BY <2>3, <3>1, <3>2, <3>5, <4>1, ReadableFiles
      <3> QED
        BY <1>1, <2>1, <2>3, <3>3, <3>4, <3>5 DEF ReadableKept
    <2> QED
      BY <2>1, <2>2, <2>3
  <1> QED
    BY <1>3, <1>4, <1>5, <1>6, <1>7 DEF FilesNext, Save, Rotate

LEMMA NewestNext == FilesIInv /\ RotatingTypes' /\ [FilesNext]_filesVars => NewestKept'
  <1> SUFFICES ASSUME FilesIInv, RotatingTypes', [FilesNext]_filesVars
               PROVE  NewestKept'
    OBVIOUS
  <1>1. RotatingTypes /\ RotationInv /\ OldFilesDeep /\ NewestKept
    BY DEF FilesIInv
  <1>2. CASE StartLog
    <2>1. since' = saved /\ saved' = saved /\ saved \in Nat
      BY <1>1, <1>2, FilesAssumption DEF StartLog, RotatingTypes, FilesTypeOK
    <2>2. (since' + 1)..saved' = {}
      BY <2>1
    <2> QED
      BY <2>2 DEF NewestKept
  <1>3. CASE RemoveOldest
    BY <1>1, <1>3, NewestRemove
  <1>4. CASE ~StartLog /\ ~RemoveOldest
    <2>1. ReadableKept
      BY <1>1, <1>4, ReadableNext
    <2>2. since \in Nat
      BY <1>1, FilesAssumption DEF RotatingTypes, FilesTypeOK
    <2> QED
      BY <1>1, <2>1, <2>2, NewestStays DEF ReadableKept
  <1> QED
    BY <1>2, <1>3, <1>4

-----------------------------------------------------------------------------
LEMMA FilesIInvNext == FilesIInv /\ [FilesNext]_filesVars => FilesIInv'
  <1> SUFFICES ASSUME FilesIInv, [FilesNext]_filesVars
               PROVE  FilesIInv'
    OBVIOUS
  <1>1. RotatingTypes' /\ RotationInv' /\ HeaderOnTop'
    BY TypesNext, RotationNext, HeaderNext DEF FilesIInv
  <1>2. OldFilesDeep' /\ NewestKept'
    BY <1>1, DeepNext, NewestNext
  <1> QED
    BY <1>1, <1>2 DEF FilesIInv

(* Where a rotation is, which files a death left out and how deep the      *)
(* older lines lie are kept by every system call and every death.          *)
THEOREM FilesIInvariant == FilesSpec => []FilesIInv
  <1> QED
    BY FilesIInvInit, FilesIInvNext, PTL DEF FilesSpec

(* The files of rotate_txn_file and rotate_log_file are well formed at     *)
(* every step of a rotation and after every death, the column names are    *)
(* the first line of a file or are not in it, and whoever is about to      *)
(* write has a file to write to.                                           *)
THEOREM FilesWellFormed == FilesSpec => []FilesInv
  <1>1. FilesIInv => FilesInv
    BY DEF FilesIInv, RotatingTypes, FilesInv
  <1> QED
    BY <1>1, FilesIInvariant, PTL

(* What save_txn_task has written stays readable until full files of newer *)
(* records have pushed it out, at least one of them and one fewer for      *)
(* every death of the process, however long ago; what logging_task has     *)
(* written since the program was started, until all the other files are    *)
(* full of newer lines.                                                    *)
THEOREM SavedStaysReadable == FilesSpec => []NewestKept
  <1>1. FilesIInv => NewestKept
    BY DEF FilesIInv
  <1> QED
    BY <1>1, FilesIInvariant, PTL

-----------------------------------------------------------------------------
(* What the journal of RotatingFiles means for two records: the files with *)
(* higher numbers have the older ones, and so have the higher lines of a   *)
(* file; no record is in two places.                                       *)
InOrder ==
  \A n, m \in Numbers : \A j \in DOMAIN Lines(n), k \in DOMAIN Lines(m) :
    /\ Lines(n)[j] # Header /\ Lines(m)[k] # Header
    /\ n > m \/ (n = m /\ j < k)
    => Lines(n)[j] < Lines(m)[k]

(* And for three: no record is missing between two that can be read.       *)
NoneMissing ==
  \A r \in (since + 1)..saved \ lost :
    (\E q \in (since + 1)..r : Readable(q)) => Readable(r)

JournalIInv == FilesIInv /\ InOrder /\ NoneMissing

(* The order stays when files keep their lines or have no records.         *)
LEMMA OrderKept ==
  ASSUME InOrder,
         \A n \in Numbers : \/ files'[n] = files[n]
                            \/ \A k \in DOMAIN Lines(n)' : Lines(n)'[k] = Header
  PROVE  InOrder'
  <1> SUFFICES ASSUME NEW n \in Numbers, NEW m \in Numbers,
                      NEW j \in DOMAIN Lines(n)', NEW k \in DOMAIN Lines(m)',
                      Lines(n)'[j] # Header, Lines(m)'[k] # Header,
                      n > m \/ (n = m /\ j < k)
               PROVE  Lines(n)'[j] < Lines(m)'[k]
    BY DEF InOrder
  <1>1. files'[n] = files[n] /\ files'[m] = files[m]
    OBVIOUS
  <1>2. Lines(n)' = Lines(n) /\ Lines(m)' = Lines(m)
    BY <1>1 DEF Lines
  <1> QED
    BY <1>2 DEF InOrder

LEMMA OrderAppend ==
  ASSUME RotatingTypes, InOrder, files[1] # Absent,
         files' = [files EXCEPT ![1] = Append(files[1], saved + 1)]
  PROVE  InOrder'
  <1>1. saved \in Nat /\ saved + 1 \in Nat
    BY FilesAssumption DEF RotatingTypes, FilesTypeOK
  <1>2. /\ files[1] \in Seq(Nat) /\ files'[1] = Append(files[1], saved + 1)
        /\ \A n \in Numbers : n # 1 => files'[n] = files[n]
    BY FilesAssumption DEF RotatingTypes, Numbers
  <1>3. files'[1] # Absent
    BY <1>1, <1>2, Appended, FilesAssumption
  <1>4. ASSUME NEW n \in Numbers, NEW k \in DOMAIN Lines(n)
        PROVE  Lines(n)[k] \in 0..saved
    BY <1>4 DEF Lines, RotatingTypes, FilesTypeOK, Header
  <1> SUFFICES ASSUME NEW n \in Numbers, NEW m \in Numbers,
                      NEW j \in DOMAIN Lines(n)', NEW k \in DOMAIN Lines(m)',
                      Lines(n)'[j] # Header, Lines(m)'[k] # Header,
                      n > m \/ (n = m /\ j < k)
               PROVE  Lines(n)'[j] < Lines(m)'[k]
    BY DEF InOrder
  <1>5. \/ j \in DOMAIN Lines(n) /\ Lines(n)'[j] = Lines(n)[j]
        \/ n = 1 /\ j = Len(files[1]) + 1 /\ Lines(n)'[j] = saved + 1
    <2>1. CASE n = 1
      <3>1. Lines(n)' = Append(files[1], saved + 1) /\ Lines(n) = files[1]
        BY <1>2, <1>3, <2>1 DEF Lines
      <3> QED
        BY <1>1, <1>2, <2>1, <3>1, Appended, SMTT(30)
    <2>2. CASE n # 1
      BY <1>2, <2>2 DEF Lines
    <2> QED
      BY <2>1, <2>2
  <1>6. \/ k \in DOMAIN Lines(m) /\ Lines(m)'[k] = Lines(m)[k]
        \/ m = 1 /\ k = Len(files[1]) + 1 /\ Lines(m)'[k] = saved + 1
    <2>1. CASE m = 1
      <3>1. Lines(m)' = Append(files[1], saved + 1) /\ Lines(m) = files[1]
        BY <1>2, <1>3, <2>1 DEF Lines
      <3> QED
        BY <1>1, <1>2, <2>1, <3>1, Appended, SMTT(30)
    <2>2. CASE m # 1
      BY <1>2, <2>2 DEF Lines
    <2> QED
      BY <2>1, <2>2
  <1>7. CASE /\ j \in DOMAIN Lines(n) /\ Lines(n)'[j] = Lines(n)[j]
             /\ k \in DOMAIN Lines(m) /\ Lines(m)'[k] = Lines(m)[k]
    BY <1>7 DEF InOrder
  <1>8. CASE /\ j \in DOMAIN Lines(n) /\ Lines(n)'[j] = Lines(n)[j]
             /\ Lines(m)'[k] = saved + 1
    <2>1. Lines(n)[j] \in 0..saved
      BY <1>4, <1>8
    <2> QED
      BY <1>1, <1>8, <2>1
  <1>9. CASE n = 1 /\ j = Len(files[1]) + 1 /\ Lines(n)'[j] = saved + 1
    <2>1. m = 1 /\ j < k
      BY <1>9, FilesAssumption DEF Numbers
    <2>2. k \in 1..(Len(files[1]) + 1)
      <3>1. Lines(m)' = Append(files[1], saved + 1)
        BY <1>2, <1>3, <2>1 DEF Lines
      <3>2. DOMAIN Append(files[1], saved + 1) = 1..(Len(files[1]) + 1)
        BY <1>1, <1>2
      <3> QED
        BY <3>1, <3>2
    <2> QED
      BY <1>2, <1>9, <2>1, <2>2
  <1> QED
    BY <1>5, <1>6, <1>7, <1>8, <1>9

(* Where the file with number n was before a renaming.                     *)
LEMMA OrderRename ==
  ASSUME RotatingTypes, RotationInv, InOrder, RenameNext
  PROVE  InOrder'
  <1>1. CASE files[i] = Absent
    <2>1. files' = files
      BY <1>1 DEF RenameNext
    <2> QED
      BY <2>1, OrderKept
  <1>2. CASE files[i] # Absent
    <2>1. /\ \A m \in Numbers : m \notin {i, i + 1} => files'[m] = files[m]
          /\ files[i + 1] = Absent /\ files'[i] = Absent /\ files'[i + 1] = files[i]
          /\ i \in Nat /\ i \in Numbers /\ i + 1 \in Numbers
      BY <1>2, HolesMoved, FilesAssumption DEF Numbers
    <2>2. Numbers \subseteq Nat
      BY FilesAssumption DEF Numbers
    <2> SUFFICES ASSUME NEW n \in Numbers, NEW m \in Numbers,
                        NEW j \in DOMAIN Lines(n)', NEW k \in DOMAIN Lines(m)',
                        Lines(n)'[j] # Header, Lines(m)'[k] # Header,
                        n > m \/ (n = m /\ j < k)
                 PROVE  Lines(n)'[j] < Lines(m)'[k]
      BY DEF InOrder
    <2>3. n # i /\ m # i
      BY <2>1 DEF Lines
    <2>4. PICK x \in Numbers : Lines(n)' = Lines(x) /\ x = (IF n = i + 1 THEN i ELSE n)
      BY <2>1, <2>3 DEF Lines
    <2>5. PICK y \in Numbers : Lines(m)' = Lines(y) /\ y = (IF m = i + 1 THEN i ELSE m)
      BY <2>1, <2>3 DEF Lines
    <2>6. x > y \/ (x = y /\ j < k)
      BY <2>1, <2>2, <2>3, <2>4, <2>5
    <2> QED
      BY <2>4, <2>5, <2>6 DEF InOrder
  <1> QED
    BY <1>1, <1>2

LEMMA OrderNext == FilesIInv /\ InOrder /\ [FilesNext]_filesVars => InOrder'
  <1> SUFFICES ASSUME FilesIInv, InOrder, [FilesNext]_filesVars
               PROVE  InOrder'
    OBVIOUS
  <1>1. RotatingTypes /\ RotationInv /\ FilesTypeOK
    BY DEF FilesIInv, RotatingTypes
  <1>2. 1 \in Numbers /\ files \in [Numbers -> Seq(Nat) \cup {Absent}]
    BY <1>1, FilesAssumption DEF Numbers, RotatingTypes
  <1>3. CASE StartTxn \/ StartLog \/ Reopen
    <2>1. /\ \A n \in Numbers : n # 1 => files'[n] = files[n]
          /\ files'[1] = files[1] \/ files'[1] = << >>
      BY <1>2, <1>3 DEF StartTxn, StartLog, Reopen
    <2>2. \A n \in Numbers : \/ files'[n] = files[n]
                             \/ \A k \in DOMAIN Lines(n)' : Lines(n)'[k] = Header
      BY <1>2, <2>1 DEF Lines
    <2> QED
      BY <2>2, OrderKept
  <1>4. CASE WriteHeader
    <2>1. /\ \A n \in Numbers : n # 1 => files'[n] = files[n]
          /\ files'[1] = files[1] \/ files'[1] = <<Header>>
      BY <1>2, <1>4 DEF WriteHeader
    <2>2. \A n \in Numbers : \/ files'[n] = files[n]
                             \/ \A k \in DOMAIN Lines(n)' : Lines(n)'[k] = Header
      BY <1>2, <2>1 DEF Lines
    <2> QED
      BY <2>2, OrderKept
  <1>5. CASE RemoveOldest
    <2>1. \A n \in Numbers : \/ files'[n] = files[n]
                             \/ \A k \in DOMAIN Lines(n)' : Lines(n)'[k] = Header
      BY <1>2, <1>5, FilesAssumption DEF RemoveOldest, Numbers, Lines
    <2> QED
      BY <2>1, OrderKept
  <1>6. CASE RenameNext
    BY <1>1, <1>6, OrderRename
  <1>7. CASE WriteRecord
    <2>1. files' = [files EXCEPT ![1] = Append(files[1], saved + 1)] /\ files[1] # Absent
      BY <1>1, <1>7 DEF WriteRecord, FilesTypeOK
    <2> QED
      BY <1>1, <2>1, OrderAppend
  <1>8. CASE log_emit
    <2>1. CASE pc \in {"idle", "write"}
      <3>1. files' = [files EXCEPT ![1] = Append(files[1], saved + 1)] /\ files[1] # Absent
        BY <1>1, <1>8, <2>1 DEF log_emit, FilesTypeOK
      <3> QED
        BY <1>1, <3>1, OrderAppend
    <2>2. CASE pc \notin {"idle", "write"}
      <3>1. files' = files
        BY <1>8, <2>2 DEF log_emit
      <3> QED
        BY <3>1, OrderKept
    <2> QED
      BY <2>1, <2>2
  <1>9. CASE BeginSave \/ Crash \/ UNCHANGED filesVars
    <2>1. files' = files
      BY <1>9 DEF BeginSave, Crash, filesVars
    <2> QED
      BY <2>1, OrderKept
  <1> QED
    BY <1>3, <1>4, <1>5, <1>6, <1>7, <1>8, <1>9 DEF FilesNext, Save, Rotate

(* The file that is removed has the oldest records.                        *)
LEMMA MissingRemove ==
  ASSUME RotatingTypes, InOrder, NoneMissing, RemoveOldest
  PROVE  NoneMissing'
  <1>1. /\ since' = since /\ saved' = saved /\ lost' = lost
        /\ files'[MaxFiles] = Absent
        /\ \A m \in Numbers : m # MaxFiles => files'[m] = files[m]
    BY FilesAssumption DEF RemoveOldest, history, RotatingTypes, Numbers
  <1>2. since \in Nat /\ saved \in Nat
    BY FilesAssumption DEF RotatingTypes, FilesTypeOK
  <1> SUFFICES ASSUME NEW r \in (since + 1)..saved, r \notin lost,
                      NEW q \in (since + 1)..r, Readable(q)'
               PROVE  Readable(r)'
    BY <1>1 DEF NoneMissing
  <1>3. r \in Nat /\ q \in Nat /\ q > 0 /\ q <= r
    BY <1>2
  <1>4. PICK m \in Numbers : files'[m] # Absent /\ \E k \in DOMAIN files'[m] : files'[m][k] = q
    BY ReadableFiles
  <1>5. m # MaxFiles /\ files'[m] = files[m]
    BY <1>1, <1>4
  <1>6. PICK k \in DOMAIN files[m] : files[m][k] = q
    BY <1>4, <1>5
  <1>7. Readable(q)
    BY <1>4, <1>5, ReadableFiles
  <1>8. Readable(r)
    BY <1>7 DEF NoneMissing
  <1>9. PICK n \in Numbers : files[n] # Absent /\ \E j \in DOMAIN files[n] : files[n][j] = r
    BY <1>8, ReadableFiles
  <1>10. PICK j \in DOMAIN files[n] : files[n][j] = r
    BY <1>9
  <1>11. n # MaxFiles
    <2>1. SUFFICES ASSUME n = MaxFiles
                   PROVE  FALSE
      OBVIOUS
    <2>2. n > m
      BY <1>5, <2>1, FilesAssumption DEF Numbers
    <2>3. Lines(n) = files[n] /\ Lines(m) = files[m]
      BY <1>4, <1>5, <1>9 DEF Lines
    <2>4. r < q
      BY <1>3, <1>6, <1>10, <2>2, <2>3 DEF InOrder, Header
    <2> QED
      BY <1>3, <2>4
  <1> QED
    BY <1>1, <1>9, <1>11, ReadableFiles

LEMMA MissingNext ==
  FilesIInv /\ InOrder /\ NoneMissing /\ RotatingTypes' /\ [FilesNext]_filesVars => NoneMissing'
  <1> SUFFICES ASSUME FilesIInv, InOrder, NoneMissing, RotatingTypes', [FilesNext]_filesVars
               PROVE  NoneMissing'
    OBVIOUS
  <1>1. RotatingTypes /\ RotationInv
    BY DEF FilesIInv
  <1>2. since \in Nat /\ saved \in Nat /\ saved' \in Nat
    BY <1>1, FilesAssumption DEF RotatingTypes, FilesTypeOK
  <1>3. CASE StartLog
    <2>1. since' = saved /\ saved' = saved
      BY <1>3 DEF StartLog
    <2>2. (since' + 1)..saved' = {}
      BY <1>2, <2>1
    <2> QED
      BY <2>2 DEF NoneMissing
  <1>4. CASE RemoveOldest
    BY <1>1, <1>4, MissingRemove
  <1>5. CASE ~StartLog /\ ~RemoveOldest
    <2>1. ReadableKept
      BY <1>1, <1>5, ReadableNext
    <2> SUFFICES ASSUME NEW r \in (since + 1)..saved', r \notin lost',
                        NEW q \in (since + 1)..r, Readable(q)'
                 PROVE  Readable(r)'
      BY <2>1 DEF NoneMissing, ReadableKept
    <2>2. r \in Nat /\ q \in Nat /\ q > 0 /\ q <= r /\ r <= saved' /\ r > since
      BY <1>2
    <2>3. CASE r > saved
      BY <2>1, <2>2, <2>3 DEF ReadableKept
    <2>4. CASE r <= saved
      <3>1. Readable(q)
        BY <1>2, <2>1, <2>2, <2>4 DEF ReadableKept
      <3>2. r \in (since + 1)..saved /\ r \notin lost
        BY <1>2, <2>1, <2>2, <2>4 DEF ReadableKept
      <3>3. Readable(r)
        BY <3>1, <3>2 DEF NoneMissing
      <3> QED
        BY <2>1, <2>2, <3>3 DEF ReadableKept
    <2> QED
      BY <1>2, <2>2, <2>3, <2>4
  <1> QED
    BY <1>3, <1>4, <1>5

(* Read in the order of their numbers the files never have a record out of *)
(* order or twice, in the middle of a rotation as little as after one that *)
(* a death cut short; and what save_txn_task has written, and what         *)
(* logging_task has written since the program was started, is never lost   *)
(* from between two records that can be read.                              *)
THEOREM ReadsAsJournal == FilesSpec => [](InOrder /\ NoneMissing)
  <1>1. FilesInit => JournalIInv
    <2> SUFFICES ASSUME FilesInit
                 PROVE  JournalIInv
      OBVIOUS
    <2>1. InOrder
      BY DEF FilesInit, InOrder, Lines
    <2>2. (since + 1)..saved = {}
      BY DEF FilesInit
    <2> QED
      BY <2>1, <2>2, FilesIInvInit DEF JournalIInv, NoneMissing
  <1>2. JournalIInv /\ [FilesNext]_filesVars => JournalIInv'
    <2> SUFFICES ASSUME JournalIInv, [FilesNext]_filesVars
                 PROVE  JournalIInv'
      OBVIOUS
    <2>1. FilesIInv' /\ RotatingTypes'
      BY FilesIInvNext DEF JournalIInv, FilesIInv
    <2>2. InOrder' /\ NoneMissing'
      BY <2>1, OrderNext, MissingNext DEF JournalIInv
    <2> QED
      BY <2>1, <2>2 DEF JournalIInv
  <1>3. JournalIInv => InOrder /\ NoneMissing
    BY DEF JournalIInv
  <1> QED
    BY <1>1, <1>2, <1>3, PTL DEF FilesSpec

-----------------------------------------------------------------------------
(* The journal is a fold of the pieces that the files hold.  What a fold   *)
(* of lists computes is found from its definition: two functions that obey *)
(* the same recursion agree, for there is no least argument at which they  *)
(* differ.                                                                 *)

(* Induction for a set of numbers.                                         *)
LEMMA NumbersInduction ==
  ASSUME NEW S \in SUBSET Nat, 0 \in S, \A n \in S : n + 1 \in S
  PROVE  S = Nat
  <1> DEFINE T == Nat \ S
             less == OpToRel(<, Nat)
  <1> SUFFICES ASSUME T # {} PROVE FALSE
    OBVIOUS
  <1>1. PICK x \in T : \A y \in T : <<y, x>> \notin less
    <2>1. T \subseteq Nat
      OBVIOUS
    <2> HIDE DEF T
    <2> QED
      BY <2>1, WFMin, NatLessThanWellFounded
  <1>2. x \in Nat /\ x # 0 /\ x - 1 \in Nat /\ x - 1 < x
    OBVIOUS
  <1>3. x - 1 \notin T
    BY <1>1, <1>2 DEF OpToRel
  <1>4. x - 1 \in S
    BY <1>2, <1>3
  <1>5. x - 1 + 1 = x
    BY <1>2
  <1> QED
    BY <1>4, <1>5

(* One sequence and then another.                                          *)
Cat(a, b) == a \o b

(* c[j] is the first j of the sequences s[1], ..., s[n], joined.           *)
Joins(c, s, n) ==
  /\ c[1] = s[1]
  /\ \A j \in 2..n : c[j] = Cat(c[j - 1], s[j])

(* A join of m sequences extends to one of m + 1, so there is one of all.  *)
LEMMA JoinsOneMore ==
  ASSUME NEW n \in Nat \ {0}, NEW V, NEW s \in [1..n -> Seq(V)],
         NEW m \in 1..n, m + 1 <= n, NEW c \in [1..n -> Seq(V)], Joins(c, s, m)
  PROVE  \E d \in [1..n -> Seq(V)] : Joins(d, s, m + 1)
  <1> DEFINE x == Cat(c[m], s[m + 1])
             d == [c EXCEPT ![m + 1] = x]
  <1>1. c[m] \in Seq(V) /\ s[m + 1] \in Seq(V)
    OBVIOUS
  <1>2. x \in Seq(V)
    BY <1>1 DEF Cat
  <1> HIDE DEF x
  <1>3. m + 1 \in 1..n /\ 1 \in 1..n /\ 1..m \subseteq 1..n
    OBVIOUS
  <1>4. d \in [1..n -> Seq(V)] /\ d[m + 1] = x /\ \A j \in 1..m : d[j] = c[j]
    BY <1>2, <1>3
  <1> HIDE DEF d
  <1>5. d[1] = s[1]
    BY <1>4 DEF Joins
  <1>6. ASSUME NEW j \in 2..(m + 1)
        PROVE  d[j] = Cat(d[j - 1], s[j])
    <2>1. CASE j = m + 1
      <3>1. d[j] = x /\ j - 1 = m /\ m \in 1..m
        BY <2>1, <1>4
      <3>2. d[j - 1] = c[m]
        BY <3>1, <1>4
      <3> QED
        BY <3>1, <3>2, <2>1 DEF x
    <2>2. CASE j # m + 1
      <3>1. j \in 2..m /\ j \in 1..m /\ j - 1 \in 1..m
        BY <2>2
      <3> QED
        BY <3>1, <1>4 DEF Joins
    <2> QED
      BY <2>1, <2>2
  <1>7. Joins(d, s, m + 1)
    BY <1>5, <1>6 DEF Joins
  <1> QED
    BY <1>4, <1>7

LEMMA JoinsAll ==
  ASSUME NEW n \in Nat \ {0}, NEW V, NEW s \in [1..n -> Seq(V)]
  PROVE  \E c \in [1..n -> Seq(V)] : Joins(c, s, n)
  <1> DEFINE Some(m) == \E c \in [1..n -> Seq(V)] : Joins(c, s, m)
             S == {m \in Nat : m + 1 <= n => Some(m + 1)}
  <1>1. Some(1)
    <2>1. [j \in 1..n |-> s[1]] \in [1..n -> Seq(V)]
      OBVIOUS
    <2>2. Joins([j \in 1..n |-> s[1]], s, 1)
      BY DEF Joins
    <2> QED
      BY <2>1, <2>2
  <1>2. ASSUME NEW m \in 1..n, m + 1 <= n, Some(m)
        PROVE  Some(m + 1)
    BY <1>2, JoinsOneMore
  <1> HIDE DEF Some
  <1>3. S \in SUBSET Nat /\ 0 \in S
    BY <1>1
  <1>4. ASSUME NEW m \in S
        PROVE  m + 1 \in S
    <2>1. m \in Nat /\ (m + 1 <= n => Some(m + 1))
      OBVIOUS
    <2>2. m + 1 + 1 <= n => Some(m + 1 + 1)
      BY <2>1, <1>2
    <2> QED
      BY <2>1, <2>2
  <1>5. S = Nat
    <2> HIDE DEF S
    <2> QED
      BY <1>3, <1>4, NumbersInduction
  <1>6. n - 1 \in Nat /\ n - 1 + 1 = n
    OBVIOUS
  <1>7. Some(n - 1 + 1)
    <2>1. n - 1 \in S
      BY <1>5, <1>6
    <2>2. n - 1 + 1 <= n => Some(n - 1 + 1)
      BY <2>1
    <2> QED
      BY <1>6, <2>2
  <1> QED
    BY <1>6, <1>7 DEF Some

(* FlattenSeq is the last of these joins.                                  *)
LEMMA FlattenJoins ==
  ASSUME NEW n \in Nat \ {0}, NEW V, NEW s \in [1..n -> Seq(V)]
  PROVE  \E c \in [1..n -> Seq(V)] : Joins(c, s, n) /\ SeqExt!FlattenSeq(s) = c[n]
  <1>6. Len(s) = n /\ DOMAIN s = 1..n
    OBVIOUS
  <1> DEFINE Def(f) == f = [j \in 1..Len(s) |-> IF j = 1 THEN s[j] ELSE Cat(f[j - 1], s[j])]
             F == CHOOSE f : Def(f)
  <1>1. PICK c \in [1..n -> Seq(V)] : Joins(c, s, n)
    BY JoinsAll
  <1>7. Def(c)
    <2>1. c = [j \in 1..n |-> c[j]]
      OBVIOUS
    <2>2. ASSUME NEW j \in 1..n
          PROVE  c[j] = IF j = 1 THEN s[j] ELSE Cat(c[j - 1], s[j])
      <3>1. j = 1 \/ j \in 2..n
        OBVIOUS
      <3> QED
        BY <3>1, <1>1 DEF Joins
    <2>3. c = [j \in 1..n |-> IF j = 1 THEN s[j] ELSE Cat(c[j - 1], s[j])]
      BY <2>1, <2>2, Zenon
    <2> QED
      BY <2>3, <1>6, Zenon
  <1>8. Def(F)
    <2> HIDE DEF Def
    <2> QED
      BY <1>7
  <1>9. SeqExt!FlattenSeq(s) = F[n]
    BY <1>6, Zenon DEF Cat, SeqExt!FlattenSeq
  <1> HIDE DEF F
  <1>10. \A j \in 1..n : F[j] = IF j = 1 THEN s[j] ELSE Cat(F[j - 1], s[j])
    BY <1>8, <1>6, Zenon
  <1> DEFINE S == {m \in Nat : m + 1 <= n => F[m + 1] = c[m + 1]}
  <1>11. S \in SUBSET Nat /\ 0 \in S
    <2>1. 1 \in 1..n /\ 0 + 1 = 1
      OBVIOUS
    <2>2. F[1] = c[1]
      BY <2>1, <1>1, <1>10 DEF Joins
    <2> QED
      BY <2>1, <2>2
  <1>12. ASSUME NEW m \in S
         PROVE  m + 1 \in S
    <2> SUFFICES ASSUME m + 1 + 1 <= n
                 PROVE  F[m + 1 + 1] = c[m + 1 + 1]
      OBVIOUS
    <2>1. F[m + 1] = c[m + 1]
      OBVIOUS
    <2> HIDE DEF S
    <2>2. m \in Nat
      BY <1>11
    <2>3. PICK j \in 2..n : j = m + 1 + 1 /\ j - 1 = m + 1 /\ j # 1
      BY <2>2
    <2>4. F[j] = Cat(F[j - 1], s[j])
      <3>1. j \in 1..n
        OBVIOUS
      <3> QED
        BY <1>10, <2>3, <3>1, Zenon
    <2>5. c[j] = Cat(c[j - 1], s[j])
      BY <1>1 DEF Joins
    <2>6. F[j - 1] = c[j - 1]
      BY <2>1, <2>3
    <2>7. F[j] = c[j]
      BY <2>4, <2>5, <2>6
    <2> QED
      BY <2>3, <2>7
  <1>13. S = Nat
    <2> HIDE DEF S
    <2> QED
      BY <1>11, <1>12, NumbersInduction
  <1>14. n - 1 \in Nat /\ n - 1 + 1 = n
    OBVIOUS
  <1>15. F[n] = c[n]
    <2>1. n - 1 \in S
      BY <1>13, <1>14
    <2>2. n - 1 + 1 <= n => F[n - 1 + 1] = c[n - 1 + 1]
      BY <2>1
    <2> QED
      BY <1>14, <2>2
  <1> QED
    BY <1>1, <1>9, <1>15

(* The provers expand \o wherever they see it; behind a name they can use  *)
(* equalities about it.                                                    *)
LEMMA Concatenation ==
  ASSUME NEW V, NEW a \in Seq(V), NEW b \in Seq(V), NEW x \in Seq(V)
  PROVE  /\ Cat(a, b) \in Seq(V)
         /\ Cat(Cat(a, b), x) = Cat(a, Cat(b, x))
  BY DEF Cat

LEMMA Units ==
  ASSUME NEW V, NEW a \in Seq(V)
  PROVE  Cat(a, << >>) = a /\ Cat(<< >>, a) = a
  BY DEF Cat

(* Lists of n sequences.                                                   *)
Lists(n, V) == [1..n -> Seq(V)]

(* Two lists have the same pieces up to and from the one with number m.    *)
SameUpTo(s, t, m) == \A j \in 1..m : s[j] = t[j]
SameAfter(s, t, m, n) == \A j \in (m + 1)..n : s[j] = t[j]

(* The joins of the first m sequences depend on these sequences only.      *)
LEMMA JoinsBefore ==
  ASSUME NEW n \in Nat \ {0}, NEW s, NEW t, NEW c, NEW d,
         Joins(c, s, n), Joins(d, t, n), NEW m \in 1..n, SameUpTo(s, t, m)
  PROVE  c[m] = d[m]
  <1> DEFINE S == {k \in Nat : k + 1 <= m => c[k + 1] = d[k + 1]}
  <1>1. S \in SUBSET Nat /\ 0 \in S
    <2>1. c[1] = d[1] /\ 0 + 1 = 1
      BY DEF Joins, SameUpTo, SameAfter
    <2> QED
      BY <2>1
  <1>2. ASSUME NEW k \in S
        PROVE  k + 1 \in S
    <2> SUFFICES ASSUME k + 1 + 1 <= m
                 PROVE  c[k + 1 + 1] = d[k + 1 + 1]
      OBVIOUS
    <2>1. k \in Nat /\ c[k + 1] = d[k + 1]
      OBVIOUS
    <2> HIDE DEF S
    <2>2. PICK j \in 2..m : j = k + 1 + 1 /\ j - 1 = k + 1
      BY <2>1
    <2>3. j \in 2..n /\ s[j] = t[j]
      BY DEF SameUpTo, SameAfter
    <2>4. c[j] = Cat(c[j - 1], s[j]) /\ d[j] = Cat(d[j - 1], t[j])
      BY <2>3 DEF Joins
    <2> QED
      BY <2>1, <2>2, <2>3, <2>4
  <1>3. S = Nat
    <2> HIDE DEF S
    <2> QED
      BY <1>1, <1>2, NumbersInduction
  <1>4. m - 1 \in Nat /\ m - 1 + 1 = m
    OBVIOUS
  <1>5. m - 1 \in S
    BY <1>3, <1>4
  <1>6. m - 1 + 1 <= m => c[m - 1 + 1] = d[m - 1 + 1]
    BY <1>5
  <1> QED
    BY <1>4, <1>6

(* What follows the first m sequences is added to their join.              *)
LEMMA JoinsAfter ==
  ASSUME NEW n \in Nat \ {0}, NEW V,
         NEW s \in Lists(n, V), NEW t \in Lists(n, V),
         NEW c \in Lists(n, V), NEW d \in Lists(n, V),
         Joins(c, s, n), Joins(d, t, n), NEW m \in 1..n, SameAfter(s, t, m, n)
  PROVE  \E rest \in Seq(V) :
           c[n] = Cat(c[m], rest) /\ d[n] = Cat(d[m], rest) /\ (m = n => rest = << >>)
  <1> USE DEF Lists
  <1> DEFINE Rest(k) == \E rest \in Seq(V) :
                          /\ c[m + k] = Cat(c[m], rest)
                          /\ d[m + k] = Cat(d[m], rest)
                          /\ (k = 0 => rest = << >>)
             S == {k \in Nat : m + k <= n => Rest(k)}
  <1>1. Rest(0)
    <2>1. c[m] = Cat(c[m], << >>) /\ d[m] = Cat(d[m], << >>) /\ << >> \in Seq(V)
      <3>1. c[m] \in Seq(V) /\ d[m] \in Seq(V)
        OBVIOUS
      <3> QED
        BY <3>1, Units
    <2>2. m + 0 = m
      OBVIOUS
    <2> QED
      BY <2>1, <2>2
  <1>2. ASSUME NEW k \in Nat, m + (k + 1) <= n, Rest(k)
        PROVE  Rest(k + 1)
    <2>1. k \in Nat /\ Rest(k)
      BY <1>2
    <2>2. PICK rest \in Seq(V) : c[m + k] = Cat(c[m], rest) /\ d[m + k] = Cat(d[m], rest)
      BY <2>1
    <2>3. PICK j \in 2..n : j = m + (k + 1) /\ j - 1 = m + k /\ j \in (m + 1)..n
      BY <1>2
    <2>4. c[j] = Cat(c[j - 1], s[j]) /\ d[j] = Cat(d[j - 1], s[j])
      BY <2>3 DEF Joins, SameUpTo, SameAfter
    <2>5. c[m] \in Seq(V) /\ d[m] \in Seq(V) /\ s[j] \in Seq(V)
      OBVIOUS
    <2>6. Cat(rest, s[j]) \in Seq(V)
      BY <2>5, Concatenation
    <2> HIDE DEF Rest, S
    <2>7. Cat(Cat(c[m], rest), s[j]) = Cat(c[m], Cat(rest, s[j]))
      BY <2>5, Concatenation
    <2>8. Cat(Cat(d[m], rest), s[j]) = Cat(d[m], Cat(rest, s[j]))
      BY <2>5, Concatenation
    <2>9. c[m + (k + 1)] = Cat(c[m], Cat(rest, s[j])) /\ d[m + (k + 1)] = Cat(d[m], Cat(rest, s[j]))
      BY <2>2, <2>3, <2>4, <2>7, <2>8
    <2>10. k + 1 # 0
      BY <2>1
    <2> USE DEF Rest
    <2> QED
      BY <2>6, <2>9, <2>10
  <1> HIDE DEF Rest
  <1>9. S \in SUBSET Nat /\ 0 \in S /\ \A k \in S : k + 1 \in S
    BY <1>1, <1>2
  <1>3. S = Nat
    <2> HIDE DEF S
    <2> QED
      BY <1>9, NumbersInduction
  <1>4. n - m \in Nat /\ m + (n - m) = n
    OBVIOUS
  <1>5. n - m \in S
    BY <1>3, <1>4
  <1>6. m + (n - m) <= n => Rest(n - m)
    BY <1>5
  <1>7. Rest(n - m)
    BY <1>4, <1>6
  <1>8. PICK rest \in Seq(V) : /\ c[m + (n - m)] = Cat(c[m], rest)
                               /\ d[m + (n - m)] = Cat(d[m], rest)
                               /\ (n - m = 0 => rest = << >>)
    BY <1>7 DEF Rest
  <1>10. c[m + (n - m)] = c[n] /\ d[m + (n - m)] = d[n] /\ (m = n => n - m = 0)
    BY <1>4
  <1> QED
    BY <1>8, <1>10

LEMMA FlattenTypes ==
  ASSUME NEW n \in Nat \ {0}, NEW V, NEW s \in [1..n -> Seq(V)]
  PROVE  SeqExt!FlattenSeq(s) \in Seq(V)
  <1>1. PICK c \in [1..n -> Seq(V)] : SeqExt!FlattenSeq(s) = c[n]
    BY FlattenJoins
  <1> QED
    BY <1>1

(* Of two lists the same is before the pieces with numbers m and k, which  *)
(* are one or two neighbours, and the same is behind them.                 *)
SameAround(n, V, s, t, m, k) ==
  \E before \in Seq(V), behind \in Seq(V) :
    /\ m = 1 => before = << >>
    /\ k = n => behind = << >>
    /\ k = m => /\ SeqExt!FlattenSeq(s) = Cat(Cat(before, s[m]), behind)
                /\ SeqExt!FlattenSeq(t) = Cat(Cat(before, t[m]), behind)
    /\ k # m => /\ SeqExt!FlattenSeq(s) = Cat(Cat(Cat(before, s[m]), s[k]), behind)
                /\ SeqExt!FlattenSeq(t) = Cat(Cat(Cat(before, t[m]), t[k]), behind)

SameExcept(n, s, t, m, k) == \A j \in 1..n : j # m /\ j # k => s[j] = t[j]

LEMMA FlattenAround ==
  ASSUME NEW n \in Nat \ {0}, NEW V, NEW s \in Lists(n, V), NEW t \in Lists(n, V),
         NEW m \in 1..n, NEW k \in 1..n, k = m \/ k = m + 1, SameExcept(n, s, t, m, k)
  PROVE  SameAround(n, V, s, t, m, k)
  <1>1. PICK c \in Lists(n, V) : Joins(c, s, n) /\ SeqExt!FlattenSeq(s) = c[n]
    BY FlattenJoins DEF Lists
  <1>2. PICK d \in Lists(n, V) : Joins(d, t, n) /\ SeqExt!FlattenSeq(t) = d[n]
    BY FlattenJoins DEF Lists
  <1>3. PICK behind \in Seq(V) :
          c[n] = Cat(c[k], behind) /\ d[n] = Cat(d[k], behind) /\ (k = n => behind = << >>)
    <2>1. SameAfter(s, t, k, n)
      BY DEF SameUpTo, SameAfter, SameExcept
    <2> QED
      BY <1>1, <1>2, <2>1, JoinsAfter
  <1>4. PICK before \in Seq(V) :
          c[m] = Cat(before, s[m]) /\ d[m] = Cat(before, t[m]) /\ (m = 1 => before = << >>)
    <2>1. s[m] \in Seq(V) /\ t[m] \in Seq(V) /\ << >> \in Seq(V)
      BY DEF Lists
    <2>2. CASE m = 1
      <3>1. c[1] = s[1] /\ d[1] = t[1]
        BY <1>1, <1>2 DEF Joins
      <3>2. s[m] = Cat(<< >>, s[m]) /\ t[m] = Cat(<< >>, t[m])
        BY <2>1, Units
      <3> QED
        BY <2>1, <2>2, <3>1, <3>2
    <2>3. CASE m # 1
      <3>1. m \in 2..n /\ m - 1 \in 1..n /\ SameUpTo(s, t, m - 1)
        BY <2>3 DEF SameUpTo, SameAfter, SameExcept
      <3>2. c[m] = Cat(c[m - 1], s[m]) /\ d[m] = Cat(d[m - 1], t[m])
        BY <1>1, <1>2, <3>1 DEF Joins
      <3>3. c[m - 1] = d[m - 1]
        BY <1>1, <1>2, <3>1, JoinsBefore
      <3>4. c[m - 1] \in Seq(V)
        BY <3>1 DEF Lists
      <3> QED
        BY <2>3, <3>2, <3>3, <3>4
    <2> QED
      BY <2>2, <2>3
  <1>5. CASE k = m
    BY <1>1, <1>2, <1>3, <1>4, <1>5 DEF SameAround
  <1>6. CASE k = m + 1
    <2>1. k \in 2..n /\ k - 1 = m /\ k # m
      BY <1>6
    <2>2. c[k] = Cat(c[m], s[k]) /\ d[k] = Cat(d[m], t[k])
      BY <1>1, <1>2, <2>1 DEF Joins
    <2> QED
      BY <1>1, <1>2, <1>3, <1>4, <2>1, <2>2 DEF SameAround
  <1> QED
    BY <1>5, <1>6

-----------------------------------------------------------------------------
LEMMA SeqOf ==
  ASSUME NEW V, NEW W, NEW seq \in Seq(V), \A k \in DOMAIN seq : seq[k] \in W
  PROVE  seq \in Seq(W)
  <1>1. Len(seq) \in Nat /\ DOMAIN seq = 1..Len(seq)
    OBVIOUS
  <1>2. seq = [k \in 1..Len(seq) |-> seq[k]]
    OBVIOUS
  <1>3. seq \in [1..Len(seq) -> W]
    BY <1>1, <1>2
  <1> QED
    BY <1>1, <1>3, SeqDef

(* The records of a file.                                                  *)
RecordsOf(seq) == IF seq # << >> /\ seq[1] = Header THEN Tail(seq) ELSE seq

LEMMA RecordsTypes ==
  ASSUME NEW V, NEW seq \in Seq(V)
  PROVE  RecordsOf(seq) \in Seq(V)
  BY DEF RecordsOf

LEMMA RecordsAppend ==
  ASSUME NEW seq \in Seq(Nat), NEW x \in Nat, x # Header
  PROVE  RecordsOf(Append(seq, x)) = Append(RecordsOf(seq), x)
  BY SMTT(30) DEF RecordsOf, Header

LEMMA RecordsAreNumbers ==
  RotatingTypes =>
         /\ \A n \in Numbers : Lines(n) \in Seq(0..saved) /\ Records(n) = RecordsOf(Lines(n))
         /\ OldestFirst \in [1..MaxFiles -> Seq(0..saved)]
         /\ MaxFiles \in Nat \ {0}
  <1> SUFFICES ASSUME RotatingTypes
               PROVE  /\ \A n \in Numbers : Lines(n) \in Seq(0..saved) /\ Records(n) = RecordsOf(Lines(n))
                      /\ OldestFirst \in [1..MaxFiles -> Seq(0..saved)]
                      /\ MaxFiles \in Nat \ {0}
    OBVIOUS
  <1>1. ASSUME NEW n \in Numbers
        PROVE  Lines(n) \in Seq(0..saved)
    <2>1. CASE files[n] = Absent
      BY <2>1 DEF Lines
    <2>2. CASE files[n] # Absent
      <3>1. files[n] \in Seq(Nat) /\ \A k \in DOMAIN files[n] : files[n][k] \in 0..saved
        BY <2>2 DEF RotatingTypes, FilesTypeOK, Header
      <3>2. files[n] \in Seq(0..saved)
        BY <3>1, SeqOf
      <3> QED
        BY <2>2, <3>2 DEF Lines
    <2> QED
      BY <2>1, <2>2
  <1>2. ASSUME NEW n \in Numbers
        PROVE  Records(n) = RecordsOf(Lines(n))
    BY DEF Records, RecordsOf
  <1>3. ASSUME NEW n \in Numbers
        PROVE  Records(n) \in Seq(0..saved)
    BY <1>1, <1>2, RecordsTypes
  <1>4. \A n \in 1..MaxFiles : MaxFiles + 1 - n \in Numbers
    BY FilesAssumption DEF Numbers
  <1>5. OldestFirst \in [1..MaxFiles -> Seq(0..saved)]
    BY <1>3, <1>4 DEF OldestFirst, Numbers
  <1> QED
    BY <1>1, <1>2, <1>5, FilesAssumption

LEMMA RecordsTyped == RotatingTypes => OldestFirst \in [1..MaxFiles -> Seq(0..saved)]
  BY RecordsAreNumbers

LEMMA KeptTypes ==
  ASSUME RotatingTypes
  PROVE  Kept \in Seq(0..saved) /\ Kept \in Seq(Nat)
  <1>1. Kept \in Seq(0..saved)
    BY RecordsAreNumbers, FlattenTypes DEF Kept
  <1>2. 0..saved \subseteq Nat
    BY DEF RotatingTypes, FilesTypeOK
  <1>3. Kept \in Seq(Nat)
    <2>1. \A k \in DOMAIN Kept : Kept[k] \in 0..saved
      <3> SUFFICES ASSUME NEW k \in DOMAIN Kept
                   PROVE  Kept[k] \in 0..saved
        OBVIOUS
      <3> HIDE DEF Kept
      <3>1. k \in 1..Len(Kept)
        BY <1>1
      <3> QED
        BY <1>1, <3>1, ElementOfSeq
    <2> HIDE DEF Kept
    <2> QED
      BY <1>1, <1>2, <2>1, SeqOf
  <1> QED
    BY <1>1, <1>3

(* A step after which every file has the records it had.                   *)
LEMMA KeptUnchanged ==
  ASSUME \A n \in Numbers : Records(n)' = Records(n)
  PROVE  Kept' = Kept
  <1>1. \A n \in Numbers : MaxFiles + 1 - n \in Numbers
    BY FilesAssumption DEF Numbers
  <1>2. OldestFirst' = OldestFirst
    BY <1>1 DEF OldestFirst
  <1> QED
    BY <1>2 DEF Kept

(* A step that changes at most the records of the files n and n + 1, of    *)
(* which n + 1 is read first.                                              *)
LEMMA KeptAround ==
  ASSUME RotatingTypes, RotatingTypes', NEW n \in Numbers, NEW m \in Numbers,
         m = n \/ m = n + 1,
         \A j \in Numbers : j # n /\ j # m => Records(j)' = Records(j)
  PROVE  \E before \in Seq(Nat), behind \in Seq(Nat) :
           /\ m = MaxFiles => before = << >>
           /\ n = 1 => behind = << >>
           /\ m = n => /\ Kept = Cat(Cat(before, Records(n)), behind)
                       /\ Kept' = Cat(Cat(before, Records(n)'), behind)
           /\ m # n => /\ Kept = Cat(Cat(Cat(before, Records(m)), Records(n)), behind)
                       /\ Kept' = Cat(Cat(Cat(before, Records(m)'), Records(n)'), behind)
  <1> DEFINE p == MaxFiles + 1 - m
             q == MaxFiles + 1 - n
             s == OldestFirst
             t == OldestFirst'
  <1>1. MaxFiles \in Nat \ {0} /\ p \in 1..MaxFiles /\ q \in 1..MaxFiles /\ (q = p \/ q = p + 1)
    BY FilesAssumption DEF Numbers
  <1>2. saved \in Nat /\ saved' \in Nat /\ 0..saved \subseteq Nat /\ 0..saved' \subseteq Nat
    BY FilesAssumption DEF RotatingTypes, FilesTypeOK
  <1>3. s \in Lists(MaxFiles, Nat)
    BY <1>2, RecordsAreNumbers DEF Lists
  <1>4. t \in Lists(MaxFiles, Nat)
    <2>1. t \in [1..MaxFiles -> Seq(0..saved')]
      <3>1. RotatingTypes' => (OldestFirst \in [1..MaxFiles -> Seq(0..saved)])'
        BY RecordsTyped, PTL
      <3> QED
        BY <3>1
    <2> QED
      BY <1>2, <2>1 DEF Lists
  <1>5. /\ s[p] = Records(m) /\ s[q] = Records(n)
        /\ t[p] = Records(m)' /\ t[q] = Records(n)'
    BY <1>1, FilesAssumption DEF OldestFirst, Numbers
  <1>6. \A j \in 1..MaxFiles : j # p /\ j # q => s[j] = t[j]
    BY <1>1, FilesAssumption DEF OldestFirst, Numbers
  <1>7. /\ m = MaxFiles <=> p = 1
        /\ n = 1 <=> q = MaxFiles
        /\ m = n <=> p = q
    BY FilesAssumption DEF Numbers
  <1>8. Kept = SeqExt!FlattenSeq(s) /\ Kept' = SeqExt!FlattenSeq(t)
    BY DEF Kept
  <1> HIDE DEF p, q, s, t
  <1>9. SameExcept(MaxFiles, s, t, p, q)
    BY <1>6 DEF SameExcept
  <1>10. SameAround(MaxFiles, Nat, s, t, p, q)
    BY <1>1, <1>3, <1>4, <1>9, FlattenAround
  <1> QED
    BY <1>5, <1>7, <1>8, <1>10 DEF SameAround

-----------------------------------------------------------------------------
(* A record is added at the end, or records are lost at one end.           *)
(* A name for Append, for the same reason as Cat.                          *)
Longer(s, x) == Append(s, x)

LEMMA ConcatAppend ==
  ASSUME NEW b \in Seq(Nat), NEW r \in Seq(Nat), NEW x \in Nat
  PROVE  Cat(b, Longer(r, x)) = Longer(Cat(b, r), x)
  <1>1. Len(b \o Append(r, x)) = Len(b) + Len(r) + 1 /\ Len(Append(b \o r, x)) = Len(b) + Len(r) + 1
    OBVIOUS
  <1>2. b \o Append(r, x) \in Seq(Nat) /\ Append(b \o r, x) \in Seq(Nat)
    OBVIOUS
  <1>3. \A k \in 1..(Len(b) + Len(r) + 1) : (b \o Append(r, x))[k] = Append(b \o r, x)[k]
    OBVIOUS
  <1>4. b \o Append(r, x) = Append(b \o r, x)
    BY <1>1, <1>2, <1>3, SeqEqual
  <1> QED
    BY <1>4 DEF Cat, Longer

LEMMA AppendParts ==
  ASSUME NEW s \in Seq(Nat), NEW x \in Nat
  PROVE  /\ Len(Longer(s, x)) = Len(s) + 1
         /\ SubSeq(Longer(s, x), 1, Len(s)) = s
         /\ Longer(s, x)[Len(s) + 1] = x
  BY DEF Longer

LEMMA AddedLast ==
  ASSUME RotatingTypes, NEW b \in Seq(Nat), NEW r \in Seq(Nat), NEW x \in Nat, x = saved + 1,
         Kept = Cat(Cat(b, r), << >>), Kept' = Cat(Cat(b, Append(r, x)), << >>)
  PROVE  J!Add
  <1> DEFINE n == Len(Kept) + 1
  <1>1. Kept = Cat(b, r) /\ Kept' = Cat(b, Longer(r, x))
    <2>1. Cat(b, r) \in Seq(Nat) /\ Longer(r, x) \in Seq(Nat)
      BY Concatenation DEF Longer
    <2>2. Cat(b, Longer(r, x)) \in Seq(Nat)
      BY <2>1, Concatenation
    <2>3. Kept' = Cat(Cat(b, Longer(r, x)), << >>)
      BY DEF Longer
    <2> QED
      BY <2>1, <2>2, <2>3, Units
  <1>2. Kept' = Longer(Kept, x)
    BY <1>1, ConcatAppend
  <1>3. Kept \in Seq(Nat) /\ Kept \in Seq(0..saved) /\ saved \in Nat
    BY KeptTypes DEF RotatingTypes, FilesTypeOK
  <1> HIDE DEF Kept
  <1>4. Len(Kept') = n /\ SubSeq(Kept', 1, n - 1) = Kept /\ Kept'[n] = x
    <2>1. n - 1 = Len(Kept)
      BY <1>3
    <2> QED
      BY <1>2, <1>3, <2>1, AppendParts, SMTT(30)
  <1>5. \A k \in DOMAIN Kept : Kept[k] < x
    <2> SUFFICES ASSUME NEW k \in DOMAIN Kept
                 PROVE  Kept[k] < x
      OBVIOUS
    <2>1. k \in 1..Len(Kept)
      BY <1>3
    <2>2. Kept[k] \in 0..saved
      BY <1>3, <2>1, ElementOfSeq
    <2> QED
      BY <1>3, <2>2
  <1> QED
    BY <1>4, <1>5 DEF J!Add

LEMMA LostFirst ==
  ASSUME NEW r \in Seq(Nat), NEW a \in Seq(Nat),
         Kept = Cat(Cat(<< >>, r), a), Kept' = Cat(Cat(<< >>, << >>), a)
  PROVE  J!Lose
  <1>1. Kept = r \o a /\ Kept' = a
    BY DEF Cat
  <1> HIDE DEF Kept
  <1> DEFINE first == Len(r) + 1
             last == first + Len(Kept') - 1
  <1>2. first \in 1..(Len(Kept) + 1) /\ last = Len(Kept) /\ last <= Len(Kept)
    <2>1. Len(Kept) = Len(r) + Len(a) /\ Len(Kept') = Len(a)
      BY <1>1
    <2>2. Len(r) \in Nat /\ Len(a) \in Nat
      OBVIOUS
    <2> QED
      BY <2>1, <2>2
  <1>4. Kept' = SubSeq(Kept, first, Len(Kept))
    BY <1>1
  <1>3. Kept' = SubSeq(Kept, first, last)
    BY <1>2, <1>4
  <1> QED
    BY <1>2, <1>3 DEF J!Lose

LEMMA LostLast ==
  ASSUME NEW b \in Seq(Nat), NEW r \in Seq(Nat),
         Kept = Cat(Cat(b, r), << >>), Kept' = Cat(Cat(b, << >>), << >>)
  PROVE  J!Lose
  <1>1. Kept = b \o r /\ Kept' = b
    BY DEF Cat
  <1> HIDE DEF Kept
  <1> DEFINE last == 1 + Len(Kept') - 1
  <1>2. 1 \in 1..(Len(Kept) + 1) /\ last = Len(b) /\ last <= Len(Kept)
    BY <1>1
  <1>3. Kept' = SubSeq(Kept, 1, Len(b))
    BY <1>1
  <1> QED
    BY <1>2, <1>3 DEF J!Lose

(* A line that is not the header is printed to file 1.                     *)
LEMMA JournalAdds ==
  ASSUME RotatingTypes, RotatingTypes', saved' = saved + 1, files[1] # Absent,
         files' = [files EXCEPT ![1] = Append(files[1], saved + 1)]
  PROVE  J!Add
  <1>1. 1 \in Numbers /\ MaxFiles # 1 /\ saved \in Nat /\ files[1] \in Seq(Nat)
    BY FilesAssumption DEF Numbers, RotatingTypes, FilesTypeOK
  <1>2. /\ \A j \in Numbers : j # 1 => Records(j)' = Records(j)
        /\ Records(1) = RecordsOf(files[1])
        /\ Records(1)' = RecordsOf(Append(files[1], saved + 1))
    <2>1. files'[1] = Append(files[1], saved + 1) /\ \A j \in Numbers : j # 1 => files'[j] = files[j]
      BY <1>1 DEF RotatingTypes
    <2>2. files'[1] # Absent
      BY <1>1, <2>1, FilesAssumption
    <2> QED
      BY <1>1, <2>1, <2>2 DEF Records, Lines, RecordsOf
  <1>3. RecordsOf(Append(files[1], saved + 1)) = Append(RecordsOf(files[1]), saved + 1)
    BY <1>1, RecordsAppend DEF Header
  <1>4. PICK before \in Seq(Nat), behind \in Seq(Nat) :
          /\ behind = << >>
          /\ Kept = Cat(Cat(before, Records(1)), behind)
          /\ Kept' = Cat(Cat(before, Records(1)'), behind)
    BY <1>1, <1>2, KeptAround
  <1>5. RecordsOf(files[1]) \in Seq(Nat)
    BY <1>1, RecordsTypes
  <1> HIDE DEF Kept
  <1> DEFINE x == saved + 1
             r == RecordsOf(files[1])
  <1>6. x \in Nat /\ x = saved + 1 /\ r \in Seq(Nat)
    BY <1>1, <1>5
  <1>7. Kept = Cat(Cat(before, r), << >>) /\ Kept' = Cat(Cat(before, Append(r, x)), << >>)
    BY <1>2, <1>3, <1>4
  <1> HIDE DEF x, r
  <1> QED
    BY <1>6, <1>7, AddedLast

(* File 1 is emptied, or the file with the highest number is removed.      *)
LEMMA JournalLoses ==
  ASSUME RotatingTypes, RotatingTypes', NEW n \in Numbers, n \in {1, MaxFiles},
         \A j \in Numbers : j # n => Records(j)' = Records(j),
         Records(n)' = << >>
  PROVE  J!Lose
  <1>1. PICK before \in Seq(Nat), behind \in Seq(Nat) :
          /\ n = MaxFiles => before = << >>
          /\ n = 1 => behind = << >>
          /\ Kept = Cat(Cat(before, Records(n)), behind)
          /\ Kept' = Cat(Cat(before, Records(n)'), behind)
    BY KeptAround
  <1>2. Records(n) \in Seq(Nat)
    <2>1. Records(n) \in Seq(0..saved) /\ 0..saved \subseteq Nat
      <3>1. Lines(n) \in Seq(0..saved) /\ Records(n) = RecordsOf(Lines(n))
        BY RecordsAreNumbers
      <3>2. saved \in Nat
        BY FilesAssumption DEF RotatingTypes, FilesTypeOK
      <3> QED
        BY <3>1, <3>2, RecordsTypes
    <2>2. \A k \in DOMAIN Records(n) : Records(n)[k] \in Nat
      <3> SUFFICES ASSUME NEW k \in DOMAIN Records(n)
                   PROVE  Records(n)[k] \in Nat
        OBVIOUS
      <3>1. k \in 1..Len(Records(n))
        BY <2>1
      <3>2. Records(n)[k] \in 0..saved
        BY <2>1, <3>1, ElementOfSeq
      <3> QED
        BY <2>1, <3>2
    <2> QED
      BY <2>1, <2>2, SeqOf
  <1> HIDE DEF Kept
  <1>3. CASE n = MaxFiles
    BY <1>1, <1>2, <1>3, LostFirst
  <1>4. CASE n = 1
    BY <1>1, <1>2, <1>4, LostLast
  <1> QED
    BY <1>3, <1>4

(* A file is moved to the next number, which is free.                      *)
LEMMA JournalMoved ==
  ASSUME RotatingTypes, RotatingTypes', NEW n \in Numbers, n + 1 \in Numbers,
         \A j \in Numbers : j # n /\ j # n + 1 => Records(j)' = Records(j),
         Records(n + 1) = << >>, Records(n)' = << >>, Records(n + 1)' = Records(n)
  PROVE  Kept' = Kept
  <1> DEFINE m == n + 1
  <1>1. m \in Numbers /\ m # n /\ m = n + 1
    BY DEF Numbers
  <1>2. PICK before \in Seq(Nat), behind \in Seq(Nat) :
          /\ Kept = Cat(Cat(Cat(before, Records(m)), Records(n)), behind)
          /\ Kept' = Cat(Cat(Cat(before, Records(m)'), Records(n)'), behind)
    <2> HIDE DEF m
    <2> QED
      BY <1>1, KeptAround
  <1>3. Cat(before, << >>) = before
    BY Units
  <1>4. Records(n) \in Seq(0..saved)
    <2>1. Lines(n) \in Seq(0..saved) /\ Records(n) = RecordsOf(Lines(n))
      BY RecordsAreNumbers
    <2> QED
      BY <2>1, RecordsTypes
  <1>5. Cat(Cat(before, Records(n)), << >>) = Cat(before, Records(n))
    BY DEF Cat
  <1> HIDE DEF Kept
  <1> QED
    BY <1>2, <1>3, <1>5

LEMMA JournalNext == FilesIInv /\ RotatingTypes' /\ [FilesNext]_filesVars => [J!Add \/ J!Lose]_Kept
  <1> SUFFICES ASSUME FilesIInv, RotatingTypes', [FilesNext]_filesVars
               PROVE  [J!Add \/ J!Lose]_Kept
    OBVIOUS
  <1>1. RotatingTypes /\ RotationInv /\ FilesTypeOK
    BY DEF FilesIInv, RotatingTypes
  <1>2. /\ 1 \in Numbers /\ MaxFiles \in Numbers /\ MaxFiles # 1
        /\ files \in [Numbers -> Seq(Nat) \cup {Absent}]
    BY <1>1, FilesAssumption DEF Numbers, RotatingTypes
  <1>3. ASSUME \A n \in Numbers : Records(n)' = Records(n)
        PROVE  [J!Add \/ J!Lose]_Kept
    BY <1>3, KeptUnchanged
  <1>4. CASE BeginSave \/ Crash \/ UNCHANGED filesVars
    <2>1. files' = files
      BY <1>4 DEF BeginSave, Crash, filesVars
    <2> QED
      BY <1>3, <2>1 DEF Records, Lines
  <1>5. CASE StartTxn \/ WriteHeader
    <2>1. /\ \A n \in Numbers : n # 1 => files'[n] = files[n]
          /\ \/ files'[1] = files[1]
             \/ files[1] \in {Absent, << >>} /\ files'[1] \in {<< >>, <<Header>>}
      BY <1>2, <1>5 DEF StartTxn, WriteHeader
    <2>2. Tail(<<Header>>) = << >> /\ <<Header>>[1] = Header /\ <<Header>> # Absent
      <3>1. <<Header>> \in Seq(Nat)
        BY DEF Header
      <3>2. Tail(<<Header>>) = << >> /\ <<Header>>[1] = Header
        OBVIOUS
      <3> QED
        BY <3>1, <3>2, FilesAssumption
    <2>3. Records(1)' = Records(1)
      BY <2>1, <2>2 DEF Records, Lines
    <2>4. ASSUME NEW n \in Numbers, n # 1
          PROVE  Records(n)' = Records(n)
      BY <2>1, <2>4 DEF Records, Lines
    <2> QED
      BY <1>3, <2>3, <2>4
  <1>6. CASE StartLog \/ Reopen
    <2>1. files'[1] = << >> /\ \A n \in Numbers : n # 1 => files'[n] = files[n]
      BY <1>2, <1>6 DEF StartLog, Reopen
    <2>2. Records(1)' = << >> /\ \A n \in Numbers : n # 1 => Records(n)' = Records(n)
      BY <2>1 DEF Records, Lines
    <2> QED
      BY <1>1, <1>2, <2>2, JournalLoses
  <1>7. CASE RemoveOldest
    <2>1. files'[MaxFiles] = Absent /\ \A n \in Numbers : n # MaxFiles => files'[n] = files[n]
      BY <1>2, <1>7 DEF RemoveOldest
    <2>2. /\ Records(MaxFiles)' = << >>
          /\ \A n \in Numbers : n # MaxFiles => Records(n)' = Records(n)
      BY <2>1 DEF Records, Lines
    <2> QED
      BY <1>1, <1>2, <2>2, JournalLoses
  <1>8. CASE RenameNext
    <2>1. CASE files[i] = Absent
      <3>1. files' = files
        BY <1>8, <2>1 DEF RenameNext
      <3> QED
        BY <1>3, <3>1 DEF Records, Lines
    <2>2. CASE files[i] # Absent
      <3>1. /\ \A n \in Numbers : n \notin {i, i + 1} => files'[n] = files[n]
            /\ files[i + 1] = Absent /\ files'[i] = Absent /\ files'[i + 1] = files[i]
            /\ i \in Numbers /\ i + 1 \in Numbers
        BY <1>1, <1>8, <2>2, HolesMoved, FilesAssumption DEF Numbers
      <3>2. PICK n \in Numbers : n = i
        BY <3>1
      <3>3. n + 1 \in Numbers /\ n # n + 1
        BY <3>1, <3>2 DEF Numbers
      <3>4. /\ \A j \in Numbers : j # n /\ j # n + 1 => files'[j] = files[j]
            /\ files[n + 1] = Absent /\ files'[n] = Absent /\ files'[n + 1] = files[n]
        BY <3>1, <3>2
      <3>5. \A j \in Numbers : j # n /\ j # n + 1 => Records(j)' = Records(j)
        BY <3>4 DEF Records, Lines
      <3>6. Records(n + 1) = << >> /\ Records(n)' = << >> /\ Records(n + 1)' = Records(n)
        BY <3>4 DEF Records, Lines
      <3>7. Kept' = Kept
        BY <1>1, <3>3, <3>5, <3>6, JournalMoved
      <3> QED
        BY <3>7
    <2> QED
      BY <2>1, <2>2
  <1>9. CASE WriteRecord
    <2>1. /\ files' = [files EXCEPT ![1] = Append(files[1], saved + 1)]
          /\ files[1] # Absent /\ saved' = saved + 1
      BY <1>1, <1>9 DEF WriteRecord, FilesTypeOK
    <2> QED
      BY <1>1, <2>1, JournalAdds
  <1>10. CASE log_emit
    <2>1. CASE pc \in {"idle", "write"}
      <3>1. /\ files' = [files EXCEPT ![1] = Append(files[1], saved + 1)]
            /\ files[1] # Absent /\ saved' = saved + 1
        BY <1>1, <1>10, <2>1 DEF log_emit, FilesTypeOK
      <3> QED
        BY <1>1, <3>1, JournalAdds
    <2>2. CASE pc \notin {"idle", "write"}
      <3>1. files' = files
        BY <1>10, <2>2 DEF log_emit
      <3> QED
        BY <1>3, <3>1 DEF Records, Lines
    <2> QED
      BY <2>1, <2>2
  <1> QED
    BY <1>4, <1>5, <1>6, <1>7, <1>8, <1>9, <1>10 DEF FilesNext, Save, Rotate

LEMMA JournalStarts == FilesInit => J!JournalInit
  <1> SUFFICES ASSUME FilesInit
               PROVE  Kept = << >>
    BY DEF J!JournalInit
  <1>1. MaxFiles \in Nat \ {0} /\ \A n \in Numbers : MaxFiles + 1 - n \in Numbers
    BY FilesAssumption DEF Numbers
  <1>2. OldestFirst \in [1..MaxFiles -> Seq({})]
    <2>1. \A n \in Numbers : Records(n) = << >>
      BY DEF FilesInit, Records, Lines
    <2>2. << >> \in Seq({})
      BY EmptySeq
    <2> QED
      BY <1>1, <2>1, <2>2 DEF OldestFirst, Numbers
  <1>3. Kept \in Seq({})
    BY <1>1, <1>2, FlattenTypes DEF Kept
  <1> HIDE DEF Kept
  <1> QED
    BY <1>3

(* The files, read from the highest number to file 1, implement a journal  *)
(* to which records are only added at the end and of which only the first  *)
(* or the last are lost, through every rotation, every death in the middle *)
(* of one and every start on what it left.                                 *)
THEOREM KeptIsAJournal == FilesSpec => ImplementsJournal
  <1>1. FilesIInv => RotatingTypes
    BY DEF FilesIInv
  <1>2. FilesInit => J!JournalInit
    BY JournalStarts
  <1>3. FilesIInv /\ RotatingTypes' /\ [FilesNext]_filesVars => [J!Add \/ J!Lose]_Kept
    BY JournalNext
  <1> QED
    BY <1>1, <1>2, <1>3, FilesIInvariant, PTL DEF FilesSpec, ImplementsJournal, J!JournalSpec
=============================================================================
