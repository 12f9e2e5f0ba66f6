--------------------------- MODULE AtomicFileProofs ---------------------------
(***************************************************************************)
(* Provided that fclose manages to write what it has left, SAVE keeps what  *)
(* it promises, for every number of files, lines and kills; it removes its  *)
(* temporary files, unless the program dies, whether or not fclose does.    *)
(***************************************************************************)
EXTENDS AtomicFile, FiniteSetTheorems, TLAPS

File == [of : Nat, lines : 0 .. Lines]

Phases == {"idle", "mkstemp", "fdopen", "print", "close", "rename", "replaced", "delete",
           "unlink", "failed", "killed"}

Types ==
    /\ db \in Nat /\ kills \in Nat /\ aborts \in Nat /\ name \in Names
    /\ disk \in [Names \cup Temps -> File \cup {Absent}]
    /\ pc \in Phases /\ told \in {"none", "saved", "error"}
    /\ stream \in {"none", "open", "closed"}
    /\ printed \in 0 .. Lines /\ buffer \in 0 .. BufferLines

\* What has been done at each point of a save: what is printed is in the file or in the
\* buffer, and all of it is in the file before the rename.
Progress ==
    /\ pc \in {"fdopen", "print", "close", "rename", "delete", "unlink"} => temp \in Temps
    /\ pc = "fdopen" => disk[temp] = Start(db)
    /\ pc \in {"print", "close"} =>
          /\ stream = "open" /\ buffer <= printed
          /\ disk[temp] = [of |-> db, lines |-> printed - buffer]
    /\ pc = "close" => printed = Lines
    /\ pc = "rename" => stream = "closed" /\ disk[temp] = Whole(db)
    /\ pc = "delete" /\ stream = "open" =>
          disk[temp] \in File /\ disk[temp].lines + buffer <= Lines
    /\ pc = "replaced" => disk[name] = Whole(db)
    /\ told = "saved" => pc \in {"idle", "killed"}

IInv == Types /\ Progress /\ FilesWhole /\ SavedMeansSaved

-----------------------------------------------------------------------------
USE LinesAssumption, NamesAssumption

\* Writing k lines of the buffer to a file that has room for them.
LEMMA FlushedType ==
    ASSUME Types, temp \in Temps, disk[temp] \in File, NEW k \in Nat, disk[temp].lines + k <= Lines
    PROVE  /\ Flushed(k) \in [Names \cup Temps -> File \cup {Absent}]
           /\ Flushed(k)[temp] = [of |-> disk[temp].of, lines |-> disk[temp].lines + k]
           /\ \A f \in Names \cup Temps : f # temp => Flushed(k)[f] = disk[f]
<1> DEFINE c == [of |-> disk[temp].of, lines |-> disk[temp].lines + k]
<1>1. [disk[temp] EXCEPT !.lines = @ + k] = c /\ c \in File
  BY DEF File
<1>2. Flushed(k) = [disk EXCEPT ![temp] = c]
  BY <1>1 DEF Flushed
<1> HIDE DEF c
<1>3. Flushed(k) \in [Names \cup Temps -> File \cup {Absent}]
  BY <1>1, <1>2 DEF Types
<1>4. Flushed(k)[temp] = c
  BY <1>2 DEF Types
<1>5. \A f \in Names \cup Temps : f # temp => Flushed(k)[f] = disk[f]
  BY <1>2 DEF Types
<1> QED  BY <1>3, <1>4, <1>5 DEF c

\* A change of files that are not the user's.
LEMMA UsersFilesKept ==
    ASSUME FilesWhole, \A n \in Names : disk'[n] = disk[n]
    PROVE  FilesWhole'
BY DEF FilesWhole

\* The start of a session.
LEMMA InitInv == Init => IInv
<1> SUFFICES ASSUME Init PROVE IInv
  OBVIOUS
<1>1. PICK n \in Names : disk = [f \in Names \cup Temps |-> IF f = n THEN Whole(0) ELSE Absent]
  BY DEF Init
<1>2. Whole(0) \in File /\ Whole(0).lines = Lines
  BY DEF Whole, File
<1>3. Types
  BY <1>1, <1>2 DEF Init, Types, Phases
<1>4. FilesWhole
  BY <1>1, <1>2 DEF FilesWhole
<1> QED  BY <1>3, <1>4 DEF Init, IInv, Progress, SavedMeansSaved

\* AtomicFile_open creates a file of its own and leaves the user's alone.
LEMMA OpenInv == ASSUME IInv, MakeTemp \/ MakeTempFails \/ Promote \/ PromoteFails PROVE IInv'
<1> USE DEF IInv, Types, Progress, Phases, deaths
<1>1. CASE MakeTemp
  <2>1. PICK t \in Temps : temp' = t /\ disk' = [disk EXCEPT ![t] = Start(db)]
    BY <1>1 DEF MakeTemp, TempFor
  <2>2. Start(db) \in File
    BY DEF Start, File
  <2>3. \A n \in Names : disk'[n] = disk[n]
    BY <2>1
  <2> QED  BY <1>1, <2>1, <2>2, <2>3, UsersFilesKept DEF MakeTemp, SavedMeansSaved
<1>2. CASE MakeTempFails
  BY <1>2 DEF MakeTempFails, SavedMeansSaved, FilesWhole
<1>3. CASE Promote
  BY <1>3 DEF Promote, Start, SavedMeansSaved, FilesWhole
<1>4. CASE PromoteFails
  <2>1. \A n \in Names : disk'[n] = disk[n]
    BY <1>4 DEF PromoteFails
  <2> QED  BY <1>4, <2>1, UsersFilesKept DEF PromoteFails, SavedMeansSaved
<1> QED  BY <1>1, <1>2, <1>3, <1>4

\* DB_to_file prints into the buffer and from there into the temporary file.
LEMMA PrintInv == ASSUME IInv, PrintLine \/ PrintFull \/ PrintFails \/ Printed PROVE IInv'
<1> USE DEF IInv, Types, Progress, Phases, deaths
<1>1. CASE PrintLine
  BY <1>1 DEF PrintLine, SavedMeansSaved, FilesWhole
<1>2. CASE PrintFull
  <2>1. disk[temp] \in File /\ disk[temp].lines = printed - buffer /\ buffer \in Nat
    BY <1>2 DEF PrintFull, File
  <2>2. disk[temp].lines + buffer <= Lines
    BY <2>1, <1>2 DEF PrintFull
  <2>3. disk' = Flushed(buffer)
    BY <1>2 DEF PrintFull
  <2>4. temp \in Temps /\ disk[temp].of = db
    BY <1>2 DEF PrintFull
  <2>5. /\ disk' \in [Names \cup Temps -> File \cup {Absent}]
        /\ disk'[temp] = [of |-> db, lines |-> printed]
        /\ \A n \in Names : disk'[n] = disk[n]
    BY <2>1, <2>2, <2>3, <2>4, FlushedType
  <2> QED  BY <1>2, <2>4, <2>5, UsersFilesKept DEF PrintFull, SavedMeansSaved
<1>3. CASE PrintFails
  <2>1. PICK k \in 0 .. buffer - 1 : disk' = Flushed(k) /\ buffer' = buffer - k
    BY <1>3 DEF PrintFails
  <2>2. temp \in Temps /\ disk[temp] \in File /\ disk[temp].lines = printed - buffer
    BY <1>3 DEF PrintFails, File
  <2>3. k \in Nat /\ buffer - k \in 0 .. BufferLines /\ disk[temp].lines + k <= Lines
    BY <2>1, <2>2, <1>3 DEF PrintFails
  <2>4. /\ disk' \in [Names \cup Temps -> File \cup {Absent}]
        /\ disk'[temp] = [of |-> disk[temp].of, lines |-> disk[temp].lines + k]
        /\ \A n \in Names : disk'[n] = disk[n]
    BY <2>1, <2>2, <2>3, FlushedType
  <2>5. disk'[temp] \in File /\ disk'[temp].lines + (buffer - k) <= Lines
    BY <2>2, <2>3, <2>4 DEF File
  <2> QED  BY <1>3, <2>1, <2>2, <2>3, <2>4, <2>5, UsersFilesKept DEF PrintFails, SavedMeansSaved
<1>4. CASE Printed
  BY <1>4 DEF Printed, SavedMeansSaved, FilesWhole
<1> QED  BY <1>1, <1>2, <1>3, <1>4

\* AtomicFile_close, when the write that fclose makes does not fail: the temporary file
\* holds all of the database when it is renamed.
LEMMA CloseInv ==
    ASSUME "flush" \notin Faults, IInv, Close \/ Rename \/ RenameFails \/ Saved
    PROVE  IInv'
<1> USE DEF IInv, Types, Progress, Phases, deaths
<1>1. CASE Close
  <2>1. /\ temp \in Temps /\ disk[temp] = [of |-> db, lines |-> printed - buffer]
        /\ printed = Lines /\ buffer <= printed
    BY <1>1 DEF Close
  <2>2. disk[temp] \in File /\ disk[temp].lines + buffer <= Lines /\ buffer \in Nat
    BY <2>1 DEF File
  <2>3. disk' = Flushed(buffer) /\ buffer' = 0 /\ stream' = "closed"
    BY <1>1 DEF Close, CloseStream, MayFail
  <2>4. /\ disk' \in [Names \cup Temps -> File \cup {Absent}]
        /\ disk'[temp] = [of |-> db, lines |-> Lines]
        /\ \A n \in Names : disk'[n] = disk[n]
    BY <2>1, <2>2, <2>3, FlushedType
  <2> QED  BY <1>1, <2>1, <2>3, <2>4, UsersFilesKept DEF Close, Whole, SavedMeansSaved
<1>2. CASE Rename
  <2>1. temp \in Temps /\ temp # name /\ disk[temp] = Whole(db)
    BY <1>2 DEF Rename
  <2>2. Whole(db) \in File /\ Whole(db).lines = Lines
    BY DEF Whole, File
  <2>3. disk' = [disk EXCEPT ![name] = Whole(db), ![temp] = Absent]
    BY <1>2, <2>1 DEF Rename
  <2>4. disk' \in [Names \cup Temps -> File \cup {Absent}] /\ disk'[name] = Whole(db)
    BY <2>1, <2>2, <2>3
  <2>5. FilesWhole'
    BY <2>1, <2>2, <2>3 DEF FilesWhole
  <2> QED  BY <1>2, <2>4, <2>5 DEF Rename, SavedMeansSaved, Whole
<1>3. CASE RenameFails
  BY <1>3 DEF RenameFails, SavedMeansSaved, FilesWhole
<1>4. CASE Saved
  BY <1>4 DEF Saved, Forget, SavedMeansSaved, FilesWhole, Whole
<1> QED  BY <1>1, <1>2, <1>3, <1>4

\* AtomicFile_delete.
LEMMA DeleteInv ==
    ASSUME "flush" \notin Faults, IInv,
           DeleteCloses \/ DeleteClosesAgain \/ DeleteAborts \/ Unlink \/ Failed
    PROVE  IInv'
<1> USE DEF IInv, Types, Progress, Phases, deaths
<1>1. CASE DeleteCloses
  <2>1. /\ temp \in Temps /\ disk[temp] \in File
        /\ disk[temp].lines + buffer <= Lines /\ buffer \in Nat
    BY <1>1 DEF DeleteCloses
  <2>2. disk' = Flushed(buffer) /\ buffer' = 0 /\ stream' = "closed"
    BY <1>1 DEF DeleteCloses, CloseStream, MayFail
  <2>3. /\ disk' \in [Names \cup Temps -> File \cup {Absent}]
        /\ \A n \in Names : disk'[n] = disk[n]
    BY <2>1, <2>2, FlushedType
  <2> QED  BY <1>1, <2>1, <2>2, <2>3, UsersFilesKept DEF DeleteCloses, SavedMeansSaved
<1>2. CASE DeleteClosesAgain
  BY <1>2 DEF DeleteClosesAgain, SavedMeansSaved, FilesWhole
<1>3. CASE Unlink
  <2>1. \A n \in Names : disk'[n] = disk[n]
    BY <1>3 DEF Unlink, Unlinked
  <2> QED  BY <1>3, <2>1, UsersFilesKept DEF Unlink, Unlinked, SavedMeansSaved
<1>4. CASE Failed
  BY <1>4 DEF Failed, Forget, SavedMeansSaved, FilesWhole
<1>5. CASE DeleteAborts
  BY <1>5 DEF DeleteAborts, Forget, SavedMeansSaved, FilesWhole, Whole
<1> QED  BY <1>1, <1>2, <1>3, <1>4, <1>5

\* The user's commands, and the program being killed and started again.
LEMMA WorldInv ==
    ASSUME IInv, Edit \/ (\E n \in Names : Save(n)) \/ Kill \/ Restart
    PROVE  IInv'
<1> USE DEF IInv, Types, Progress, Phases, deaths
<1>1. CASE Edit
  BY <1>1 DEF Edit, SavedMeansSaved, FilesWhole
<1>2. CASE \E n \in Names : Save(n)
  BY <1>2 DEF Save, SavedMeansSaved, FilesWhole
<1>3. CASE Kill
  BY <1>3 DEF Kill, Forget, SavedMeansSaved, FilesWhole, Whole
<1>4. CASE Restart
  <2>1. PICK n \in Names : disk[n] # Absent /\ db' = disk[n].of
    BY <1>4 DEF Restart
  <2>2. db' \in Nat
    BY <2>1 DEF File
  <2> QED  BY <1>4, <2>2 DEF Restart, SavedMeansSaved, FilesWhole
<1> QED  BY <1>1, <1>2, <1>3, <1>4

\* No step breaks the invariant.
LEMMA NextInv == ASSUME "flush" \notin Faults, IInv, [Next]_vars PROVE IInv'
<1>1. CASE Next
  BY <1>1, OpenInv, PrintInv, CloseInv, DeleteInv, WorldInv DEF Next
<1>2. CASE UNCHANGED vars
  BY <1>2 DEF vars, deaths, IInv, Types, Progress, FilesWhole, SavedMeansSaved
<1> QED  BY <1>1, <1>2

-----------------------------------------------------------------------------
\* A program that may be killed between any two steps, and whose calls may fail, never
\* leaves part of a database in a file of the user, as long as the last write of fclose
\* does not fail.
THEOREM FilesAlwaysWhole == ASSUME "flush" \notin Faults PROVE Spec => []FilesWhole
<1>1. Init => IInv
  BY InitInv
<1>2. IInv /\ [Next]_vars => IInv'
  BY NextInv
<1>3. IInv => FilesWhole
  BY DEF IInv
<1> QED  BY <1>1, <1>2, <1>3, PTL DEF Spec

\* A user who has been told that the database was saved finds all of it in the file,
\* under the same condition.  Without it AtomicFile_close breaks this.
THEOREM SavedAlwaysMeansSaved == ASSUME "flush" \notin Faults PROVE Spec => []SavedMeansSaved
<1>1. Init => IInv
  BY InitInv
<1>2. IInv /\ [Next]_vars => IInv'
  BY NextInv
<1>3. IInv => SavedMeansSaved
  BY DEF IInv
<1> QED  BY <1>1, <1>2, <1>3, PTL DEF Spec

-----------------------------------------------------------------------------
(* The steps are those of AtomicSave.                                       *)

promised == <<db, FilesOf(disk), name, Phase, told>>

\* The steps of a save that change no file of the user and end nothing.
LEMMA Stutters ==
    ASSUME \A n \in Names : disk'[n] = disk[n], UNCHANGED <<db, name, told>>,
           Phase' = Phase
    PROVE  UNCHANGED promised
BY DEF promised, FilesOf

\* The files of the user are left alone by what happens to the temporary file.
LEMMA TempOnly ==
    ASSUME Types, temp \in Temps, NEW c, disk' = [disk EXCEPT ![temp] = c]
    PROVE  \A n \in Names : disk'[n] = disk[n]
BY DEF Types

\* Every step is one of AtomicSave, or one that it does not see.
LEMMA StepMaps ==
    ASSUME "flush" \notin Faults, IInv, Next
    PROVE  Promise!Next \/ UNCHANGED promised
<1> USE DEF IInv, Types
<1>1. CASE Edit
  BY <1>1 DEF Edit, Promise!Next, Promise!Edit, Phase, FilesOf
<1>2. CASE \E n \in Names : Save(n)
  BY <1>2 DEF Save, Promise!Next, Promise!Ask, Phase, FilesOf
<1>3. CASE MakeTemp
  <2>1. \A n \in Names : disk'[n] = disk[n]
    BY <1>3 DEF MakeTemp, TempFor
  <2> QED  BY <1>3, <2>1, Stutters DEF MakeTemp, Phase
<1>4. CASE MakeTempFails \/ Promote \/ PrintLine \/ Printed
  BY <1>4, Stutters DEF MakeTempFails, Promote, PrintLine, Printed, Phase
<1>5. CASE PromoteFails \/ Unlink
  <2>1. temp \in Temps /\ disk' = [disk EXCEPT ![temp] = Absent]
    BY <1>5 DEF PromoteFails, Unlink, Unlinked, Progress
  <2>2. \A n \in Names : disk'[n] = disk[n]
    BY <2>1, TempOnly
  <2> QED  BY <1>5, <2>2, Stutters DEF PromoteFails, Unlink, Phase
<1>6. CASE PrintFull \/ PrintFails \/ Close \/ DeleteCloses
  <2>1. temp \in Temps /\ \E k : disk' = Flushed(k)
    BY <1>6 DEF PrintFull, PrintFails, Close, DeleteCloses, CloseStream, MayFail, Progress
  <2>2. \A n \in Names : disk'[n] = disk[n]
    BY <2>1, TempOnly DEF Flushed
  <2> QED  BY <1>6, <2>2, Stutters DEF PrintFull, PrintFails, Close, DeleteCloses, Phase
<1>7. CASE Rename
  <2>1. temp \in Temps /\ temp # name /\ disk[temp] = Whole(db)
    BY <1>7 DEF Rename, Progress
  <2>2. disk' = [disk EXCEPT ![name] = Whole(db), ![temp] = Absent]
    BY <1>7, <2>1 DEF Rename
  <2>3. FilesOf(disk)' = [FilesOf(disk) EXCEPT ![name] = Whole(db)]
    BY <2>1, <2>2 DEF FilesOf
  <2> QED  BY <1>7, <2>3 DEF Rename, Promise!Next, Promise!Replace, Phase
<1>8. CASE RenameFails \/ DeleteClosesAgain
  BY <1>8, Stutters DEF RenameFails, DeleteClosesAgain, Phase
<1>9. CASE Saved
  BY <1>9 DEF Saved, Promise!Next, Promise!SaySaved, Phase, FilesOf
<1>10. CASE Failed
  BY <1>10 DEF Failed, Promise!Next, Promise!SayError, Phase, FilesOf
<1>11. CASE Kill \/ DeleteAborts
  BY <1>11 DEF Kill, DeleteAborts, Promise!Next, Promise!Kill, Phase, FilesOf
<1>12. CASE Restart
  <2>1. PICK n \in Names : /\ disk[n] # Absent /\ disk[n] = Whole(disk[n].of)
                          /\ db' = disk[n].of
    BY <1>12 DEF Restart
  <2>2. db' \in Nat /\ FilesOf(disk)[n] = Whole(db')
    BY <2>1 DEF File, FilesOf
  <2> QED  BY <1>12, <2>2 DEF Restart, Promise!Next, Promise!Restart, Phase, FilesOf
<1> QED  BY <1>1, <1>2, <1>3, <1>4, <1>5, <1>6, <1>7, <1>8, <1>9, <1>10, <1>11, <1>12 DEF Next

\* SAVE replaces the file in one step by the whole of the database or not at all, says
\* that it was saved only after that step, and that it failed only without it, as long as
\* the last write of fclose does not fail.
THEOREM SaveIsAtomic == ASSUME "flush" \notin Faults PROVE Spec => ImplementsAtomicSave
<1>1. Init => IInv
  BY InitInv
<1>2. IInv /\ [Next]_vars => IInv'
  BY NextInv
<1>3. Init => Promise!Init
  <2> SUFFICES ASSUME Init PROVE Promise!Init
    OBVIOUS
  <2>1. PICK n \in Names : disk = [f \in Names \cup Temps |-> IF f = n THEN Whole(0) ELSE Absent]
    BY DEF Init
  <2>2. FilesOf(disk) = [f \in Names |-> IF f = n THEN Whole(0) ELSE Absent]
    BY <2>1 DEF FilesOf
  <2> QED  BY <2>2 DEF Init, Promise!Init, Phase
<1>4. IInv /\ [Next]_vars => [Promise!Next]_<<db, FilesOf(disk), name, Phase, told>>
  BY StepMaps DEF promised, vars, FilesOf, Phase
<1> QED  BY <1>1, <1>2, <1>3, <1>4, PTL DEF Spec, ImplementsAtomicSave, Promise!Spec
-----------------------------------------------------------------------------
(* Temporary files, whatever fails.                                         *)

Holding == pc \in {"fdopen", "print", "close", "rename", "delete", "unlink"}

TempFiles == {t \in Temps : disk[t] # Absent}

\* Those that no save will remove any more.
Left == IF Holding THEN TempFiles \ {temp} ELSE TempFiles

TempInv ==
    /\ kills \in Nat /\ aborts \in Nat
    /\ DOMAIN disk = Names \cup Temps /\ disk = [f \in DOMAIN disk |-> disk[f]]
    /\ name \in Names /\ (Holding => temp \in Temps)
    /\ IsFiniteSet(Left) /\ Cardinality(Left) <= kills + aborts

\* A step in which the program does not die, and after which no more files are left.
LEMMA NoneLeft ==
    ASSUME TempInv, Left' \subseteq Left, UNCHANGED deaths
    PROVE  IsFiniteSet(Left') /\ Cardinality(Left') <= kills' + aborts'
<1>1. IsFiniteSet(Left') /\ Cardinality(Left') <= Cardinality(Left)
  BY FS_Subset DEF TempInv
<1>2. Cardinality(Left) \in Nat /\ Cardinality(Left') \in Nat
  BY <1>1, FS_CardinalityType DEF TempInv
<1> QED  BY <1>1, <1>2 DEF TempInv, deaths

\* The temporary file of a save is the only one that it touches.
LEMMA OwnTempOnly ==
    ASSUME TempInv, Holding, Holding', temp' = temp, UNCHANGED <<name, deaths>>,
           NEW c, disk' = [disk EXCEPT ![temp] = c]
    PROVE  TempInv'
<1>1. DOMAIN disk' = Names \cup Temps /\ disk' = [f \in DOMAIN disk' |-> disk'[f]]
  BY DEF TempInv
<1>2. Left' \subseteq Left
  BY DEF TempInv, Left, TempFiles
<1> QED  BY <1>1, <1>2, NoneLeft DEF TempInv, deaths

\* A step that touches no file, and lets go of none.
LEMMA NoFileTouched ==
    ASSUME TempInv, UNCHANGED <<disk, deaths>>, name' \in Names,
           Holding' <=> Holding, Holding => temp' = temp
    PROVE  TempInv'
<1>1. Left' = Left
  BY DEF Left, TempFiles
<1> QED  BY <1>1 DEF TempInv, deaths

\* A save removes its temporary file, or renames it.
LEMMA TempGone ==
    ASSUME TempInv, PromoteFails \/ Unlink \/ Rename
    PROVE  TempInv'
<1>1. Holding /\ ~Holding' /\ UNCHANGED <<name, deaths, temp>>
  BY DEF PromoteFails, Unlink, Rename, Holding
<1>2. DOMAIN disk' = Names \cup Temps /\ disk' = [f \in DOMAIN disk' |-> disk'[f]]
  BY DEF TempInv, PromoteFails, Unlink, Unlinked, Rename
<1>3. temp \in Temps /\ disk'[temp] = Absent /\ \A t \in Temps \ {temp} : disk'[t] = disk[t]
  BY <1>1 DEF TempInv, PromoteFails, Unlink, Unlinked, Rename
<1>4. Left' \subseteq Left
  BY <1>1, <1>3 DEF Left, TempFiles
<1> QED  BY <1>1, <1>2, <1>4, NoneLeft DEF TempInv, deaths

\* A program that dies leaves one file behind at most.
LEMMA DeathLeaves == ASSUME TempInv, Kill \/ DeleteAborts PROVE TempInv'
<1>1. /\ ~Holding' /\ kills' \in Nat /\ aborts' \in Nat
      /\ kills' + aborts' = kills + aborts + 1 /\ UNCHANGED <<disk, name>>
  BY DEF Kill, DeleteAborts, Holding, TempInv
<1>2. Left' = TempFiles /\ TempFiles \subseteq Left \cup {temp}
  BY <1>1 DEF Left, TempFiles
<1>3. IsFiniteSet(Left \cup {temp}) /\ Cardinality(Left \cup {temp}) <= Cardinality(Left) + 1
  <2>1. IsFiniteSet(Left) /\ Cardinality(Left) \in Nat
    BY FS_CardinalityType DEF TempInv
  <2>2. /\ IsFiniteSet(Left \cup {temp})
        /\ Cardinality(Left \cup {temp})
             = IF temp \in Left THEN Cardinality(Left) ELSE Cardinality(Left) + 1
    BY <2>1, FS_AddElement, Zenon
  <2> QED  BY <2>1, <2>2
<1>4. IsFiniteSet(Left') /\ Cardinality(Left') <= Cardinality(Left \cup {temp})
  BY <1>2, <1>3, FS_Subset
<1>5. Cardinality(Left) \in Nat /\ Cardinality(Left') \in Nat /\ Cardinality(Left \cup {temp}) \in Nat
  BY <1>3, <1>4, FS_CardinalityType DEF TempInv
<1>6. Cardinality(Left') <= kills' + aborts'
  BY <1>1, <1>3, <1>4, <1>5 DEF TempInv
<1> QED  BY <1>1, <1>4, <1>6 DEF TempInv

\* No step of the program leaves a temporary file behind but those of which it dies.
LEMMA NextTemp == ASSUME TempInv, [Next]_vars PROVE TempInv'
<1>1. CASE Edit \/ (\E n \in Names : Save(n)) \/ Restart
  <2>1. UNCHANGED <<disk, deaths, temp>> /\ name' \in Names /\ ~Holding /\ ~Holding'
    BY <1>1 DEF Edit, Save, Restart, Holding, TempInv
  <2> QED  BY <2>1, NoFileTouched
<1>2. CASE MakeTemp
  <2>1. PICK t \in Temps : temp' = t /\ disk' = [disk EXCEPT ![t] = Start(db)]
    BY <1>2 DEF MakeTemp, TempFor
  <2>2. ~Holding /\ Holding' /\ UNCHANGED <<name, deaths>>
    BY <1>2 DEF MakeTemp, Holding
  <2>3. DOMAIN disk' = Names \cup Temps /\ disk' = [f \in DOMAIN disk' |-> disk'[f]]
    BY <2>1 DEF TempInv
  <2>4. Left' \subseteq Left
    BY <2>1, <2>2 DEF TempInv, Left, TempFiles
  <2> QED  BY <2>1, <2>2, <2>3, <2>4, NoneLeft DEF TempInv, deaths
<1>3. CASE MakeTempFails \/ Promote \/ PrintLine \/ Printed \/ RenameFails \/ DeleteClosesAgain
  <2>1. UNCHANGED <<disk, deaths, temp, name>> /\ (Holding' <=> Holding)
    BY <1>3 DEF MakeTempFails, Promote, PrintLine, Printed, RenameFails, DeleteClosesAgain, Holding
  <2> QED  BY <2>1, NoFileTouched DEF TempInv
<1>4. CASE PrintFull \/ PrintFails \/ Close \/ DeleteCloses
  <2>1. Holding /\ Holding' /\ UNCHANGED <<temp, name, deaths>>
    BY <1>4 DEF PrintFull, PrintFails, Close, DeleteCloses, Holding
  <2>2. \E k : disk' = Flushed(k)
    BY <1>4 DEF PrintFull, PrintFails, Close, DeleteCloses, CloseStream
  <2> QED  BY <2>1, <2>2, OwnTempOnly DEF Flushed
<1>5. CASE PromoteFails \/ Unlink \/ Rename
  BY <1>5, TempGone
<1>6. CASE Saved \/ Failed
  <2>1. UNCHANGED <<disk, deaths, name>> /\ ~Holding /\ ~Holding'
    BY <1>6 DEF Saved, Failed, Holding
  <2> QED  BY <2>1, NoFileTouched DEF TempInv
<1>7. CASE Kill \/ DeleteAborts
  BY <1>7, DeathLeaves
<1>8. CASE UNCHANGED vars
  <2>1. UNCHANGED <<disk, deaths, name, temp>> /\ (Holding' <=> Holding)
    BY <1>8 DEF vars, Holding
  <2> QED  BY <2>1, NoFileTouched DEF TempInv
<1> QED  BY <1>1, <1>2, <1>3, <1>4, <1>5, <1>6, <1>7, <1>8 DEF Next

\* Whatever fails, the write of fclose and the rename included, a save that returns has
\* removed its temporary file: there are never more of them between two commands, or when
\* the program has died, than the times that it has died, of being killed or of closing
\* the stream again behind a rename that failed.
THEOREM TempsAlwaysRemoved == Spec => []TempsRemoved
<1>1. Init => TempInv
  <2> SUFFICES ASSUME Init PROVE TempInv
    OBVIOUS
  <2>1. PICK n \in Names : disk = [f \in Names \cup Temps |-> IF f = n THEN Whole(0) ELSE Absent]
    BY DEF Init
  <2>2. ~Holding /\ Left = {}
    BY <2>1 DEF Init, Holding, Left, TempFiles
  <2> QED  BY <2>1, <2>2, FS_EmptySet DEF Init, TempInv
<1>2. TempInv /\ [Next]_vars => TempInv'
  BY NextTemp
<1>3. TempInv => TempsRemoved
  BY DEF TempInv, TempsRemoved, Holding, Left, TempFiles
<1> QED  BY <1>1, <1>2, <1>3, PTL DEF Spec
===============================================================================
