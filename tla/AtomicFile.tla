------------------------------ MODULE AtomicFile ------------------------------
(***************************************************************************)
(* SAVE: run_save of src/src/main.c, DB_to_file of src/src/db.c and the     *)
(* AtomicFile of src/src/atomic-file.c, with the file system under them.    *)
(* The database is printed line by line into the buffer of a stream on a    *)
(* temporary file, which is then closed and renamed.  The system calls may  *)
(* fail and the program may be killed between any two of them.              *)
(***************************************************************************)
EXTENDS Integers, FiniteSets

CONSTANTS
    Names,       \* the names users give files
    Temps,       \* the names mkstemp may choose
    Lines,       \* how many lines a database is printed as
    BufferLines, \* how many of them the buffer of a stream holds
    Absent,      \* no such file
    Faults,      \* the calls that may fail, and "kill"
    MaxEdits, MaxKills \* bounds on how often the database changes and the program dies

ASSUME LinesAssumption == Lines \in Nat \ {0} /\ BufferLines \in Nat \ {0}
ASSUME NamesAssumption == Names \cap Temps = {}
ASSUME FaultsAssumption == Faults \subseteq {"mkstemp", "fdopen", "write", "flush", "rename", "kill"}

VARIABLES
    db,      \* the version of the database that is in memory
    disk,    \* what each file holds: Absent, or the first lines of a version
    pc,      \* the next step of the SAVE command; "idle" between commands
    name,    \* args->filename
    temp,    \* file->temp_filename, Absent outside SAVE
    stream,  \* file->fptr: "none", "open" or "closed"
    printed, \* the lines DB_to_file has printed
    buffer,  \* how many of them are still in the buffer of the stream
    told,    \* what the user has been told of the last SAVE
    kills,   \* how often the program has been killed
    aborts   \* how often it has died of closing a stream twice

deaths == <<kills, aborts>>
vars == <<db, disk, pc, name, temp, stream, printed, buffer, told, deaths>>

FilesOf(D) == [n \in Names |-> D[n]]

Start(v) == [of |-> v, lines |-> 0]
Whole(v) == [of |-> v, lines |-> Lines]

MayFail(c) == c \in Faults

\* The locals of run_save and its AtomicFile are gone.
Forget == temp' = Absent /\ stream' = "none" /\ printed' = 0 /\ buffer' = 0

Init ==
    /\ db = 0
    /\ \E n \in Names : disk = [f \in Names \cup Temps |-> IF f = n THEN Whole(0) ELSE Absent]
    /\ pc = "idle"
    /\ name \in Names /\ temp = Absent /\ stream = "none"
    /\ printed = 0 /\ buffer = 0
    /\ told = "none" /\ kills = 0 /\ aborts = 0

\* INSERT, UPDATE and DELETE.
Edit ==
    /\ pc = "idle" /\ db < MaxEdits
    /\ db' = db + 1 /\ told' = "none"
    /\ UNCHANGED <<disk, pc, name, temp, stream, printed, buffer, deaths>>

Save(n) ==
    /\ pc = "idle" /\ pc' = "mkstemp"
    /\ name' = n /\ told' = "none"
    /\ UNCHANGED <<db, disk, temp, stream, printed, buffer, deaths>>

-----------------------------------------------------------------------------
(* AtomicFile_open                                                          *)

TempInUse(n) == {n} \* slip: prints straight into the file

\* mkstemp creates a file of a name that no file has.
TempFor(n) == {t \in Temps : disk[t] = Absent}

MakeTemp ==
    /\ pc = "mkstemp"
    /\ \E t \in TempFor(name) :
          temp' = t /\ disk' = [disk EXCEPT ![t] = Start(db)]
    /\ pc' = "fdopen"
    /\ UNCHANGED <<db, name, stream, printed, buffer, told, deaths>>

MakeTempFails ==
    /\ pc = "mkstemp" /\ MayFail("mkstemp")
    /\ pc' = "failed"
    /\ UNCHANGED <<db, disk, name, temp, stream, printed, buffer, told, deaths>>

Promote ==
    /\ pc = "fdopen" /\ pc' = "print"
    /\ stream' = "open" /\ printed' = 0 /\ buffer' = 0
    /\ UNCHANGED <<db, disk, name, temp, told, deaths>>

PromoteFails ==
    /\ pc = "fdopen" /\ MayFail("fdopen")
    /\ disk' = [disk EXCEPT ![temp] = Absent]
    /\ pc' = "failed"
    /\ UNCHANGED <<db, name, temp, stream, printed, buffer, told, deaths>>

-----------------------------------------------------------------------------
(* DB_to_file                                                               *)

\* The file the stream is on, once k more of its lines have been written.
Flushed(k) == [disk EXCEPT ![temp].lines = @ + k]

PrintLine ==
    /\ pc = "print" /\ printed < Lines /\ buffer < BufferLines
    /\ printed' = printed + 1 /\ buffer' = buffer + 1
    /\ UNCHANGED <<db, disk, pc, name, temp, stream, told, deaths>>

\* The line does not fit the buffer: what the buffer holds is written first.
PrintFull ==
    /\ pc = "print" /\ printed < Lines /\ buffer = BufferLines
    /\ disk' = Flushed(buffer)
    /\ printed' = printed + 1 /\ buffer' = 1
    /\ UNCHANGED <<db, pc, name, temp, stream, told, deaths>>

PrintFails ==
    /\ pc = "print" /\ printed < Lines /\ buffer = BufferLines /\ MayFail("write")
    /\ \E k \in 0 .. buffer - 1 : disk' = Flushed(k) /\ buffer' = buffer - k
    /\ pc' = "delete"
    /\ UNCHANGED <<db, name, temp, stream, printed, told, deaths>>

Printed ==
    /\ pc = "print" /\ printed = Lines
    /\ pc' = "close"
    /\ UNCHANGED <<db, disk, name, temp, stream, printed, buffer, told, deaths>>

-----------------------------------------------------------------------------
(* AtomicFile_close and AtomicFile_delete.  Neither looks at what fclose     *)
(* returns.                                                                 *)

CloseStreamUnflushed == \* slip: what the buffer holds is dropped
    stream' = "closed" /\ buffer' = 0 /\ disk' = disk

\* fclose writes what the buffer holds, or part of it if it fails, and frees the stream.
CloseStream ==
    /\ stream' = "closed" /\ buffer' = 0
    /\ \/ disk' = Flushed(buffer)
       \/ MayFail("flush") /\ \E k \in 0 .. buffer - 1 : disk' = Flushed(k)

Close ==
    /\ pc = "close" /\ pc' = "rename"
    /\ CloseStream
    /\ UNCHANGED <<db, name, temp, printed, told, deaths>>

Rename ==
    /\ pc = "rename"
    /\ disk' = [disk EXCEPT ![name] = disk[temp], ![temp] = Absent]
    /\ pc' = "replaced"
    /\ UNCHANGED <<db, name, temp, stream, printed, buffer, told, deaths>>

RenameMisread == \* slip: takes 0 for a failure of rename
    /\ pc = "rename" /\ MayFail("rename")
    /\ disk' = [disk EXCEPT ![name] = disk[temp], ![temp] = Absent]
    /\ pc' = "delete"
    /\ UNCHANGED <<db, name, temp, stream, printed, buffer, told, deaths>>

RenameFails ==
    /\ pc = "rename" /\ MayFail("rename")
    /\ pc' = "delete"
    /\ UNCHANGED <<db, disk, name, temp, stream, printed, buffer, told, deaths>>

Saved ==
    /\ pc = "replaced" /\ pc' = "idle"
    /\ told' = "saved" /\ Forget
    /\ UNCHANGED <<db, disk, name, deaths>>

DeleteCloses ==
    /\ pc = "delete" /\ stream = "open"
    /\ CloseStream
    /\ pc' = "unlink"
    /\ UNCHANGED <<db, name, temp, printed, told, deaths>>

\* fclose of a stream that is closed has no defined behaviour.  It may do nothing.
DeleteClosesAgain ==
    /\ pc = "delete" /\ stream = "closed"
    /\ pc' = "unlink"
    /\ UNCHANGED <<db, disk, name, temp, stream, printed, buffer, told, deaths>>

MayDie == kills + aborts < MaxKills

\* Or the allocator finds that the stream is freed twice, and ends the program.
DeleteAborts ==
    /\ pc = "delete" /\ stream = "closed" /\ MayDie
    /\ pc' = "killed" /\ aborts' = aborts + 1
    /\ Forget
    /\ UNCHANGED <<db, disk, name, told, kills>>

UnlinkNothing == disk \* slip: the temporary file is left behind

Unlinked == [disk EXCEPT ![temp] = Absent]

Unlink ==
    /\ pc = "unlink" /\ pc' = "failed"
    /\ disk' = Unlinked
    /\ UNCHANGED <<db, name, temp, stream, printed, buffer, told, deaths>>

Failed ==
    /\ pc = "failed" /\ pc' = "idle"
    /\ told' = "error" /\ Forget
    /\ UNCHANGED <<db, disk, name, deaths>>

-----------------------------------------------------------------------------
(* The world.                                                               *)

\* The program is killed.  What is in the buffer of the stream is gone.
Kill ==
    /\ MayFail("kill") /\ MayDie /\ pc # "killed"
    /\ pc' = "killed" /\ kills' = kills + 1
    /\ Forget
    /\ UNCHANGED <<db, disk, name, told, aborts>>

\* It is started again and a file is opened.
Restart ==
    /\ pc = "killed" /\ pc' = "idle"
    /\ \E n \in Names : disk[n] # Absent /\ disk[n] = Whole(disk[n].of) /\ db' = disk[n].of
    /\ told' = "none"
    /\ UNCHANGED <<disk, name, temp, stream, printed, buffer, deaths>>

Next ==
    \/ Edit \/ \E n \in Names : Save(n)
    \/ MakeTemp \/ MakeTempFails \/ Promote \/ PromoteFails
    \/ PrintLine \/ PrintFull \/ PrintFails \/ Printed
    \/ Close \/ Rename \/ RenameFails \/ Saved
    \/ DeleteCloses \/ DeleteClosesAgain \/ DeleteAborts \/ Unlink \/ Failed
    \/ Kill \/ Restart

Spec == Init /\ [][Next]_vars

-----------------------------------------------------------------------------
(* Properties.                                                              *)

\* In no state, and so wherever the program may be killed, does a file of the user hold
\* part of a database.
FilesWhole == \A n \in Names : disk[n] = Absent \/ disk[n].lines = Lines

\* A user who has been told that the database was saved finds all of it in the file:
\* AtomicFile_close "Returns whether the operation was successful".
SavedMeansSaved == told = "saved" => disk[name] = Whole(db)

\* Whichever way a save ends, whatever call of Faults failed in it, no temporary file is left
\* but the one of a save in which the program died: killed, or aborted behind a rename that
\* failed, where AtomicFile_delete closes the stream again before it unlinks the file
\* (main.c:524, atomic-file.c:79).
TempsRemoved ==
    pc \in {"idle", "killed"} => Cardinality({t \in Temps : disk[t] # Absent}) <= kills + aborts

\* The stream of an AtomicFile is closed once, by AtomicFile_close or AtomicFile_delete,
\* as the comment on AtomicFile_open asks.
ClosedOnce == pc = "delete" => stream = "open"

Phase ==
    CASE pc = "idle" -> "idle"
      [] pc = "replaced" -> "replaced"
      [] pc = "killed" -> "killed"
      [] OTHER -> "asked"

Promise == INSTANCE AtomicSave WITH files <- FilesOf(disk), phase <- Phase

\* SAVE replaces the file in one step by the whole of the database or not at all, says
\* that it was saved only after that step, and that it failed only without it.
ImplementsAtomicSave == Promise!Spec
===============================================================================
