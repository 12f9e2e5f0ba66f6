------------------------------ MODULE AtomicSave ------------------------------
(***************************************************************************)
(* What SAVE promises: the file a user names is replaced in one step by the *)
(* whole of the database or not at all, whatever goes wrong and whenever    *)
(* the program is killed, and the user is told which.                       *)
(***************************************************************************)
EXTENDS Naturals

CONSTANTS
    Names,    \* the names users give files
    Absent,   \* no such file
    Whole(_)  \* the file that holds all of a version of the database

VARIABLES
    db,     \* the version of the database that is in memory
    files,  \* what each named file holds
    name,   \* the file being saved to
    phase,  \* how far the save has got
    told    \* what the user has been told of the last one

Init ==
    /\ db = 0
    /\ \E n \in Names : files = [f \in Names |-> IF f = n THEN Whole(0) ELSE Absent]
    /\ name \in Names /\ phase = "idle" /\ told = "none"

Edit == phase = "idle" /\ db' = db + 1 /\ told' = "none" /\ UNCHANGED <<files, name, phase>>

Ask ==
    /\ phase = "idle" /\ phase' = "asked"
    /\ name' \in Names
    /\ told' = "none"
    /\ UNCHANGED <<db, files>>

Replace ==
    /\ phase = "asked" /\ phase' = "replaced"
    /\ files' = [files EXCEPT ![name] = Whole(db)]
    /\ UNCHANGED <<db, name, told>>

SaySaved ==
    /\ phase = "replaced" /\ phase' = "idle"
    /\ told' = "saved"
    /\ UNCHANGED <<db, files, name>>

SayError ==
    /\ phase = "asked" /\ phase' = "idle"
    /\ told' = "error"
    /\ UNCHANGED <<db, files, name>>

Kill ==
    /\ phase # "killed" /\ phase' = "killed"
    /\ UNCHANGED <<db, files, name, told>>

\* The next session opens one of the files.
Restart ==
    /\ phase = "killed" /\ phase' = "idle"
    /\ db' \in Nat /\ \E n \in Names : files[n] = Whole(db')
    /\ told' = "none"
    /\ UNCHANGED <<files, name>>

Next == Edit \/ Ask \/ Replace \/ SaySaved \/ SayError \/ Kill \/ Restart

Spec == Init /\ [][Next]_<<db, files, name, phase, told>>
===============================================================================
