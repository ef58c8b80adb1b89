------------------------------ MODULE StateLock ------------------------------
(***************************************************************************)
(* acquireLock of MarketplaceStateManager (src/src/state/index.ts): a lock *)
(* file, created exclusively, that holds the pid of its owner; processes   *)
(* that find it judge whether its owner is alive, and delete it if not.    *)
(* Creating the file and writing the pid are two steps, and so are the     *)
(* judgement and the deletion.  The doctor (src/src/doctor/index.ts) can   *)
(* be asked to delete lock files by their age.                             *)
(***************************************************************************)
EXTENDS Naturals, FiniteSets

CONSTANTS Process, NoProcess

NoFile == [owner |-> NoProcess, written |-> FALSE, old |-> FALSE]

VARIABLES
    lockFile,     \* whose file it is, and whether the pid is in it
    where,        \* where[p]
    repair        \* what the doctor is about to do

lockVars == <<lockFile, where, repair>>

LockInit ==
    /\ lockFile = NoFile
    /\ where = [p \in Process |-> "new"]
    /\ repair = "none"

To(p, w) == where' = [where EXCEPT ![p] = w] /\ UNCHANGED repair

\* writeFile with the flag wx, part one ...
CreateLock(p) ==
    /\ where[p] \in {"new", "trying"}
    /\ lockFile = NoFile
    /\ lockFile' = [NoFile EXCEPT !.owner = p]
    /\ To(p, "writing")

\* ... and part two: into the file that it created, wherever that is.
WritePid(p) ==
    /\ where[p] = "writing"
    /\ lockFile' = IF lockFile.owner = p THEN [lockFile EXCEPT !.written = TRUE, !.old = FALSE]
                  ELSE lockFile
    /\ To(p, "holding")

FindLock(p) ==
    /\ where[p] \in {"new", "trying"}
    /\ lockFile # NoFile
    /\ To(p, "checking")
    /\ UNCHANGED lockFile

\* _isStaleLock: no pid in it, no such process, or no such file.
IsStale == ~lockFile.written \/ where[lockFile.owner] = "dead"

Judge(p) ==
    /\ where[p] = "checking"
    /\ To(p, IF IsStale THEN "deleting" ELSE "trying")
    /\ UNCHANGED lockFile

\* Whatever file is there now.
DeleteLock(p) ==
    /\ where[p] = "deleting"
    /\ lockFile' = NoFile
    /\ To(p, "trying")

GiveUpLock(p) ==
    /\ where[p] = "trying"
    /\ To(p, "failed")
    /\ UNCHANGED lockFile

ReleaseLock(p) ==
    /\ where[p] = "holding"
    /\ lockFile' = NoFile
    /\ To(p, "released")

Die(p) ==
    /\ where[p] \notin {"new", "dead", "failed", "released"}
    /\ To(p, "dead")
    /\ UNCHANGED lockFile

\* Ten minutes go by since the file was written.
GrowOld ==
    /\ lockFile # NoFile /\ ~lockFile.old
    /\ lockFile' = [lockFile EXCEPT !.old = TRUE]
    /\ UNCHANGED <<where, repair>>

\* remove-stale-locks: the age of a file is looked at, whoever lives ...
FindOldLock ==
    /\ repair = "none"
    /\ lockFile.old
    /\ repair' = "deleting"
    /\ UNCHANGED <<lockFile, where>>

\* ... and the file that is there then is removed.
DeleteOldLock ==
    /\ repair = "deleting"
    /\ repair' = "none"
    /\ lockFile' = NoFile
    /\ UNCHANGED where

LockNext ==
    \/ GrowOld \/ FindOldLock \/ DeleteOldLock
    \/ \E p \in Process :
        \/ CreateLock(p) \/ WritePid(p) \/ FindLock(p) \/ Judge(p)
        \/ DeleteLock(p) \/ GiveUpLock(p) \/ ReleaseLock(p) \/ Die(p)

-----------------------------------------------------------------------------
\* The lock file in place is that of a process that is still between its
\* creation and its release, or is judged stale: no process waits for a lock
\* that nobody gives back, whoever deletes the file meanwhile.  (Two may hold a
\* lock; see the README.)
LocksAreGivenBack ==
    lockFile # NoFile => where[lockFile.owner] \in {"writing", "holding"} \/ IsStale
=============================================================================
