-------------------------- MODULE PluginStateStore --------------------------
(***************************************************************************)
(* PluginStateStore (src/src/plugins/state-store.ts): the state of each    *)
(* plugin in memory and in its file.  Saves of one plugin follow one       *)
(* another; each writes what is in memory when its turn comes.             *)
(*                                                                         *)
(* The state of a plugin is the number of the save that it was given to    *)
(* last; 0 is the empty state.                                             *)
(***************************************************************************)
EXTENDS Integers, Sequences

CONSTANTS
    Owner       \* plugins that may keep a state on disk

VARIABLES
    cached,     \* _cache: the state in memory, or Absent
    file,       \* state.json: the state in it, or Absent
    chain,      \* _chains, _pending: the saves that are not over, oldest first
    writing,    \* the save of a plugin under way: what it writes, how far it is
    clearing,   \* a clear has yet to remove the directory
    saves,      \* history: how many saves a plugin has made
    made,       \* history: the latest of them that this process made
    failed,     \* history: the latest save that failed or was cleared
    flushed     \* history: the latest save that a flush has waited for

storeVars == <<cached, file, chain, writing, clearing, saves, made, failed, flushed>>

Absent == -1
NotWriting == [phase |-> "none", data |-> Absent, dir |-> FALSE]

StoreTypeOK ==
    /\ {cached, file} \subseteq [Owner -> Nat \cup {Absent}]
    /\ \A o \in Owner : /\ chain[o] \in Seq(Nat)
                        /\ writing[o].phase \in {"none", "mkdir", "write", "rename"}
    /\ clearing \in [Owner -> BOOLEAN]
    /\ {saves, made, failed, flushed} \subseteq [Owner -> Nat]

NothingStored ==
    /\ cached = [o \in Owner |-> Absent] /\ file = [o \in Owner |-> Absent]
    /\ chain = [o \in Owner |-> <<>>]
    /\ writing = [o \in Owner |-> NotWriting]
    /\ clearing = [o \in Owner |-> FALSE]
    /\ saves = [o \in Owner |-> 0] /\ made = [o \in Owner |-> 0]
    /\ failed = [o \in Owner |-> 0] /\ flushed = [o \in Owner |-> 0]

\* The process ends: the files remain.
StoreDies ==
    /\ cached' = [o \in Owner |-> Absent]
    /\ chain' = [o \in Owner |-> <<>>]
    /\ writing' = [o \in Owner |-> NotWriting]
    /\ clearing' = [o \in Owner |-> FALSE]
    /\ made' = [o \in Owner |-> 0]
    /\ UNCHANGED <<file, saves, failed, flushed>>

-----------------------------------------------------------------------------
\* load: a context of the plugin is made.  What is in memory, or the file.
LoadState(ps) ==
    /\ cached' = [o \in Owner |->
           IF o \notin ps \/ cached[o] # Absent THEN cached[o]
           ELSE IF file[o] # Absent THEN file[o] ELSE 0]
    /\ UNCHANGED <<file, chain, writing, clearing, saves, made, failed, flushed>>

\* A mutant: a save counts as pending only when it is the only one.
SaveUnchained(o) ==
    /\ cached' = [cached EXCEPT ![o] = saves[o] + 1]
    /\ saves' = [saves EXCEPT ![o] = @ + 1] /\ made' = [made EXCEPT ![o] = saves'[o]]
    /\ chain' = IF chain[o] = <<>> THEN [chain EXCEPT ![o] = <<saves[o] + 1>>] ELSE chain
    /\ UNCHANGED <<file, writing, clearing, failed, flushed>>

\* save: the state in memory is the new one, and a save follows the others.
Save(o) ==
    /\ cached' = [cached EXCEPT ![o] = saves[o] + 1]
    /\ saves' = [saves EXCEPT ![o] = @ + 1] /\ made' = [made EXCEPT ![o] = saves'[o]]
    /\ chain' = [chain EXCEPT ![o] = Append(@, saves[o] + 1)]
    /\ UNCHANGED <<file, writing, clearing, failed, flushed>>

-----------------------------------------------------------------------------
(* _doSave *)

BeginSave(o) ==
    /\ chain[o] # <<>> /\ writing[o] = NotWriting
    /\ writing' = [writing EXCEPT ![o] =
                      [phase |-> "mkdir", data |-> cached[o], dir |-> FALSE]]
    /\ UNCHANGED <<cached, file, chain, clearing, saves, made, failed, flushed>>

MakeDir(o) ==
    /\ writing[o].phase = "mkdir"
    /\ writing' = [writing EXCEPT ![o].phase = "write", ![o].dir = TRUE]
    /\ UNCHANGED <<cached, file, chain, clearing, saves, made, failed, flushed>>

\* Nothing is written after a clear: the state in memory is undefined.
WriteTmp(o) ==
    /\ writing[o].phase = "write"
    /\ writing[o].dir /\ writing[o].data # Absent
    /\ writing' = [writing EXCEPT ![o].phase = "rename"]
    /\ UNCHANGED <<cached, file, chain, clearing, saves, made, failed, flushed>>

RenameTmp(o) ==
    /\ writing[o].phase = "rename"
    /\ writing[o].dir
    /\ file' = [file EXCEPT ![o] = writing[o].data]
    /\ writing' = [writing EXCEPT ![o] = NotWriting]
    /\ chain' = [chain EXCEPT ![o] = Tail(@)]
    /\ UNCHANGED <<cached, clearing, saves, made, failed, flushed>>

\* A step of a save fails, which is logged, and the next save goes on.
SaveFails(o) ==
    /\ writing[o].phase \in {"mkdir", "write", "rename"}
    /\ writing' = [writing EXCEPT ![o] = NotWriting]
    /\ failed' = [failed EXCEPT ![o] = IF Head(chain[o]) > @ THEN Head(chain[o]) ELSE @]
    /\ chain' = [chain EXCEPT ![o] = Tail(@)]
    /\ UNCHANGED <<cached, file, clearing, saves, made, flushed>>

\* Saves fail on their own, or since their directory or their state is gone.
MustFail(o) == /\ writing[o].phase \in {"write", "rename"}
               /\ ~writing[o].dir \/ writing[o].data = Absent

-----------------------------------------------------------------------------
\* clear: the state in memory goes at once, the directory later; the saves
\* that are pending go on.
Clear(o) ==
    /\ ~clearing[o]
    /\ cached' = [cached EXCEPT ![o] = Absent]
    /\ clearing' = [clearing EXCEPT ![o] = TRUE]
    /\ failed' = [failed EXCEPT ![o] = saves[o]]
    /\ UNCHANGED <<file, chain, writing, saves, made, flushed>>

RemoveDir(o) ==
    /\ clearing[o]
    /\ file' = [file EXCEPT ![o] = Absent]
    /\ writing' = [writing EXCEPT ![o].dir = FALSE]
    /\ clearing' = [clearing EXCEPT ![o] = FALSE]
    /\ failed' = [failed EXCEPT ![o] = saves[o]]
    /\ UNCHANGED <<cached, chain, saves, made, flushed>>

\* flush waits for the saves that were pending when it was called.
Flushed(upto) == \A o \in Owner : \A i \in DOMAIN chain[o] : chain[o][i] > upto[o]

FlushReturns(upto) ==
    /\ Flushed(upto)
    /\ flushed' = [o \in Owner |-> IF upto[o] > flushed[o] THEN upto[o] ELSE flushed[o]]
    /\ UNCHANGED <<cached, file, chain, writing, clearing, saves, made, failed>>

-----------------------------------------------------------------------------
\* After a flush the file has the state of every save made before it, or of a
\* later one, unless that save failed or was cleared; a crash, and the saves
\* that follow, never put an older state back (state-store.ts:48-65, 84).
FlushedIsOnDisk ==
    \A o \in Owner : \/ file[o] >= flushed[o]
                     \/ failed[o] >= flushed[o]
=============================================================================
