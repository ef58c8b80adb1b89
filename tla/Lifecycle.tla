----------------------------- MODULE Lifecycle -----------------------------
(***************************************************************************)
(* LifecycleManager (src/src/lifecycle/index.ts) over the records of       *)
(* InstalledStateManager (src/src/installed-state/index.ts) and the        *)
(* verdicts of ReconciliationEngine (src/src/reconciliation/index.ts).     *)
(*                                                                         *)
(* installed.json is read, changed and replaced as a whole.  A lock makes  *)
(* the replacements wait for one another, not the reads before them: a     *)
(* replacement is computed when it joins the line.                         *)
(***************************************************************************)
EXTENDS Naturals, Sequences, FiniteSets, Functions

Lists == INSTANCE SequencesExt

CONSTANTS
    Resource, File,
    Worker,        \* workers of a batch; a single call is a batch of one
    Requires,      \* Requires[r]: what the manifest of r requires
    Batches,       \* what the client calls: sequences of operations
    MaxCalls,      \* bound on the client's calls
    MaxFaults      \* bound on crashes, failed writes and edits of the user

VARIABLES
    installed,     \* installed.json: id -> [state, needs]
    writes,        \* replacements in line for the lock
    files,         \* files[r][f]: its content, as reconciliation sees it
    locked,        \* lockfile: id -> its entry agrees with the record
    queue,         \* the rest of the batch
    op, pc,        \* per worker
    calls, faults,
    deleted,       \* history: emptied by a removal, nothing said since
    overlapped     \* history: two operations have been under way at once

lifecycleVars == <<installed, writes, files, locked, queue, op, pc, calls,
                   faults, deleted, overlapped>>

Operation(kind, id) ==
    [kind |-> kind, id |-> id, force |-> FALSE, policy |-> "preserve"]

NoOperation == Operation("none", "none")

LifecycleInit ==
    /\ installed = [r \in {} |-> r]
    /\ writes = << >>
    /\ files = [r \in Resource |-> [f \in File |-> "absent"]]
    /\ locked = [r \in {} |-> TRUE]
    /\ queue = << >>
    /\ op = [w \in Worker |-> NoOperation]
    /\ pc = [w \in Worker |-> "idle"]
    /\ calls = 0
    /\ faults = 0
    /\ deleted = {}
    /\ overlapped = FALSE

-----------------------------------------------------------------------------
(* Reconciliation: what the files of a record are found to be. *)

With(r, content) == {f \in File : files[r][f] = content}

\* "recorded" is the content that managed.sha names, "expected" that of
\* managed.expectedSha.
Action(r) ==
    CASE With(r, "other") # {} -> "repair"
      [] With(r, "absent") = File -> "reinstall"
      [] With(r, "absent") # {} -> "repair"
      [] With(r, "recorded") # {} -> "manual-review"
      [] r \in DOMAIN locked /\ ~locked[r] -> "update"
      [] OTHER -> "noop"

Dependents(r) == {o \in DOMAIN installed \ {r} : r \in installed[o].needs}

-----------------------------------------------------------------------------
(* Where a worker goes when its write lands, or fails. *)

Lands(p) ==
    CASE p = "marking updating" -> "reconcile"
      [] p = "marking removing" -> "delete"
      [] p = "storing files" -> "settle"
      [] OTHER -> "idle"

Throws(p) ==
    IF p \in {"storing files", "settling", "dropping"} THEN "handle" ELSE "idle"

Goto(w, p) ==
    /\ pc' = [pc EXCEPT ![w] = p]
    /\ op' = IF p = "idle" THEN [op EXCEPT ![w] = NoOperation] ELSE op

\* Replace the file by content that was computed from what is there now.
Replace(w, p, content, says) ==
    /\ writes' = Append(writes, [by |-> w, content |-> content, says |-> says])
    /\ Goto(w, p)

\* updateResourceState: nothing is written of an id without a record.
SetState(w, p, state, says) ==
    LET r == op[w].id
    IN  IF r \in DOMAIN installed
        THEN Replace(w, p, [installed EXCEPT ![r].state = state], says)
        ELSE Goto(w, Lands(p)) /\ UNCHANGED writes

Land ==
    /\ writes # << >>
    /\ LET w == Head(writes)
       IN  /\ installed' = w.content
           /\ deleted' = IF w.says THEN deleted \ {op[w.by].id} ELSE deleted
           /\ Goto(w.by, Lands(pc[w.by]))
    /\ writes' = Tail(writes)
    /\ UNCHANGED <<files, locked, queue, calls, faults, overlapped>>

LandFails ==
    /\ writes # << >>
    /\ faults < MaxFaults
    /\ faults' = faults + 1
    /\ Goto(Head(writes).by, Throws(pc[Head(writes).by]))
    /\ writes' = Tail(writes)
    /\ UNCHANGED <<installed, files, locked, queue, calls, deleted, overlapped>>

-----------------------------------------------------------------------------
(* The client, the user and the process. *)

Idle == queue = << >> /\ \A w \in Worker : pc[w] = "idle"

Call(batch) ==
    /\ Idle
    /\ calls < MaxCalls
    /\ calls' = calls + 1
    /\ queue' = batch
    /\ UNCHANGED <<installed, writes, files, locked, op, pc, faults, deleted, overlapped>>

\* repairAll and updateAll list the records first.
CallAll(kind) ==
    /\ Idle
    /\ calls < MaxCalls
    /\ calls' = calls + 1
    /\ queue' = Lists!SetToSeq({Operation(kind, r) : r \in
                    {r \in DOMAIN installed : kind = "repair" => Action(r) = "repair"}})
    /\ UNCHANGED <<installed, writes, files, locked, op, pc, faults, deleted, overlapped>>

\* Workers are interchangeable: the first that is idle.
Take(w) ==
    /\ pc[w] = "idle"
    /\ w = CHOOSE o \in Worker : pc[o] = "idle"
    /\ queue # << >>
    /\ op' = [op EXCEPT ![w] = Head(queue)]
    /\ queue' = Tail(queue)
    /\ pc' = [pc EXCEPT ![w] = "start"]
    /\ overlapped' = (overlapped \/ \E o \in Worker \ {w} : pc[o] # "idle")
    /\ UNCHANGED <<installed, writes, files, locked, calls, faults, deleted>>

\* A user edits or deletes a file of a resource.
Edit(r, f, content) ==
    /\ faults < MaxFaults
    /\ files[r][f] \notin {"absent", content}
    /\ faults' = faults + 1
    /\ files' = [files EXCEPT ![r][f] = content]
    /\ UNCHANGED <<installed, writes, locked, queue, op, pc, calls, deleted, overlapped>>

Crash ==
    /\ ~Idle
    /\ faults < MaxFaults
    /\ faults' = faults + 1
    /\ pc' = [w \in Worker |-> "idle"]
    /\ op' = [w \in Worker |-> NoOperation]
    /\ queue' = << >>
    /\ writes' = << >>
    /\ UNCHANGED <<installed, files, locked, calls, deleted, overlapped>>

-----------------------------------------------------------------------------
(* The operations.  Begins(w, kind) is the first read of each. *)

Begins(w, kind) == pc[w] = "start" /\ op[w].kind = kind

Unchanging == UNCHANGED <<installed, queue, calls, faults, overlapped>>

\* Mutant of Updatable: a removal that never ended does not stop an update.
UpdatableRemoving(r) == r \in DOMAIN installed /\ installed[r].state # "updating"

Updatable(r) == r \in DOMAIN installed /\ installed[r].state \notin {"updating", "removing"}

Update(w) ==
    /\ Begins(w, "update")
    /\ Goto(w, IF Updatable(op[w].id) THEN "mark" ELSE "idle")
    /\ UNCHANGED <<writes, files, locked, deleted>> /\ Unchanging

MarkUpdating(w) ==
    /\ pc[w] = "mark" /\ op[w].kind = "update"
    /\ SetState(w, "marking updating", "updating", FALSE)
    /\ UNCHANGED <<files, locked, deleted>> /\ Unchanging

\* Whatever reconciliation finds, the update is over; it may throw.
Reconcile(w) ==
    /\ pc[w] = "reconcile"
    /\ \E p \in {"settle", "handle"} : Goto(w, p)
    /\ UNCHANGED <<writes, files, locked, deleted>> /\ Unchanging

Settle(w) ==
    /\ pc[w] = "settle"
    /\ SetState(w, "settling", "installed", op[w].kind = "repair")
    /\ UNCHANGED <<files, locked, deleted>> /\ Unchanging

\* The catch clauses: a removal that failed leaves the record installed.
Handle(w) ==
    /\ pc[w] = "handle"
    /\ IF op[w].kind \in {"update", "repair"}
       THEN SetState(w, "handling", "failed", TRUE)
       ELSE SetState(w, "handling", "installed", TRUE)
    /\ UNCHANGED <<files, locked, deleted>> /\ Unchanging

\* repair changes records only: a file that is gone is called matching.
Repair(w) ==
    /\ Begins(w, "repair")
    /\ LET r == op[w].id
       IN  Goto(w, IF \/ r \notin DOMAIN installed
                      \/ Action(r) = "noop"
                      \/ With(r, "recorded") # {} /\ op[w].policy = "fail"
                   THEN "idle" ELSE "store")
    /\ UNCHANGED <<writes, files, locked, deleted>> /\ Unchanging

StoreFiles(w) ==
    /\ pc[w] = "store"
    /\ IF op[w].id \in DOMAIN installed
       THEN Replace(w, "storing files", installed, FALSE)
       ELSE Goto(w, "settle") /\ UNCHANGED writes
    /\ UNCHANGED <<files, locked, deleted>> /\ Unchanging

\* reinstall is a forced removal.
Remove(w) ==
    /\ pc[w] = "start" /\ op[w].kind \in {"remove", "reinstall"}
    /\ LET r == op[w].id
           forced == op[w].force \/ op[w].kind = "reinstall"
       IN  Goto(w, IF r \in DOMAIN installed /\ (forced \/ Dependents(r) = {})
                   THEN "mark" ELSE "idle")
    /\ UNCHANGED <<writes, files, locked, deleted>> /\ Unchanging

MarkRemoving(w) ==
    /\ pc[w] = "mark" /\ op[w].kind \in {"remove", "reinstall"}
    /\ SetState(w, "marking removing", "removing", FALSE)
    /\ UNCHANGED <<files, locked, deleted>> /\ Unchanging

\* rm may fail half way: a warning.
DeleteDirectory(w) ==
    /\ pc[w] = "delete"
    /\ LET r == op[w].id
       IN  /\ \E left \in SUBSET File :
                 files' = [files EXCEPT ![r] =
                     [f \in File |-> IF f \in left THEN files[r][f] ELSE "absent"]]
           /\ deleted' = IF files' # files THEN deleted \cup {r} ELSE deleted
    /\ Goto(w, "unlock")
    /\ UNCHANGED <<writes, locked>> /\ Unchanging

\* Errors of the lockfile are ignored, and so are those of the database.
RemoveEntry(w) ==
    /\ pc[w] = "unlock"
    /\ \/ locked' = Restrict(locked, DOMAIN locked \ {op[w].id})
       \/ UNCHANGED locked
    /\ Goto(w, "drop")
    /\ UNCHANGED <<writes, files, deleted>> /\ Unchanging

RemoveResource(w) ==
    /\ pc[w] = "drop"
    /\ IF op[w].id \in DOMAIN installed
       THEN Replace(w, "dropping", Restrict(installed, DOMAIN installed \ {op[w].id}), FALSE)
       ELSE Goto(w, "idle") /\ UNCHANGED writes
    /\ UNCHANGED <<files, locked, deleted>> /\ Unchanging

\* A client puts a resource in place, with its lockfile entry ...
Place(w) ==
    /\ Begins(w, "add")
    /\ files' = [files EXCEPT ![op[w].id] = [f \in File |-> "expected"]]
    /\ \E same \in BOOLEAN :
          locked' = [r \in DOMAIN locked \cup {op[w].id} |->
                        IF r = op[w].id THEN same ELSE locked[r]]
    /\ deleted' = deleted \ {op[w].id}
    /\ Goto(w, "record")
    /\ UNCHANGED writes /\ Unchanging

WithRecord(r, state, needs) ==
    [o \in DOMAIN installed \cup {r} |->
        IF o = r THEN [state |-> state, needs |-> needs] ELSE installed[o]]

\* ... and records it; an optional dependency is none that it needs.
AddResource(w) ==
    /\ pc[w] = "record"
    /\ \E needs \in SUBSET Requires[op[w].id] :
          Replace(w, "adding", WithRecord(op[w].id, "installed", needs), FALSE)
    /\ UNCHANGED <<files, locked, deleted>> /\ Unchanging

\* rebuildFromLockfile, for one entry.
Rebuild(w) ==
    /\ Begins(w, "rebuild")
    /\ LET r == op[w].id
       IN  IF r \in DOMAIN installed \/ r \notin DOMAIN locked
           THEN Goto(w, "idle") /\ UNCHANGED writes
           ELSE Replace(w, "adding",
                    WithRecord(r, IF With(r, "absent") = File THEN "missing" ELSE "installed",
                               Requires[r]), TRUE)
    /\ UNCHANGED <<files, locked, deleted>> /\ Unchanging

LifecycleNext ==
    \/ Land \/ LandFails \/ Crash
    \/ \E batch \in Batches : Call(batch)
    \/ \E kind \in {"update", "repair"} : CallAll(kind)
    \/ \E r \in Resource, f \in File, c \in {"recorded", "other", "absent"} : Edit(r, f, c)
    \/ \E w \in Worker :
        \/ Take(w)
        \/ Update(w) \/ MarkUpdating(w) \/ Reconcile(w) \/ Settle(w) \/ Handle(w)
        \/ Repair(w) \/ StoreFiles(w)
        \/ Remove(w) \/ MarkRemoving(w) \/ DeleteDirectory(w)
        \/ RemoveEntry(w) \/ RemoveResource(w)
        \/ Place(w) \/ AddResource(w) \/ Rebuild(w)

-----------------------------------------------------------------------------
(* While a record is there whose files a removal has deleted, and nothing   *)
(* has been said of it since (by a repair, a rebuild or the handler of a    *)
(* failed removal), the record says that it is being removed: after a       *)
(* crash the next run can tell an interrupted removal from an installed     *)
(* resource, and an update does not bless it.  Batches excepted: their      *)
(* workers overwrite one another's marks.                                   *)
RemovalIsAnnounced ==
    \/ overlapped
    \/ \A r \in deleted \cap DOMAIN installed : installed[r].state = "removing"
=============================================================================
