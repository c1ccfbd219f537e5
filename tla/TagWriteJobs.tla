---------------------------- MODULE TagWriteJobs ----------------------------
(***************************************************************************)
(* Writing tags into music files through a journal: the tag editor         *)
(* (tag_edit_write_pipeline.rs, tag_write_job/), the Library Doctor's      *)
(* applying and undoing (library_doctor/write.rs, cleanup.rs), and the     *)
(* recovery of what a crash cut short (write_slot.rs, write_recovery.rs,   *)
(* tag_write_job/recovery.rs), all in crates/reprise-core/src/library.     *)
(*                                                                         *)
(* A job has an entry for each tag of a file it is to change; a file's own *)
(* state follows from its entries and is not kept.  The advisory lock is   *)
(* held by whoever is anywhere but "idle" or "down".  `wrote` and          *)
(* `touched` are history.                                                  *)
(***************************************************************************)
EXTENDS Integers, FiniteSets

CONSTANTS
  Tag,         \* a pair: a file, by number, and a field of it
  Value,       \* what a field may hold
  Plan,        \* what may be asked for: tags, what they should hold and are to hold
  Scan,        \* scans of the Doctor
  App,         \* writers of the application, which also watch the slot
  Agent,       \* writers of the MCP server, which do not
  Locks,       \* whether the file system enforces advisory locks
  MaxJob, MaxMishaps, MaxEdits

ASSUME TagAssumption == Tag \subseteq Nat \X STRING
ASSUME PlanAssumption ==
  \A p \in Plan : p \in [tags : SUBSET Tag, from : Value, to : Value] /\ p.from # p.to
ASSUME ValueAssumption == Value # {}
ASSUME LocksAssumption == Locks \in BOOLEAN
ASSUME ScanAssumption == Scan \subseteq Nat
ASSUME TagBounds == MaxJob \in Nat /\ MaxMishaps \in Nat /\ MaxEdits \in Nat

VARIABLES
  jobs,        \* tag_write_jobs with their journal
  file,        \* what each tag holds
  health,      \* whether each file can be read
  runner,      \* what each writer is doing
  mishaps, edits,    \* how much has happened, for the bounds
  wrote,       \* tags each job put into a file
  touched      \* tags another hand changed since the job was prepared

history == <<wrote, touched>>
vars == <<jobs, file, health, runner, mishaps, edits, history>>

JobId == 1..MaxJob
Runner == App \cup Agent
Track == {g[1] : g \in Tag}
Of(t) == {g \in Tag : g[1] = t}

Uncertain == {"pending", "prepared"}
Outcome == Uncertain \cup
  {"applied", "not_applied", "conflict", "unavailable", "failed", "reverted"}
Entry == [from : Value, to : Value, outcome : Outcome \cup {"none"}]
Row == [kind : {"none", "tag_editor", "doctor_apply", "doctor_revert"},
        source : 0..MaxJob, scan : Scan \cup {0},
        state : {"none", "prepared", "running", "completed", "interrupted", "cancelled"},
        entry : [Tag -> Entry]]
Result == {"none", "applied", "conflict", "unavailable", "failed", "dropped"}
Stops == {"down", "idle", "undo", "insert", "run", "recover"}
Doing == [at : Stops, job : 0..MaxJob, draft : Row, got : [Tag -> Result],
          undo : [JobId -> SUBSET Tag], found : [JobId -> [Tag -> Outcome \cup {"none"}]]]

Blank == CHOOSE v \in Value : TRUE
NoEntry == [from |-> Blank, to |-> Blank, outcome |-> "none"]
NoRow == [kind |-> "none", source |-> 0, scan |-> 0, state |-> "none",
          entry |-> [g \in Tag |-> NoEntry]]
Nothing == [g \in Tag |-> "none"]
Doer(at) == [at |-> at, job |-> 0, draft |-> NoRow, got |-> Nothing,
             undo |-> [j \in JobId |-> {}], found |-> [j \in JobId |-> Nothing]]

TagInit ==
  /\ jobs = [j \in JobId |-> NoRow]
  /\ file = [g \in Tag |-> Blank]
  /\ health = [t \in Track |-> "ok"]
  /\ runner = [r \in Runner |-> Doer("idle")]
  /\ mishaps = 0 /\ edits = 0
  /\ wrote = [j \in JobId |-> {}] /\ touched = [j \in JobId |-> {}]

-----------------------------------------------------------------------------
(* Rows, entries and the lock.                                             *)

At(r, stop) == runner[r].at = stop
Quiet(r) == At(r, "idle") \/ At(r, "down")
LockFree == \A r \in Runner : Quiet(r)
MayWrite == ~Locks \/ LockFree

Active(j) == jobs[j].state \in {"prepared", "running"}
Occupied == \E j \in JobId : Active(j)
NoJob(j) == jobs[j].state = "none"
Room == \E j \in JobId : NoJob(j)
NextJob(j) == NoJob(j) /\ \A i \in 1..j - 1 : ~NoJob(i)

Has(j, outcomes) == {g \in Tag : jobs[j].entry[g].outcome \in outcomes}
Files(tags) == {g[1] : g \in tags}
First(tags) == CHOOSE t \in Files(tags) : \A u \in Files(tags) : t <= u

Mishap == mishaps < MaxMishaps /\ mishaps' = mishaps + 1
Edit == edits < MaxEdits /\ edits' = edits + 1

\* The row with each of its entries given the outcome `new` has for it, if any.
Settled(row, new) ==
  [row EXCEPT !.entry = [g \in Tag |-> [row.entry[g] EXCEPT !.outcome =
     IF new[g] = "none" THEN @ ELSE new[g]]]]
Marking(tags, outcome) == [g \in Tag |-> IF g \in tags THEN outcome ELSE "none"]

Job(r) == runner[r].job
Kind(r) == jobs[Job(r)].kind
Editing(r) == At(r, "run") /\ Kind(r) = "tag_editor"
Doctoring(r) == At(r, "run") /\ Kind(r) # "tag_editor"
Pending(r) == Has(Job(r), {"pending"})
Prepared(r) == Has(Job(r), {"prepared"})
Got(r, result) == {g \in Tag : runner[r].got[g] = result}

-----------------------------------------------------------------------------
(* Preparing a job: the lock is taken and the files are read, and then one *)
(* transaction claims the slot and inserts the rows.                       *)

AskEdit(r, plan) ==
  LET changed == {g \in plan.tags : health[g[1]] = "ok" /\ file[g] # plan.to}
  IN /\ At(r, "idle") /\ MayWrite /\ Room /\ r \in App
     /\ changed # {}
     /\ runner' = [runner EXCEPT ![r].at = "insert", ![r].draft =
          [NoRow EXCEPT !.kind = "tag_editor", !.state = "prepared",
             !.entry = [g \in Tag |-> IF g \in changed
                THEN [from |-> file[g], to |-> plan.to, outcome |-> "pending"] ELSE NoEntry]]]
     /\ UNCHANGED <<jobs, file, health, mishaps, edits, history>>

\* Mutant: an outcome the journal has no word for.
GuardedUnlisted(g, expected, proposed) ==
  [from |-> IF health[g[1]] = "ok" THEN file[g] ELSE expected, to |-> proposed,
   outcome |-> CASE health[g[1]] = "gone" -> "missing"
                 [] health[g[1]] = "bad" -> "failed"
                 [] OTHER -> IF file[g] = expected THEN "pending" ELSE "conflict"]
\* What the Doctor's journal says of a tag it means to change, before it does.
Guarded(g, expected, proposed) ==
  [from |-> IF health[g[1]] = "ok" THEN file[g] ELSE expected, to |-> proposed,
   outcome |-> CASE health[g[1]] = "gone" -> "unavailable"
                 [] health[g[1]] = "bad" -> "failed"
                 [] OTHER -> IF file[g] = expected THEN "pending" ELSE "conflict"]

AskApply(r, plan, scan) ==
  /\ At(r, "idle") /\ MayWrite /\ Room
  /\ runner' = [runner EXCEPT ![r].at = "insert", ![r].draft =
       [NoRow EXCEPT !.kind = "doctor_apply", !.scan = scan, !.state = "prepared",
          !.entry = [g \in Tag |-> IF g \in plan.tags
             THEN Guarded(g, plan.from, plan.to) ELSE NoEntry]]]
  /\ UNCHANGED <<jobs, file, health, mishaps, edits, history>>

\* What the last cleanup left to undo: the ended jobs of the latest scan that
\* have applied something and have nothing uncertain.
Eligible(j) ==
  /\ jobs[j].kind = "doctor_apply" /\ ~Active(j)
  /\ Has(j, {"applied"}) # {} /\ Has(j, Uncertain) = {}
LastCleanup ==
  {j \in JobId : Eligible(j) /\ \A i \in JobId : Eligible(i) => jobs[i].scan <= jobs[j].scan}

AskUndo(r) ==
  /\ At(r, "idle") /\ MayWrite /\ Room
  /\ LastCleanup # {}
  /\ runner' = [runner EXCEPT ![r].at = "undo", ![r].undo =
       [j \in JobId |-> IF j \in LastCleanup THEN Has(j, {"applied"}) ELSE {}]]
  /\ UNCHANGED <<jobs, file, health, mishaps, edits, history>>

\* The jobs of a cleanup are undone from the last to the first.
DraftUndo(r, j) ==
  /\ At(r, "undo")
  /\ runner[r].undo[j] # {} /\ \A i \in j + 1..MaxJob : runner[r].undo[i] = {}
  /\ runner' = [runner EXCEPT ![r].at = "insert", ![r].undo[j] = {}, ![r].draft =
       [NoRow EXCEPT !.kind = "doctor_revert", !.source = j, !.scan = jobs[j].scan,
          !.state = "prepared", !.entry = [g \in Tag |-> IF g \in runner[r].undo[j]
             THEN Guarded(g, jobs[j].entry[g].to, jobs[j].entry[g].from) ELSE NoEntry]]]
  /\ UNCHANGED <<jobs, file, health, mishaps, edits, history>>

SlotFree == ~Occupied

Insert(r, j) ==
  /\ At(r, "insert")
  /\ SlotFree /\ NextJob(j)
  /\ jobs' = [jobs EXCEPT ![j] = runner[r].draft]
  /\ runner' = [runner EXCEPT ![r].at = "run", ![r].job = j, ![r].draft = NoRow]
  /\ touched' = [touched EXCEPT ![j] =
       {g \in Tag : file[g] # runner[r].draft.entry[g].from}]
  /\ UNCHANGED <<file, health, mishaps, edits, wrote>>

InsertBusy(r) ==
  /\ At(r, "insert") /\ ~SlotFree
  /\ runner' = [runner EXCEPT ![r] = Doer("idle")]
  /\ UNCHANGED <<jobs, file, health, mishaps, edits, history>>

-----------------------------------------------------------------------------
(* Running a job.  The editor claims all its files, writes those it has    *)
(* claimed in any order, then records what came of each and ends the job.  *)
(* The Doctor claims, writes and records one file after another, and gives *)
(* up where the database fails it.  Either frees the lock when it is done. *)

Unclaimed(r) == Pending(r) \ Got(r, "dropped")
Unwritten(r) == Prepared(r) \cap Got(r, "none")
Unrecorded(r) == Prepared(r) \ (Got(r, "none") \cup Got(r, "dropped"))

ClaimFile(r) ==
  /\ At(r, "run") /\ Unclaimed(r) # {}
  /\ Editing(r) \/ Prepared(r) = {}
  /\ LET tags == Pending(r) \cap Of(First(Unclaimed(r))) IN
       jobs' = [jobs EXCEPT ![Job(r)] =
         [Settled(@, Marking(tags, "prepared")) EXCEPT !.state = "running"]]
  /\ UNCHANGED <<file, health, runner, mishaps, edits, history>>

\* The tags of a file that still hold what the job found.  The editor writes
\* all it was asked to or nothing, the Doctor whatever still matches.
Fitting(r, tags) == {g \in tags : file[g] = jobs[Job(r)].entry[g].from}
Puts(r, tags) ==
  LET fit == Fitting(r, tags)
  IN IF Editing(r) /\ fit # tags THEN {} ELSE fit

Ended(r, tags, end) ==
  runner' = [runner EXCEPT ![r].got =
    [g \in Tag |-> IF g \in tags THEN end[g] ELSE runner[r].got[g]]]

Touch(tags, j) ==
  touched' = [i \in JobId |-> IF i = j \/ NoJob(i) THEN touched[i] ELSE touched[i] \cup tags]

WriteFile(r, t) ==
  LET tags == Unwritten(r) \cap Of(t)
      put == Puts(r, tags)
  IN /\ At(r, "run") /\ tags # {}
     /\ Editing(r) => Unclaimed(r) = {}
     /\ health[t] = "ok"
     /\ file' = [g \in Tag |-> IF g \in put THEN jobs[Job(r)].entry[g].to ELSE file[g]]
     /\ Ended(r, tags, [g \in Tag |-> IF g \in put THEN "applied"
                                      ELSE IF Editing(r) THEN "failed" ELSE "conflict"])
     /\ wrote' = [wrote EXCEPT ![Job(r)] = @ \cup put]
     /\ Touch(put, Job(r))
     /\ UNCHANGED <<jobs, health, mishaps, edits>>

\* The file is not there or cannot be read, or saving it fails before it changes.
\* A failed repair and a writer that panics, which the code records as applied
\* whatever they did to the file, are left out.
WriteFails(r, t) ==
  LET tags == Unwritten(r) \cap Of(t)
  IN /\ At(r, "run") /\ tags # {}
     /\ Editing(r) => Unclaimed(r) = {}
     /\ IF health[t] = "ok" THEN Mishap ELSE UNCHANGED mishaps
     /\ Ended(r, tags, [g \in Tag |->
          IF Doctoring(r) /\ health[t] = "gone" THEN "unavailable" ELSE "failed"])
     /\ UNCHANGED <<jobs, file, health, edits, history>>

\* An undo that is recorded takes the entry it undoes with it, in the same
\* transaction, and is refused where that entry is not applied any more.
\* Mutant: what was undone stays applied.
UndoneStays(rows, j, new) == rows
Undone(rows, j, new) ==
  IF rows[j].kind # "doctor_revert" THEN rows
  ELSE [rows EXCEPT ![rows[j].source] =
         Settled(@, Marking({g \in Tag : new[g] = "applied"}, "reverted"))]
Undoable(j, new) ==
  jobs[j].kind = "doctor_revert" =>
    {g \in Tag : new[g] = "applied"} \subseteq Has(jobs[j].source, {"applied"})

Recorded(r) ==
  LET tags == Unrecorded(r) \cap Of(First(Unrecorded(r)))
  IN [g \in Tag |-> IF g \in tags THEN runner[r].got[g] ELSE "none"]

SettleFile(r) ==
  /\ At(r, "run") /\ Unwritten(r) = {} /\ Unrecorded(r) # {}
  /\ Undoable(Job(r), Recorded(r))
  /\ jobs' = [Undone(jobs, Job(r), Recorded(r)) EXCEPT ![Job(r)] = Settled(@, Recorded(r))]
  /\ UNCHANGED <<file, health, runner, mishaps, edits, history>>

SettleRefused(r) ==
  /\ At(r, "run") /\ Unwritten(r) = {} /\ Unrecorded(r) # {}
  /\ ~Undoable(Job(r), Recorded(r))
  /\ runner' = [runner EXCEPT ![r] = Doer("idle")]
  /\ UNCHANGED <<jobs, file, health, mishaps, edits, history>>

\* An undo goes on to the next job of the cleanup with the lock it has.
Onward(r) ==
  IF \E j \in JobId : runner[r].undo[j] # {}
  THEN [Doer("undo") EXCEPT !.undo = runner[r].undo] ELSE Doer("idle")

Through(r) == At(r, "run") /\ Has(Job(r), Uncertain) \subseteq Got(r, "dropped")

FinishJob(r) ==
  /\ Through(r)
  /\ jobs' = [jobs EXCEPT ![Job(r)].state =
       IF Has(Job(r), Uncertain) = {} THEN "completed" ELSE "interrupted"]
  /\ runner' = [runner EXCEPT ![r] = Onward(r)]
  /\ UNCHANGED <<file, health, mishaps, edits, history>>

\* The user cancels between two files.
Cancel(r) ==
  /\ Doctoring(r) /\ Prepared(r) = {} /\ Pending(r) # {}
  /\ jobs' = [jobs EXCEPT ![Job(r)] =
       [Settled(@, Marking(Pending(r), "not_applied")) EXCEPT !.state = "cancelled"]]
  /\ runner' = [runner EXCEPT ![r] = Doer("idle")]
  /\ UNCHANGED <<file, health, mishaps, edits, history>>

-----------------------------------------------------------------------------
(* What goes wrong, and what others do to the files.                       *)

\* A transaction of the editor fails: that file is left as it stands in the
\* journal, and the editor goes on.
EditDrops(r) ==
  LET due == IF Unclaimed(r) # {} THEN Unclaimed(r) ELSE Unrecorded(r)
      tags == due \cap Of(First(due))
  IN /\ Editing(r) /\ due # {}
     /\ Unclaimed(r) = {} => Unwritten(r) = {}
     /\ Mishap
     /\ Ended(r, tags, [g \in Tag |-> "dropped"])
     /\ UNCHANGED <<jobs, file, health, edits, history>>

\* A transaction of the Doctor fails, or the one that ends a job.
GiveUp(r) ==
  /\ (Doctoring(r) /\ Unwritten(r) = {}) \/ Through(r)
  /\ Mishap
  /\ runner' = [runner EXCEPT ![r] = Doer("idle")]
  /\ UNCHANGED <<jobs, file, health, edits, history>>

Crash(r) ==
  /\ ~At(r, "down")
  /\ Mishap
  /\ runner' = [runner EXCEPT ![r] = Doer("down")]
  /\ UNCHANGED <<jobs, file, health, edits, history>>

EditElsewhere(g, v) ==
  /\ health[g[1]] = "ok" /\ file[g] # v
  /\ Edit
  /\ file' = [file EXCEPT ![g] = v]
  /\ Touch({g}, 0)
  /\ UNCHANGED <<jobs, health, runner, mishaps, wrote>>

Trouble(t, h) ==
  /\ health[t] # h
  /\ Edit
  /\ health' = [health EXCEPT ![t] = h]
  /\ Touch(Of(t), 0)
  /\ UNCHANGED <<jobs, file, runner, mishaps, wrote>>

-----------------------------------------------------------------------------
(* Recovery: what became of an uncertain entry is read off the file, and   *)
(* only the journal is changed.  It needs a lock that is really held.      *)

\* Mutant: recovery runs where locks are not enforced.
MayRecoverAnyway == MayWrite
MayRecover == Locks /\ LockFree

\* Mutant: what was claimed is taken for not written.
ReadUnwritten(j, g) == IF health[g[1]] = "gone" THEN "unavailable" ELSE "not_applied"
Read(j, g) ==
  LET e == jobs[j].entry[g]
  IN IF Of(g[1]) \cap Has(j, {"prepared"}) = {} THEN "not_applied"
     ELSE CASE health[g[1]] = "gone" -> "unavailable"
            [] health[g[1]] = "bad" -> "failed"
            [] OTHER -> IF file[g] = e.to THEN "applied"
                        ELSE IF file[g] = e.from THEN "not_applied" ELSE "conflict"

\* Mutant: a job that claimed no file is passed over.
OpenToRecoveryClaimed(j) == jobs[j].state \in {"running", "interrupted"}
OpenToRecovery(j) == jobs[j].state \in {"prepared", "running", "interrupted"}

Found == [j \in JobId |-> [g \in Tag |->
  IF OpenToRecovery(j) /\ g \in Has(j, Uncertain)
  THEN Read(j, g) ELSE "none"]]

Recovering == [Doer("recover") EXCEPT !.found = Found]

\* A process that starts recovers what it finds, if it gets the lock.
Restart(r) ==
  /\ At(r, "down")
  /\ runner' = [runner EXCEPT ![r] = IF MayRecover THEN Recovering ELSE Doer("idle")]
  /\ UNCHANGED <<jobs, file, health, mishaps, edits, history>>

\* The application looks at the slot, and finds it taken and nobody alive.
Watch(r) ==
  /\ r \in App /\ At(r, "idle")
  /\ Occupied /\ MayRecover
  /\ runner' = [runner EXCEPT ![r] = Recovering]
  /\ UNCHANGED <<jobs, file, health, mishaps, edits, history>>

Claimed(j) == jobs[j].state # "prepared" \/ Has(j, {"prepared"}) # {}

RecoverJob(r, j) ==
  LET new == runner[r].found[j]
  IN /\ At(r, "recover")
     /\ new # Nothing /\ \A i \in 1..j - 1 : runner[r].found[i] = Nothing
     /\ IF Undoable(j, new)
        THEN /\ jobs' = [Undone(jobs, j, new) EXCEPT ![j] =
                  [Settled(@, new) EXCEPT !.state =
                     IF Claimed(j) THEN "interrupted" ELSE "cancelled"]]
             /\ runner' = [runner EXCEPT ![r].found[j] = Nothing]
        ELSE /\ runner' = [runner EXCEPT ![r] = Doer("idle")]
             /\ UNCHANGED jobs
     /\ UNCHANGED <<file, health, mishaps, edits, history>>

RecoveryEnds(r) ==
  /\ At(r, "recover") /\ \A j \in JobId : runner[r].found[j] = Nothing
  /\ runner' = [runner EXCEPT ![r] = Doer("idle")]
  /\ UNCHANGED <<jobs, file, health, mishaps, edits, history>>

-----------------------------------------------------------------------------

Step(r) ==
  \/ \E j \in JobId : DraftUndo(r, j) \/ Insert(r, j) \/ RecoverJob(r, j)
  \/ \E t \in Track : WriteFile(r, t) \/ WriteFails(r, t)
  \/ InsertBusy(r) \/ ClaimFile(r) \/ SettleFile(r) \/ SettleRefused(r)
  \/ FinishJob(r) \/ RecoveryEnds(r)

TagNext ==
  \/ \E r \in Runner :
       \/ \E p \in Plan : AskEdit(r, p) \/ \E s \in Scan : AskApply(r, p, s)
       \/ AskUndo(r) \/ Step(r) \/ Cancel(r)
       \/ EditDrops(r) \/ GiveUp(r) \/ Crash(r) \/ Restart(r) \/ Watch(r)
  \/ \E g \in Tag, v \in Value : EditElsewhere(g, v)
  \/ \E t \in Track, h \in {"ok", "gone", "bad"} : Trouble(t, h)

TagSpec == TagInit /\ [][TagNext]_vars

\* A process that runs keeps running, one that died is started again, and the
\* application, which looks every second, gets to see a lock that is free again
\* and again.
FairTagSpec ==
  /\ TagSpec
  /\ \A r \in Runner : WF_vars(Step(r) \/ Restart(r))
  /\ \A r \in App : SF_vars(Watch(r))

-----------------------------------------------------------------------------

\* Types, and the bounds on how much happens.
TagTypeOK ==
  /\ jobs \in [JobId -> Row]
  /\ file \in [Tag -> Value] /\ health \in [Track -> {"ok", "gone", "bad"}]
  /\ runner \in [Runner -> Doing]
  /\ mishaps \in 0..MaxMishaps /\ edits \in 0..MaxEdits
  /\ wrote \in [JobId -> SUBSET Tag] /\ touched \in [JobId -> SUBSET Tag]

\* Whatever was cut short, in which order, and whoever settled it: an entry of
\* the journal that is settled says that its job changed the tag exactly where
\* the job did, unless somebody else has had that file in hand since.  It is
\* what an undo goes by.
WritesRecorded ==
  \A j \in JobId : \A g \in Has(j, Outcome \ Uncertain) \ touched[j] :
    g \in Has(j, {"applied", "reverted"}) <=> g \in wrote[j]

\* A change is marked undone exactly where one undo of it, and no second one,
\* is recorded as applied: by the run that undid it or by the recovery of a run
\* that died, and also where two undos were asked for at once.
Undoes(k, j, g) ==
  jobs[k].kind = "doctor_revert" /\ jobs[k].source = j /\ g \in Has(k, {"applied"})
UndoneOnce ==
  \A j \in JobId, g \in Tag :
    /\ \A k, l \in JobId : Undoes(k, j, g) /\ Undoes(l, j, g) => k = l
    /\ (\E k \in JobId : Undoes(k, j, g)) <=> g \in Has(j, {"reverted"})

\* Whoever is running a job has the slot: its job has not been ended under it,
\* by a recovery or by another writer, no other job is under way, and nobody
\* else is running one.  The rows alone have to see to it where locks do not.
SlotHeld ==
  \A r \in Runner : At(r, "run") =>
    /\ Active(Job(r))
    /\ \A j \in JobId \ {Job(r)} : ~Active(j)
    /\ \A q \in Runner \ {r} : ~At(q, "run")

\* A job that has the slot and something uncertain in its journal does not stay
\* so: it is carried through, or recovered once its runner is gone.
Unsettled == Locks /\ \E j \in JobId : Active(j) /\ Has(j, Uncertain) # {}
UncertainSettles == Unsettled ~> ~Unsettled

\* A recovery that has come to its end leaves the slot free, as
\* library_doctor/tag_write_slot_tests.rs expects of an orphaned job.
OrphansFree ==
  [][\A r \in Runner : At(r, "recover") /\ runner'[r].at = "idle" =>
       ~(\E j \in JobId : Active(j))']_vars

=============================================================================
