------------------------ MODULE TagWriteJobsProofs ------------------------
(***************************************************************************)
(* Proofs about TagWriteJobs for any number of files, fields, values,      *)
(* scans, writers and jobs, with locks that are enforced or not.           *)
(***************************************************************************)
EXTENDS TagWriteJobs, TLAPS

\* The type invariant in three parts.
RowsOK == jobs \in [JobId -> Row]
RunnersOK ==
  /\ runner \in [Runner -> Doing]
  /\ \A r \in Runner : At(r, "run") => Job(r) \in JobId
FilesOK ==
  /\ file \in [Tag -> Value] /\ health \in [Track -> {"ok", "gone", "bad"}]
  /\ mishaps \in 0..MaxMishaps /\ edits \in 0..MaxEdits
  /\ wrote \in [JobId -> SUBSET Tag] /\ touched \in [JobId -> SUBSET Tag]
Types == RowsOK /\ RunnersOK /\ FilesOK

-----------------------------------------------------------------------------
(* What rows, runners and entries are made of.                             *)

Marks == [Tag -> Outcome \cup {"none"}]

LEMMA Blanks == Blank \in Value
  BY ValueAssumption DEF Blank

LEMMA NoRows == NoRow \in Row /\ NoRow.state = "none" /\ NoRow.kind = "none"
                /\ \A g \in Tag : NoRow.entry[g].outcome = "none"
  BY Blanks, TagBounds DEF NoRow, Row, NoEntry, Entry

LEMMA Nothings == Nothing \in Marks /\ \A g \in Tag : Nothing[g] = "none"
  BY DEF Nothing, Marks

LEMMA Doers ==
  ASSUME NEW at \in Stops
  PROVE  /\ Doer(at) \in Doing /\ Doer(at).at = at
         /\ Doer(at).got = Nothing
         /\ \A j \in JobId : Doer(at).undo[j] = {} /\ Doer(at).found[j] = Nothing
<1>1. Nothing \in [Tag -> Result] /\ Nothing \in [Tag -> Outcome \cup {"none"}]
  BY DEF Nothing, Result
<1> QED
  BY <1>1, NoRows, TagBounds DEF Doer, Doing

LEMMA Settling ==
  ASSUME NEW row \in Row, NEW new \in Marks
  PROVE  /\ Settled(row, new) \in Row
         /\ Settled(row, new).kind = row.kind /\ Settled(row, new).source = row.source
         /\ Settled(row, new).scan = row.scan /\ Settled(row, new).state = row.state
         /\ \A g \in Tag :
              /\ Settled(row, new).entry[g].from = row.entry[g].from
              /\ Settled(row, new).entry[g].to = row.entry[g].to
              /\ Settled(row, new).entry[g].outcome =
                   IF new[g] = "none" THEN row.entry[g].outcome ELSE new[g]
<1> DEFINE e == [g \in Tag |-> [row.entry[g] EXCEPT !.outcome =
                   IF new[g] = "none" THEN @ ELSE new[g]]]
<1>1. e \in [Tag -> Entry]
  BY DEF Row, Entry, Marks, Outcome
<1>2. Settled(row, new) = [row EXCEPT !.entry = e]
  BY DEF Settled
<1>3. ASSUME NEW g \in Tag
      PROVE  /\ e[g].from = row.entry[g].from /\ e[g].to = row.entry[g].to
             /\ e[g].outcome = IF new[g] = "none" THEN row.entry[g].outcome ELSE new[g]
  BY DEF Row, Entry
<1> HIDE DEF e
<1>4. [row EXCEPT !.entry = e] \in Row
  BY <1>1 DEF Row
<1> QED
  BY <1>1, <1>2, <1>3, <1>4 DEF Row

LEMMA Markings ==
  ASSUME NEW tags, NEW o \in Outcome
  PROVE  Marking(tags, o) \in Marks
  BY DEF Marking, Marks

\* A row whose state is changed.
States == {"none", "prepared", "running", "completed", "interrupted", "cancelled"}
Turned(row, s) == [row EXCEPT !.state = s]

LEMMA Staying ==
  ASSUME NEW row \in Row, NEW s \in States
  PROVE  /\ Turned(row, s) \in Row /\ Turned(row, s).state = s
         /\ Turned(row, s).kind = row.kind /\ Turned(row, s).source = row.source
         /\ Turned(row, s).scan = row.scan /\ Turned(row, s).entry = row.entry
  BY DEF Row, Turned, States

\* The row `mine` is the row with what `new` records of its entries.
Changes(row, new, mine) ==
  /\ mine.kind = row.kind /\ mine.source = row.source /\ mine.scan = row.scan
  /\ \A g \in Tag :
       /\ mine.entry[g].from = row.entry[g].from
       /\ mine.entry[g].to = row.entry[g].to
       /\ mine.entry[g].outcome = IF new[g] = "none" THEN row.entry[g].outcome ELSE new[g]
NoneApplied(new) == \A g \in Tag : new[g] # "applied"

LEMMA Ending ==
  ASSUME NEW row \in Row, NEW new \in Marks, NEW s \in States
  PROVE  /\ Turned(Settled(row, new), s) \in Row
         /\ Turned(Settled(row, new), s).state = s
         /\ Turned(Settled(row, new), s).entry = Settled(row, new).entry
         /\ Changes(row, new, Turned(Settled(row, new), s))
<1>1. /\ Settled(row, new) \in Row /\ Changes(row, new, Settled(row, new))
  BY Settling DEF Changes
<1>2. /\ Turned(Settled(row, new), s) \in Row
      /\ Turned(Settled(row, new), s).state = s
      /\ Turned(Settled(row, new), s).kind = Settled(row, new).kind
      /\ Turned(Settled(row, new), s).source = Settled(row, new).source
      /\ Turned(Settled(row, new), s).scan = Settled(row, new).scan
      /\ Turned(Settled(row, new), s).entry = Settled(row, new).entry
  BY <1>1, Staying
<1> QED
  BY <1>1, <1>2 DEF Changes

-----------------------------------------------------------------------------
(* What a step does to the rows and to the runners.                        *)

Outcomes(j, g) == jobs[j].entry[g].outcome
Kept(i) ==
  /\ jobs'[i].kind = jobs[i].kind /\ jobs'[i].source = jobs[i].source
  /\ jobs'[i].scan = jobs[i].scan
  /\ \A g \in Tag : /\ jobs'[i].entry[g].from = jobs[i].entry[g].from
                    /\ jobs'[i].entry[g].to = jobs[i].entry[g].to

\* The step records `new` in the journal of job j, and what that undoes in the
\* journal of its source.
Reverts(j, new, i, g) ==
  jobs[j].kind = "doctor_revert" /\ i = jobs[j].source /\ new[g] = "applied"
Recording(j, new) ==
  /\ \A i \in JobId : Kept(i) /\ (i # j => jobs'[i].state = jobs[i].state)
  /\ \A i \in JobId, g \in Tag : Outcomes(i, g)' =
       IF i = j THEN IF new[g] = "none" THEN Outcomes(i, g) ELSE new[g]
       ELSE IF Reverts(j, new, i, g) THEN "reverted" ELSE Outcomes(i, g)

LEMMA UndoneSelf ==
  ASSUME RowsOK, NEW j \in JobId, NEW new \in Marks,
         jobs[j].kind = "doctor_revert" => jobs[j].source # j
  PROVE  Undone(jobs, j, new)[j] = jobs[j] /\ DOMAIN Undone(jobs, j, new) = JobId
  BY DEF Undone, RowsOK

LEMMA Record ==
  ASSUME RowsOK, NEW j \in JobId, NEW new \in Marks, NEW mine \in Row,
         mine.kind = jobs[j].kind, mine.source = jobs[j].source, mine.scan = jobs[j].scan,
         mine.entry = Settled(jobs[j], new).entry,
         jobs[j].kind = "doctor_revert" => jobs[j].source # j,
         jobs' = [Undone(jobs, j, new) EXCEPT ![j] = mine]
  PROVE  RowsOK' /\ Recording(j, new) /\ jobs'[j].state = mine.state
<1> DEFINE back == Marking({g \in Tag : new[g] = "applied"}, "reverted")
           i == jobs[j].source
<1>1. back \in Marks /\ \A g \in Tag : back[g] = IF new[g] = "applied" THEN "reverted" ELSE "none"
  BY Markings DEF Outcome, Marking
<1>2. \A k \in JobId : jobs[k] \in Row
  BY DEF RowsOK
<1>4. Undone(jobs, j, new) =
        IF jobs[j].kind # "doctor_revert" THEN jobs
        ELSE [jobs EXCEPT ![i] = Settled(jobs[i], back)]
  BY DEF Undone
<1> HIDE DEF back
<1>5. jobs'[j] = mine /\ DOMAIN jobs' = JobId
      /\ \A k \in JobId : k # j => jobs'[k] =
           IF jobs[j].kind = "doctor_revert" /\ k = i THEN Settled(jobs[k], back) ELSE jobs[k]
  <2>1. CASE jobs[j].kind = "doctor_revert"
    BY <2>1, <1>4 DEF RowsOK
  <2>2. CASE jobs[j].kind # "doctor_revert"
    BY <2>2, <1>4 DEF RowsOK
  <2> QED
    BY <2>1, <2>2
<1>6. \A k \in JobId : jobs'[k] \in Row
  BY <1>1, <1>2, <1>5, Settling
<1>7. RowsOK'
  <2>1. jobs' = [k \in JobId |-> jobs'[k]]
    <3>1. CASE jobs[j].kind = "doctor_revert"
      BY <3>1, <1>4 DEF RowsOK
    <3>2. CASE jobs[j].kind # "doctor_revert"
      BY <3>2, <1>4 DEF RowsOK
    <3> QED
      BY <3>1, <3>2
  <2> QED
    BY <2>1, <1>6 DEF RowsOK
<1>8. \A k \in JobId : Kept(k) /\ (k # j => jobs'[k].state = jobs[k].state)
  <2> SUFFICES ASSUME NEW k \in JobId
               PROVE  Kept(k) /\ (k # j => jobs'[k].state = jobs[k].state)
    OBVIOUS
  <2>1. CASE k = j
    BY <2>1, <1>2, <1>5, Settling DEF Kept
  <2>2. CASE k # j
    BY <2>2, <1>1, <1>2, <1>5, Settling, SMTT(30) DEF Kept
  <2> QED
    BY <2>1, <2>2
<1>9. ASSUME NEW k \in JobId, NEW g \in Tag
      PROVE  Outcomes(k, g)' = IF k = j THEN IF new[g] = "none" THEN Outcomes(k, g) ELSE new[g]
               ELSE IF Reverts(j, new, k, g) THEN "reverted" ELSE Outcomes(k, g)
  <2>1. CASE k = j
    BY <2>1, <1>2, <1>5, Settling DEF Outcomes
  <2>2. CASE k # j
    BY <2>2, <1>1, <1>2, <1>5, Settling DEF Outcomes, Reverts
  <2> QED
    BY <2>1, <2>2
<1> QED
  BY <1>5, <1>7, <1>8, <1>9 DEF Recording

-----------------------------------------------------------------------------
(* The inductive invariant.                                                *)

\* An entry not settled yet tells from the file whether its job wrote it.
Journal ==
  \A j \in JobId :
    /\ jobs[j].kind = "doctor_revert" =>
         jobs[j].source \in JobId /\ jobs[jobs[j].source].kind = "doctor_apply"
    /\ NoJob(j) => /\ jobs[j].kind = "none" /\ wrote[j] = {}
                   /\ \A g \in Tag : Outcomes(j, g) = "none"
    /\ \A g \in Tag :
         /\ Outcomes(j, g) \in {"pending", "prepared", "applied"} =>
              jobs[j].entry[g].from # jobs[j].entry[g].to
         /\ Outcomes(j, g) = "pending" => g \notin wrote[j]
         /\ Outcomes(j, g) \in Uncertain /\ g \notin touched[j] =>
              file[g] = IF g \in wrote[j] THEN jobs[j].entry[g].to ELSE jobs[j].entry[g].from
         /\ health[g[1]] # "ok" /\ g \in wrote[j] => g \in touched[j]

Drafted(row) ==
  /\ row.kind \in {"tag_editor", "doctor_apply", "doctor_revert"} /\ row.state = "prepared"
  /\ row.kind = "doctor_revert" =>
       row.source \in JobId /\ jobs[row.source].kind = "doctor_apply"
  /\ \A g \in Tag :
       /\ row.entry[g].outcome \in {"none", "pending", "conflict", "unavailable", "failed"}
       /\ row.entry[g].outcome = "pending" => row.entry[g].from # row.entry[g].to
Undoing(undo) ==
  \A j \in JobId : \A g \in undo[j] :
    /\ jobs[j].kind = "doctor_apply"
    /\ jobs[j].entry[g].from # jobs[j].entry[g].to
Verdict == {"applied", "not_applied", "conflict", "unavailable", "failed"}
Judged(found) ==
  \A j \in JobId, g \in Tag : found[j][g] # "none" =>
    /\ Outcomes(j, g) \in Uncertain /\ found[j][g] \in Verdict
    /\ g \notin touched[j] => (found[j][g] = "applied" <=> g \in wrote[j])
Progress(j, got) ==
  \A g \in Tag :
    /\ Outcomes(j, g) = "pending" => got[g] \in {"none", "dropped"}
    /\ Outcomes(j, g) = "prepared" =>
         /\ got[g] \in {"none", "conflict", "unavailable", "failed"} => g \notin wrote[j]
         /\ got[g] = "applied" => g \in wrote[j]
Sound(d) ==
  /\ d.at = "insert" => Drafted(d.draft)
  /\ Undoing(d.undo)
  /\ d.at = "recover" => Judged(d.found)
  /\ IF d.at = "run" THEN Progress(d.job, d.got) ELSE d.got = Nothing
RunnerOK(r) == Sound(runner[r])
Runners == \A r \in Runner : RunnerOK(r)

\* Where locks are enforced, one runner at most is at something.
Alone ==
  /\ \A r, q \in Runner : Locks /\ ~Quiet(r) /\ ~Quiet(q) => r = q
  /\ \A r \in Runner : At(r, "recover") => Locks

Inv == Types /\ Journal /\ Runners /\ Alone /\ SlotHeld /\ WritesRecorded /\ UndoneOnce

-----------------------------------------------------------------------------
(* A step of a runner that leaves rows and files as they are.              *)

Moved(r, d) == runner'[r] = d /\ \A q \in Runner \ {r} : runner'[q] = runner[q]

LEMMA Move ==
  ASSUME RunnersOK, NEW r \in Runner, NEW d \in Doing, d.at = "run" => d.job \in JobId,
         runner' = [runner EXCEPT ![r] = d]
  PROVE  RunnersOK' /\ Moved(r, d)
  BY DEF RunnersOK, Moved, At, Job

LEMMA JournalStays ==
  ASSUME Inv, UNCHANGED <<jobs, file, health, history>>
  PROVE  Journal' /\ WritesRecorded' /\ UndoneOnce' /\ RowsOK'
<1>1. Journal'
  BY DEF Inv, Journal, NoJob, Outcomes, history
<1>2. WritesRecorded' /\ UndoneOnce' /\ RowsOK'
  BY DEF Inv, Types, RowsOK, WritesRecorded, UndoneOnce, Undoes, Has, history
<1> QED
  BY <1>1, <1>2

LEMMA RunnerStays ==
  ASSUME NEW q \in Runner, RunnerOK(q), runner'[q] = runner[q], UNCHANGED <<jobs, history>>
  PROVE  RunnerOK(q)'
  BY DEF RunnerOK, Sound, Drafted, Undoing, Judged, Progress, Outcomes, history

LEMMA RunnerMoves ==
  ASSUME NEW q \in Runner, NEW d, Sound(d), runner'[q] = d, UNCHANGED <<jobs, history>>
  PROVE  RunnerOK(q)'
  BY DEF RunnerOK, Sound, Drafted, Undoing, Judged, Progress, Outcomes, history

LEMMA MoveKeeps ==
  ASSUME Inv, NEW r \in Runner, NEW d \in Doing, runner' = [runner EXCEPT ![r] = d],
         d.at # "run", Sound(d), d.at = "recover" => Locks,
         d.at \in {"idle", "down"} \/ ~Quiet(r) \/ MayWrite,
         UNCHANGED <<jobs, file, health, history>>,
         mishaps' \in 0..MaxMishaps, UNCHANGED edits
  PROVE  Inv'
<1>1. RunnersOK' /\ Moved(r, d)
  BY Move DEF Inv, Types
<1>2. Types'
  BY <1>1, JournalStays DEF Inv, Types, FilesOK, history
<1>3. Runners'
  <2> SUFFICES ASSUME NEW q \in Runner PROVE RunnerOK(q)'
    BY DEF Runners
  <2>1. CASE q = r
    BY <1>1, <2>1, RunnerMoves DEF Moved
  <2>2. CASE q # r
    BY <1>1, <2>2, RunnerStays DEF Moved, Inv, Runners
  <2> QED
    BY <2>1, <2>2
<1>4. Alone'
  <2>1. ASSUME NEW q \in Runner, q # r, Locks, ~(d.at \in {"idle", "down"}) PROVE Quiet(q)
    BY <2>1 DEF Inv, Alone, MayWrite, LockFree
  <2>2. ASSUME NEW q \in Runner, q # r PROVE Quiet(q)' <=> Quiet(q)
    BY <1>1, <2>2 DEF Moved, Quiet, At
  <2>3. Quiet(r)' <=> d.at \in {"idle", "down"}
    BY <1>1 DEF Moved, Quiet, At
  <2>4. \A q \in Runner : At(q, "recover")' => Locks
    BY <1>1 DEF Moved, At, Inv, Alone
  <2> QED
    BY <2>1, <2>2, <2>3, <2>4 DEF Inv, Alone
<1>5. SlotHeld'
  BY <1>1 DEF Inv, SlotHeld, Moved, At, Job, Active
<1> QED
  BY <1>2, <1>3, <1>4, <1>5, JournalStays DEF Inv

-----------------------------------------------------------------------------
(* A step that records something in the journal.                           *)

LEMMA RecordJournal ==
  ASSUME Inv, NEW j \in JobId, NEW new \in Marks, Recording(j, new),
         ~NoJob(j), jobs'[j].state # "none",
         UNCHANGED <<file, health, history>>,
         \A g \in Tag : new[g] # "none" =>
           Outcomes(j, g) \in Uncertain /\ new[g] \notin {"pending", "reverted"}
  PROVE  Journal'
<1> SUFFICES ASSUME NEW i \in JobId
             PROVE  /\ (jobs[i].kind = "doctor_revert" =>
                          jobs[i].source \in JobId /\ jobs[jobs[i].source].kind = "doctor_apply")'
                    /\ (NoJob(i) => /\ jobs[i].kind = "none" /\ wrote[i] = {}
                                    /\ \A g \in Tag : Outcomes(i, g) = "none")'
                    /\ \A g \in Tag :
                       /\ (Outcomes(i, g) \in {"pending", "prepared", "applied"} =>
                            jobs[i].entry[g].from # jobs[i].entry[g].to)'
                       /\ (Outcomes(i, g) = "pending" => g \notin wrote[i])'
                       /\ (Outcomes(i, g) \in Uncertain /\ g \notin touched[i] =>
                             file[g] = IF g \in wrote[i] THEN jobs[i].entry[g].to
                                       ELSE jobs[i].entry[g].from)'
                       /\ (health[g[1]] # "ok" /\ g \in wrote[i] => g \in touched[i])'
  BY DEF Journal
<1>1. Kept(i) /\ (i # j => jobs'[i].state = jobs[i].state)
  BY DEF Recording
<1>2. (jobs[i].kind = "doctor_revert" =>
        jobs[i].source \in JobId /\ jobs[jobs[i].source].kind = "doctor_apply")'
  BY <1>1 DEF Recording, Kept, Inv, Journal
<1>3. (NoJob(i) => /\ jobs[i].kind = "none" /\ wrote[i] = {}
                   /\ \A g \in Tag : Outcomes(i, g) = "none")'
  <2> SUFFICES ASSUME NoJob(i)', i # j, NoJob(i)
               PROVE  /\ jobs'[i].kind = "none" /\ wrote'[i] = {}
                      /\ \A g \in Tag : Outcomes(i, g)' = "none"
    BY <1>1 DEF NoJob
  <2>1. jobs[i].kind = "none" /\ \A g \in Tag : ~Reverts(j, new, i, g)
    BY DEF Reverts, Inv, Journal
  <2> QED
    BY <1>1, <2>1 DEF Kept, Recording, Inv, Journal, history
<1>4. ASSUME NEW g \in Tag
      PROVE  /\ (Outcomes(i, g) \in {"pending", "prepared", "applied"} =>
                   jobs[i].entry[g].from # jobs[i].entry[g].to)'
             /\ (Outcomes(i, g) = "pending" => g \notin wrote[i])'
             /\ (Outcomes(i, g) \in Uncertain /\ g \notin touched[i] =>
                   file[g] = IF g \in wrote[i] THEN jobs[i].entry[g].to
                             ELSE jobs[i].entry[g].from)'
             /\ (health[g[1]] # "ok" /\ g \in wrote[i] => g \in touched[i])'
  <2>1. /\ jobs'[i].entry[g].from = jobs[i].entry[g].from
        /\ jobs'[i].entry[g].to = jobs[i].entry[g].to
    BY <1>1 DEF Kept
  <2>2. \/ Outcomes(i, g)' = Outcomes(i, g)
        \/ Outcomes(i, g)' = "reverted"
        \/ Outcomes(i, g) \in Uncertain /\ Outcomes(i, g)' # "pending"
    BY DEF Recording
  <2>3. /\ Outcomes(i, g) \in {"pending", "prepared", "applied"} =>
             jobs[i].entry[g].from # jobs[i].entry[g].to
        /\ Outcomes(i, g) = "pending" => g \notin wrote[i]
        /\ Outcomes(i, g) \in Uncertain /\ g \notin touched[i] =>
             file[g] = IF g \in wrote[i] THEN jobs[i].entry[g].to ELSE jobs[i].entry[g].from
        /\ health[g[1]] # "ok" /\ g \in wrote[i] => g \in touched[i]
    BY DEF Inv, Journal
  <2> QED
    BY <2>1, <2>2, <2>3 DEF Uncertain, history
<1> QED
  BY <1>2, <1>3, <1>4

LEMMA RecordTruth ==
  ASSUME Inv, NEW j \in JobId, NEW new \in Marks, Recording(j, new), UNCHANGED history,
         \A g \in Tag : new[g] \in Verdict /\ g \notin touched[j] =>
           (new[g] = "applied" <=> g \in wrote[j]),
         \A g \in Tag : new[g] # "none" => new[g] \in Verdict \cup {"prepared"},
         Undoable(j, new)
  PROVE  WritesRecorded'
<1> SUFFICES ASSUME NEW i \in JobId, NEW g \in Tag,
                    Outcomes(i, g)' \in Outcome \ Uncertain, g \notin touched[i]
             PROVE  Outcomes(i, g)' \in {"applied", "reverted"} <=> g \in wrote[i]
  BY DEF WritesRecorded, Has, Outcomes, history
<1>1. Outcomes(i, g) \in Outcome \ Uncertain =>
        (Outcomes(i, g) \in {"applied", "reverted"} <=> g \in wrote[i])
  BY DEF Inv, WritesRecorded, Has, Outcomes
<1>2. CASE i = j
  BY <1>1, <1>2 DEF Recording, Uncertain, Verdict
<1>3. CASE i # j /\ Reverts(j, new, i, g)
  <2>1. Outcomes(i, g) = "applied"
    BY <1>3 DEF Undoable, Reverts, Has, Outcomes
  <2> QED
    BY <2>1, <1>1, <1>3 DEF Recording, Outcome, Uncertain
<1>4. CASE i # j /\ ~Reverts(j, new, i, g)
  BY <1>1, <1>4 DEF Recording
<1> QED
  BY <1>2, <1>3, <1>4

LEMMA RecordUndo ==
  ASSUME Inv, NEW j \in JobId, NEW new \in Marks, Recording(j, new),
         \A g \in Tag : new[g] # "none" =>
           Outcomes(j, g) \in Uncertain /\ new[g] # "reverted",
         Undoable(j, new)
  PROVE  UndoneOnce'
<1>1. ASSUME NEW k \in JobId, NEW i \in JobId, NEW g \in Tag
      PROVE  Undoes(k, i, g)' <=> Undoes(k, i, g) \/ (k = j /\ Reverts(j, new, i, g))
  <2>1. jobs'[k].kind = jobs[k].kind /\ jobs'[k].source = jobs[k].source
    BY DEF Recording, Kept
  <2>2. jobs[k].kind = "doctor_revert" => ~Reverts(j, new, k, g)
    BY DEF Reverts, Inv, Journal
  <2>3. CASE k = j
    <3>1. Outcomes(k, g)' = "applied" <=> Outcomes(k, g) = "applied" \/ new[g] = "applied"
      BY <2>3 DEF Recording, Uncertain
    <3> QED
      BY <2>1, <2>3, <3>1 DEF Undoes, Has, Outcomes, Reverts
  <2>4. CASE k # j
    <3>1. ~Reverts(j, new, k, g) => Outcomes(k, g)' = Outcomes(k, g)
      BY <2>4 DEF Recording
    <3> QED
      BY <2>1, <2>2, <2>4, <3>1 DEF Undoes, Has, Outcomes
  <2> QED
    BY <2>3, <2>4
<1>2. ASSUME NEW i \in JobId, NEW g \in Tag
      PROVE  Outcomes(i, g)' = "reverted" <=>
               Outcomes(i, g) = "reverted" \/ Reverts(j, new, i, g)
  <2>1. Reverts(j, new, i, g) => i # j
    BY DEF Reverts, Inv, Journal
  <2> QED
    BY <2>1 DEF Recording, Uncertain
<1>3. ASSUME NEW i \in JobId, NEW g \in Tag, Reverts(j, new, i, g)
      PROVE  Outcomes(i, g) = "applied"
  BY <1>3 DEF Undoable, Reverts, Has, Outcomes
<1>4. \A i \in JobId, g \in Tag :
        /\ \A k, l \in JobId : Undoes(k, i, g) /\ Undoes(l, i, g) => k = l
        /\ (\E k \in JobId : Undoes(k, i, g)) <=> Outcomes(i, g) = "reverted"
  BY DEF Inv, UndoneOnce, Has, Outcomes
<1> SUFFICES ASSUME NEW i \in JobId, NEW g \in Tag
             PROVE  /\ \A k, l \in JobId : Undoes(k, i, g)' /\ Undoes(l, i, g)' => k = l
                    /\ (\E k \in JobId : Undoes(k, i, g)') <=> Outcomes(i, g)' = "reverted"
  BY DEF UndoneOnce, Has, Outcomes
<1> QED
  BY <1>1, <1>2, <1>3, <1>4

\* What may be recorded: a claim of what is pending, and what became of an
\* entry not settled yet.
Recordable(j, new) ==
  /\ \A g \in Tag : new[g] # "none" =>
       \/ new[g] = "prepared" /\ Outcomes(j, g) = "pending"
       \/ new[g] \in Verdict /\ Outcomes(j, g) \in Uncertain
  /\ \A g \in Tag : new[g] \in Verdict /\ g \notin touched[j] =>
       (new[g] = "applied" <=> g \in wrote[j])
  /\ Undoable(j, new)

LEMMA RecordRows ==
  ASSUME Inv, NEW j \in JobId, NEW new \in Marks, Recording(j, new), Recordable(j, new),
         ~NoJob(j), jobs'[j].state # "none", UNCHANGED <<file, health, history>>
  PROVE  Journal' /\ WritesRecorded' /\ UndoneOnce'
<1>1. Journal'
  BY RecordJournal DEF Recordable, Verdict, Uncertain
<1>2. WritesRecorded'
  BY RecordTruth DEF Recordable
<1>3. UndoneOnce'
  BY RecordUndo DEF Recordable, Verdict, Uncertain
<1> QED
  BY <1>1, <1>2, <1>3

LEMMA OthersQuiet ==
  ASSUME Inv, NEW r \in Runner, At(r, "run") \/ At(r, "recover"),
         NEW q \in Runner, q # r
  PROVE  ~At(q, "run") /\ ~At(q, "recover")
  BY DEF Inv, SlotHeld, Alone, Quiet, At

LEMMA RecordOthers ==
  ASSUME NEW j \in JobId, NEW new \in Marks, Recording(j, new),
         NEW q \in Runner, RunnerOK(q), runner'[q] = runner[q],
         runner[q] \in Doing, ~At(q, "run"), ~At(q, "recover")
  PROVE  RunnerOK(q)'
<1>1. \A i \in JobId : Kept(i)
  BY DEF Recording
<1>2. Undoing(runner[q].undo)'
  BY <1>1 DEF RunnerOK, Sound, Undoing, Kept, Doing
<1>3. runner[q].at = "insert" => Drafted(runner[q].draft)'
  BY <1>1 DEF RunnerOK, Sound, Drafted, Kept
<1> QED
  BY <1>2, <1>3 DEF RunnerOK, Sound, At

LEMMA RecordStates ==
  ASSUME Inv, NEW r \in Runner, At(r, "run"), NEW j \in JobId, j = Job(r), NEW new \in Marks,
         Recording(j, new), runner' = runner, Active(j)'
  PROVE  SlotHeld'
  BY DEF Inv, SlotHeld, Recording, Active, At, Job

\* A runner records and goes on with its job.
LEMMA RunRecords ==
  ASSUME Inv, NEW r \in Runner, At(r, "run"), NEW j \in JobId, j = Job(r), NEW new \in Marks,
         Recording(j, new), Recordable(j, new), RowsOK', Active(j)',
         runner' = runner, UNCHANGED <<file, health, mishaps, edits, history>>
  PROVE  Inv'
<1>1. Active(j) /\ runner[r] \in Doing
  BY DEF Inv, Types, RunnersOK, SlotHeld
<1>2. ~NoJob(j) /\ jobs'[j].state # "none"
  BY <1>1 DEF NoJob, Active
<1>3. Journal' /\ WritesRecorded' /\ UndoneOnce'
  BY <1>1, <1>2, RecordRows
<1>4. ASSUME NEW q \in Runner
      PROVE  RunnerOK(q)'
  <2>1. CASE q # r
    BY <1>1, <2>1, OthersQuiet, RecordOthers DEF Inv, Runners, Types, RunnersOK
  <2>2. CASE q = r
    <3>1. Progress(j, runner[r].got)
      BY DEF Inv, Runners, RunnerOK, Sound, At, Job
    <3>2. \A g \in Tag : Outcomes(j, g) = "pending" => g \notin wrote[j]
      BY <1>1 DEF Inv, Journal
    <3>3. ASSUME NEW g \in Tag
          PROVE  \/ Outcomes(j, g)' = Outcomes(j, g)
                 \/ Outcomes(j, g)' = "prepared" /\ Outcomes(j, g) = "pending"
                 \/ Outcomes(j, g)' \in Verdict
      BY <1>1 DEF Recording, Recordable
    <3>4. \A g \in Tag :
            /\ Outcomes(j, g)' = "pending" => runner[r].got[g] \in {"none", "dropped"}
            /\ Outcomes(j, g)' = "prepared" =>
                 /\ runner[r].got[g] \in {"none", "conflict", "unavailable", "failed"} =>
                      g \notin wrote[j]
                 /\ runner[r].got[g] = "applied" => g \in wrote[j]
      BY <3>1, <3>2, <3>3 DEF Progress, Verdict
    <3>5. Undoing(runner[r].undo)'
      <4>1. Undoing(runner[r].undo) /\ runner[r].undo \in [JobId -> SUBSET Tag]
        BY <1>1 DEF Inv, Runners, RunnerOK, Sound, Doing
      <4>2. \A i \in JobId : Kept(i)
        BY DEF Recording
      <4> QED
        BY <4>1, <4>2 DEF Undoing, Kept
    <3> QED
      BY <2>2, <3>4, <3>5 DEF RunnerOK, Sound, Progress, At, Job, history, Outcomes
  <2> QED
    BY <2>1, <2>2
<1>5. Types' /\ Alone'
  BY DEF Inv, Types, RunnersOK, FilesOK, Alone, Quiet, At, Job, history
<1>6. SlotHeld'
  BY <1>1, RecordStates
<1> QED
  BY <1>3, <1>4, <1>5, <1>6 DEF Inv, Runners

\* A runner ends its job.
LEMMA RunEnds ==
  ASSUME Inv, NEW r \in Runner, At(r, "run"), NEW j \in JobId, j = Job(r), NEW new \in Marks,
         NEW d \in Doing,
         Recording(j, new), Recordable(j, new), RowsOK', jobs'[j].state # "none",
         runner' = [runner EXCEPT ![r] = d], d.at \in {"idle", "undo"}, Sound(d),
         UNCHANGED <<file, health, mishaps, edits, history>>
  PROVE  Inv'
<1>1. Active(j) /\ ~NoJob(j)
  BY DEF Inv, Types, RunnersOK, SlotHeld, NoJob, Active
<1>2. Journal' /\ WritesRecorded' /\ UndoneOnce'
  BY <1>1, RecordRows
<1>3. RunnersOK' /\ Moved(r, d)
  BY Move DEF Inv, Types
<1>4. ASSUME NEW q \in Runner
      PROVE  RunnerOK(q)'
  <2>1. CASE q # r
    BY <1>1, <1>3, <2>1, OthersQuiet, RecordOthers DEF Inv, Runners, Types, RunnersOK, Moved
  <2>2. CASE q = r
    <3>1. \A i \in JobId : \A g \in d.undo[i] :
            /\ jobs'[i].kind = "doctor_apply"
            /\ jobs'[i].entry[g].from # jobs'[i].entry[g].to
      BY <1>1 DEF Recording, Kept, Sound, Undoing, Doing
    <3> QED
      BY <2>2, <1>3, <3>1 DEF RunnerOK, Sound, Undoing, Moved
  <2> QED
    BY <2>1, <2>2
<1>5. Types'
  BY <1>3 DEF Inv, Types, FilesOK, history
<1>6. Alone'
  BY <1>3 DEF Inv, Alone, Quiet, At, Moved
<1>7. SlotHeld'
  BY <1>3 DEF Inv, SlotHeld, At, Moved
<1> QED
  BY <1>2, <1>4, <1>5, <1>6, <1>7 DEF Inv, Runners

-----------------------------------------------------------------------------
(* The actions.                                                            *)

LEMMA RecordPlain ==
  ASSUME RowsOK, NEW j \in JobId, NEW new \in Marks, NEW mine \in Row,
         Changes(jobs[j], new, mine), NoneApplied(new),
         jobs' = [jobs EXCEPT ![j] = mine]
  PROVE  RowsOK' /\ Recording(j, new) /\ jobs'[j].state = mine.state
<1>1. RowsOK' /\ jobs'[j] = mine /\ \A i \in JobId \ {j} : jobs'[i] = jobs[i]
  BY DEF RowsOK
<1>2. \A i \in JobId : Kept(i) /\ (i # j => jobs'[i].state = jobs[i].state)
  BY <1>1 DEF Kept, Changes
<1>3. ASSUME NEW i \in JobId, NEW g \in Tag
      PROVE  Outcomes(i, g)' = IF i = j THEN IF new[g] = "none" THEN Outcomes(i, g) ELSE new[g]
               ELSE IF Reverts(j, new, i, g) THEN "reverted" ELSE Outcomes(i, g)
  BY <1>1 DEF Outcomes, Reverts, Changes, NoneApplied
<1> QED
  BY <1>1, <1>2, <1>3 DEF Recording

LEMMA IdleSound ==
  ASSUME NEW at \in {"idle", "down"}
  PROVE  Doer(at) \in Doing /\ Doer(at).at = at /\ Undoing(Doer(at).undo) /\ Sound(Doer(at))
<1>1. Doer(at) \in Doing /\ Doer(at).at = at /\ Undoing(Doer(at).undo)
      /\ Doer(at).got = Nothing
  BY Doers DEF Stops, Undoing
<1> QED
  BY <1>1 DEF Sound

LEMMA Running ==
  ASSUME Inv, NEW r \in Runner, At(r, "run")
  PROVE  /\ Job(r) \in JobId /\ Active(Job(r)) /\ jobs[Job(r)] \in Row
         /\ jobs[Job(r)].kind = "doctor_revert" => jobs[Job(r)].source # Job(r)
         /\ Progress(Job(r), runner[r].got) /\ Undoing(runner[r].undo)
         /\ runner[r] \in Doing
<1>1. Job(r) \in JobId /\ Active(Job(r)) /\ jobs[Job(r)] \in Row /\ runner[r] \in Doing
  BY DEF Inv, Types, RowsOK, RunnersOK, SlotHeld
<1>2. jobs[Job(r)].kind = "doctor_revert" => jobs[Job(r)].source # Job(r)
  BY <1>1 DEF Inv, Journal
<1>3. Progress(Job(r), runner[r].got) /\ Undoing(runner[r].undo)
  BY DEF Inv, Runners, RunnerOK, Sound, At, Job
<1> QED
  BY <1>1, <1>2, <1>3

LEMMA Claims ==
  ASSUME Inv, NEW r \in Runner, ClaimFile(r)
  PROVE  Inv'
<1> DEFINE tags == Pending(r) \cap Of(First(Unclaimed(r)))
<1>1. At(r, "run") /\ Job(r) \in JobId /\ jobs[Job(r)] \in Row
  BY Running DEF ClaimFile
<1> SUFFICES ASSUME NEW j \in JobId, j = Job(r), NEW new, new = Marking(tags, "prepared"),
                    NEW mine, mine = Turned(Settled(jobs[j], new), "running")
             PROVE  Inv'
  BY <1>1
<1>2. new \in Marks /\ \A g \in Tag : new[g] = IF g \in tags THEN "prepared" ELSE "none"
  BY Markings DEF Marking, Outcome, Uncertain
<1>3. mine \in Row /\ mine.state = "running" /\ Changes(jobs[j], new, mine)
  <2>1. "running" \in States
    BY DEF States
  <2> QED
    BY <1>1, <1>2, <2>1, Ending
<1>4. jobs' = [jobs EXCEPT ![j] = mine]
  BY DEF ClaimFile, Turned
<1>5. \A g \in tags : g \in Tag /\ Outcomes(j, g) = "pending"
  BY DEF Pending, Has, Outcomes
<1> HIDE DEF tags
<1>6. RowsOK' /\ Recording(j, new) /\ jobs'[j].state = "running"
  <2>1. NoneApplied(new)
    BY <1>2 DEF NoneApplied
  <2>2. RowsOK
    BY DEF Inv, Types
  <2> QED
    BY <1>2, <1>3, <1>4, <2>1, <2>2, RecordPlain, ZenonT(40)
<1>7. Recordable(j, new)
  BY <1>2, <1>5 DEF Recordable, Verdict, Undoable
<1>8. Active(j)'
  BY <1>6 DEF Active
<1>9. runner' = runner /\ UNCHANGED <<file, health, mishaps, edits, history>>
  BY DEF ClaimFile
<1> QED
  BY <1>1, <1>2, <1>6, <1>7, <1>8, <1>9, RunRecords

LEMMA Settles ==
  ASSUME Inv, NEW r \in Runner, SettleFile(r)
  PROVE  Inv'
<1>1. /\ At(r, "run") /\ Job(r) \in JobId /\ Active(Job(r)) /\ jobs[Job(r)] \in Row
      /\ runner[r] \in Doing /\ Progress(Job(r), runner[r].got)
      /\ jobs[Job(r)].kind = "doctor_revert" => jobs[Job(r)].source # Job(r)
  BY Running DEF SettleFile
<1> SUFFICES ASSUME NEW j \in JobId, j = Job(r), NEW new, new = Recorded(r),
                    NEW mine, mine = Settled(jobs[j], new)
             PROVE  Inv'
  BY <1>1
<1>2. ASSUME NEW g \in Tag
      PROVE  \/ new[g] = "none"
             \/ /\ new[g] \in {"applied", "conflict", "unavailable", "failed"}
                /\ new[g] = runner[r].got[g] /\ Outcomes(j, g) = "prepared"
  BY <1>1 DEF Recorded, Unrecorded, Prepared, Has, Outcomes, Got, Doing, Result
<1>3. new \in Marks
  <2>1. new = [g \in Tag |-> new[g]]
    BY DEF Recorded
  <2>2. \A g \in Tag : new[g] \in Outcome \cup {"none"}
    BY <1>2 DEF Outcome
  <2> QED
    BY <2>1, <2>2 DEF Marks
<1>4. Undone(jobs, j, new)[j] = jobs[j]
  BY <1>1, <1>3, UndoneSelf DEF Inv, Types
<1>5. jobs' = [Undone(jobs, j, new) EXCEPT ![j] = mine]
  BY <1>4 DEF SettleFile
<1>6. RowsOK' /\ Recording(j, new) /\ jobs'[j].state = jobs[j].state
  <2>1. /\ mine \in Row /\ mine.kind = jobs[j].kind /\ mine.source = jobs[j].source
        /\ mine.scan = jobs[j].scan /\ mine.state = jobs[j].state
        /\ mine.entry = Settled(jobs[j], new).entry
    BY <1>1, <1>3, Settling
  <2>2. RowsOK
    BY DEF Inv, Types
  <2> QED
    BY <1>1, <1>3, <1>5, <2>1, <2>2, Record
<1>7. Recordable(j, new)
  <2>1. Undoable(j, new)
    BY DEF SettleFile
  <2>2. \A g \in Tag : new[g] # "none" => new[g] \in Verdict /\ Outcomes(j, g) \in Uncertain
    BY <1>2 DEF Verdict, Uncertain
  <2>3. \A g \in Tag : new[g] \in Verdict /\ g \notin touched[j] =>
          (new[g] = "applied" <=> g \in wrote[j])
    BY <1>1, <1>2 DEF Progress, Verdict
  <2> QED
    BY <2>1, <2>2, <2>3 DEF Recordable
<1>8. Active(j)'
  BY <1>1, <1>6 DEF Active
<1>9. runner' = runner /\ UNCHANGED <<file, health, mishaps, edits, history>>
  BY DEF SettleFile
<1> QED
  BY <1>1, <1>3, <1>6, <1>7, <1>8, <1>9, RunRecords

LEMMA Going ==
  ASSUME Inv, NEW r \in Runner, At(r, "run")
  PROVE  Onward(r) \in Doing /\ Onward(r).at \in {"idle", "undo"} /\ Sound(Onward(r))
<1>1. CASE \E j \in JobId : runner[r].undo[j] # {}
  <2>1. Onward(r) = [Doer("undo") EXCEPT !.undo = runner[r].undo]
    BY <1>1 DEF Onward
  <2> QED
    BY <2>1, Doers, Running DEF Doing, Stops, Sound
<1>2. CASE ~\E j \in JobId : runner[r].undo[j] # {}
  BY <1>2, IdleSound DEF Onward
<1> QED
  BY <1>1, <1>2

LEMMA Finishes ==
  ASSUME Inv, NEW r \in Runner, FinishJob(r)
  PROVE  Inv'
<1>1. At(r, "run") /\ Job(r) \in JobId /\ jobs[Job(r)] \in Row
  BY Running DEF FinishJob, Through
<1> SUFFICES ASSUME NEW j \in JobId, j = Job(r), NEW d, d = Onward(r),
                    NEW s, s = IF Has(Job(r), Uncertain) = {} THEN "completed" ELSE "interrupted"
             PROVE  Inv'
  BY <1>1
<1>2. d \in Doing /\ d.at \in {"idle", "undo"} /\ Sound(d)
  BY <1>1, Going
<1>3. jobs' = [jobs EXCEPT ![j] = [jobs[j] EXCEPT !.state = s]]
  BY DEF FinishJob
<1>4. RowsOK' /\ Recording(j, Nothing) /\ jobs'[j].state = s
  <2> DEFINE mine == Turned(jobs[j], s)
  <2>1. jobs[j] \in Row /\ s \in States
    BY <1>1 DEF States
  <2>2. mine \in Row /\ mine.state = s /\ Changes(jobs[j], Nothing, mine)
    <3>1. /\ mine \in Row /\ mine.state = s /\ mine.kind = jobs[j].kind
          /\ mine.source = jobs[j].source /\ mine.scan = jobs[j].scan
          /\ mine.entry = jobs[j].entry
      BY <2>1, Staying
    <3> QED
      BY <3>1, Nothings DEF Changes
  <2>3. jobs' = [jobs EXCEPT ![j] = mine]
    BY <1>3 DEF Turned
  <2>4. RowsOK /\ Nothing \in Marks /\ NoneApplied(Nothing)
    BY Nothings DEF Inv, Types, NoneApplied
  <2> QED
    BY <2>2, <2>3, <2>4, RecordPlain
<1>5. Recordable(j, Nothing)
  BY Nothings DEF Recordable, Verdict, Undoable
<1>6. runner' = [runner EXCEPT ![r] = d] /\ UNCHANGED <<file, health, mishaps, edits, history>>
  BY DEF FinishJob
<1> QED
  BY <1>1, <1>2, <1>4, <1>5, <1>6, Nothings, RunEnds

LEMMA Cancels ==
  ASSUME Inv, NEW r \in Runner, Cancel(r)
  PROVE  Inv'
<1>1. At(r, "run") /\ Job(r) \in JobId /\ jobs[Job(r)] \in Row
  BY Running DEF Cancel, Doctoring
<1> SUFFICES ASSUME NEW j \in JobId, j = Job(r),
                    NEW new, new = Marking(Pending(r), "not_applied"),
                    NEW mine, mine = Turned(Settled(jobs[j], new), "cancelled")
             PROVE  Inv'
  BY <1>1
<1>2. /\ new \in Marks
      /\ \A g \in Tag : new[g] = IF g \in Pending(r) THEN "not_applied" ELSE "none"
  BY Markings DEF Marking, Outcome
<1>3. mine \in Row /\ mine.state = "cancelled" /\ Changes(jobs[j], new, mine)
  <2>1. "cancelled" \in States
    BY DEF States
  <2> QED
    BY <1>1, <1>2, <2>1, Ending
<1>4. jobs' = [jobs EXCEPT ![j] = mine]
  BY DEF Cancel, Turned
<1>5. \A g \in Pending(r) : g \in Tag /\ Outcomes(j, g) = "pending" /\ g \notin wrote[j]
  BY DEF Pending, Has, Outcomes, Inv, Journal
<1>6. RowsOK' /\ Recording(j, new) /\ jobs'[j].state = "cancelled"
  <2>1. NoneApplied(new)
    BY <1>2 DEF NoneApplied
  <2>2. RowsOK
    BY DEF Inv, Types
  <2> QED
    BY <1>2, <1>3, <1>4, <2>1, <2>2, RecordPlain, ZenonT(40)
<1>7. Recordable(j, new)
  BY <1>2, <1>5 DEF Recordable, Verdict, Undoable, Uncertain
<1>8. runner' = [runner EXCEPT ![r] = Doer("idle")]
      /\ UNCHANGED <<file, health, mishaps, edits, history>>
  BY DEF Cancel
<1> QED
  BY <1>1, <1>2, <1>6, <1>7, <1>8, IdleSound, RunEnds

LEMMA Leaves ==
  ASSUME Inv, NEW r \in Runner, NEW at \in {"idle", "down"},
         runner' = [runner EXCEPT ![r] = Doer(at)],
         UNCHANGED <<jobs, file, health, history>>,
         mishaps' \in 0..MaxMishaps, UNCHANGED edits
  PROVE  Inv'
  BY IdleSound, MoveKeeps

LEMMA Mishaps ==
  ASSUME Inv
  PROVE  /\ Mishap => mishaps' \in 0..MaxMishaps
         /\ UNCHANGED mishaps => mishaps' \in 0..MaxMishaps
         /\ Edit => edits' \in 0..MaxEdits
<1>1. mishaps \in 0..MaxMishaps /\ edits \in 0..MaxEdits
  BY DEF Inv, Types, FilesOK
<1> QED
  BY <1>1, TagBounds DEF Mishap, Edit

LEMMA Quits ==
  ASSUME Inv, NEW r \in Runner,
         \/ InsertBusy(r) \/ SettleRefused(r) \/ RecoveryEnds(r) \/ GiveUp(r) \/ Crash(r)
  PROVE  Inv'
<1>1. mishaps' \in 0..MaxMishaps
  BY Mishaps DEF InsertBusy, SettleRefused, RecoveryEnds, GiveUp, Crash
<1>2. CASE Crash(r)
  BY <1>1, <1>2, Leaves DEF Crash
<1>3. CASE InsertBusy(r) \/ SettleRefused(r) \/ RecoveryEnds(r) \/ GiveUp(r)
  BY <1>1, <1>3, Leaves DEF InsertBusy, SettleRefused, RecoveryEnds, GiveUp
<1> QED
  BY <1>2, <1>3

\* What a runner that has drawn up a job is at.
NewRow(k, i, c, e) ==
  [kind |-> k, source |-> i, scan |-> c, state |-> "prepared", entry |-> e]
Drafting(d, undo, row) == [d EXCEPT !.at = "insert", !.undo = undo, !.draft = row]

LEMMA Drawn ==
  ASSUME NEW k \in {"tag_editor", "doctor_apply", "doctor_revert"}, NEW i \in 0..MaxJob,
         NEW c \in Scan \cup {0}, NEW e \in [Tag -> Entry],
         k = "doctor_revert" => i \in JobId /\ jobs[i].kind = "doctor_apply",
         \A g \in Tag :
           /\ e[g].outcome \in {"none", "pending", "conflict", "unavailable", "failed"}
           /\ e[g].outcome = "pending" => e[g].from # e[g].to,
         NEW row, row = NewRow(k, i, c, e)
  PROVE  row \in Row /\ Drafted(row)
<1>1. row \in Row
  BY DEF Row, NewRow
<1>2. row.kind = k /\ row.source = i /\ row.state = "prepared" /\ row.entry = e
  BY DEF NewRow
<1> QED
  BY <1>1, <1>2 DEF Drafted

LEMMA Drafts ==
  ASSUME Inv, NEW r \in Runner, NEW undo \in [JobId -> SUBSET Tag], Undoing(undo),
         ~Quiet(r) \/ MayWrite, ~At(r, "run"),
         NEW row \in Row, Drafted(row),
         runner' = [runner EXCEPT ![r] = Drafting(runner[r], undo, row)],
         UNCHANGED <<jobs, file, health, mishaps, edits, history>>
  PROVE  Inv'
<1>1. runner[r] \in Doing /\ Sound(runner[r])
  BY DEF Inv, Types, RunnersOK, Runners, RunnerOK
<1> DEFINE d == Drafting(runner[r], undo, row)
<1>2. /\ d \in Doing /\ d.at = "insert" /\ d.undo = undo /\ d.draft = row
      /\ d.got = runner[r].got
  BY <1>1 DEF Drafting, Doing, Stops
<1>3. Sound(d)
  BY <1>1, <1>2 DEF Sound, At
<1>4. mishaps' \in 0..MaxMishaps
  BY Mishaps
<1> HIDE DEF d
<1>5. runner' = [runner EXCEPT ![r] = d]
  BY DEF d
<1> QED
  BY <1>2, <1>3, <1>4, <1>5, MoveKeeps

LEMMA Idles ==
  ASSUME Inv, NEW r \in Runner
  PROVE  /\ runner[r] \in Doing /\ runner[r].undo \in [JobId -> SUBSET Tag]
         /\ Undoing(runner[r].undo) /\ Sound(runner[r])
         /\ RowsOK /\ file \in [Tag -> Value]
  BY DEF Inv, Types, RunnersOK, FilesOK, Runners, RunnerOK, Sound, Doing

LEMMA Plans ==
  ASSUME NEW p \in Plan
  PROVE  p.tags \subseteq Tag /\ p.from \in Value /\ p.to \in Value /\ p.from # p.to
  BY PlanAssumption

LEMMA Unmarked == NoEntry \in Entry /\ NoEntry.outcome = "none"
  BY Blanks DEF NoEntry, Entry

LEMMA FreshEdit ==
  ASSUME NEW e
  PROVE  [NoRow EXCEPT !.kind = "tag_editor", !.state = "prepared", !.entry = e] = NewRow("tag_editor", 0, 0, e)
<1> DEFINE blank == [g \in Tag |-> NoEntry]
<1>1. NoRow = [kind |-> "none", source |-> 0, scan |-> 0, state |-> "none", entry |-> blank]
  BY DEF NoRow
<1> HIDE DEF blank
<1> SUFFICES ASSUME NEW row, row = [NoRow EXCEPT !.kind = "tag_editor", !.state = "prepared", !.entry = e]
             PROVE  row = NewRow("tag_editor", 0, 0, e)
  OBVIOUS
<1> QED
  BY <1>1 DEF NewRow

LEMMA FreshApply ==
  ASSUME NEW c, NEW e
  PROVE  [NoRow EXCEPT !.kind = "doctor_apply", !.scan = c, !.state = "prepared", !.entry = e] = NewRow("doctor_apply", 0, c, e)
<1> DEFINE blank == [g \in Tag |-> NoEntry]
<1>1. NoRow = [kind |-> "none", source |-> 0, scan |-> 0, state |-> "none", entry |-> blank]
  BY DEF NoRow
<1> HIDE DEF blank
<1> SUFFICES ASSUME NEW row, row = [NoRow EXCEPT !.kind = "doctor_apply", !.scan = c, !.state = "prepared", !.entry = e]
             PROVE  row = NewRow("doctor_apply", 0, c, e)
  OBVIOUS
<1> QED
  BY <1>1 DEF NewRow

LEMMA FreshUndo ==
  ASSUME NEW i, NEW c, NEW e
  PROVE  [NoRow EXCEPT !.kind = "doctor_revert", !.source = i, !.scan = c, !.state = "prepared",
                        !.entry = e] = NewRow("doctor_revert", i, c, e)
<1> DEFINE blank == [g \in Tag |-> NoEntry]
<1>1. NoRow = [kind |-> "none", source |-> 0, scan |-> 0, state |-> "none", entry |-> blank]
  BY DEF NoRow
<1> HIDE DEF blank
<1> SUFFICES ASSUME NEW row, row = [NoRow EXCEPT !.kind = "doctor_revert", !.source = i, !.scan = c, !.state = "prepared",
                        !.entry = e]
             PROVE  row = NewRow("doctor_revert", i, c, e)
  OBVIOUS
<1> QED
  BY <1>1 DEF NewRow

LEMMA AskedEdit ==
  ASSUME Inv, NEW r \in Runner, NEW p \in Plan, AskEdit(r, p)
  PROVE  Inv'
<1> DEFINE changed == {g \in p.tags : health[g[1]] = "ok" /\ file[g] # p.to}
           e == [g \in Tag |-> IF g \in changed
                  THEN [from |-> file[g], to |-> p.to, outcome |-> "pending"] ELSE NoEntry]
           row == NewRow("tag_editor", 0, 0, e)
<1>1. At(r, "idle") /\ MayWrite /\ ~At(r, "run")
  BY DEF AskEdit, At
<1>2. ASSUME NEW g \in Tag
      PROVE  /\ e[g] \in Entry /\ e[g].outcome \in {"none", "pending"}
             /\ e[g].outcome = "pending" => e[g].from # e[g].to
  <2>1. CASE g \in changed
    <3>1. e[g] = [from |-> file[g], to |-> p.to, outcome |-> "pending"]
          /\ file[g] # p.to /\ file[g] \in Value /\ p.to \in Value
      BY <2>1, Plans, Idles
    <3> QED
      BY <3>1 DEF Entry, Outcome, Uncertain
  <2>2. CASE g \notin changed
    BY <2>2, Unmarked
  <2> QED
    BY <2>1, <2>2
<1>3. e \in [Tag -> Entry]
  BY <1>2
<1> HIDE DEF e
<1>4. [NoRow EXCEPT !.kind = "tag_editor", !.state = "prepared", !.entry = e] = row
  BY FreshEdit
<1>5. runner' = [runner EXCEPT ![r] = Drafting(runner[r], runner[r].undo, row)]
  <2>1. runner' = [runner EXCEPT ![r] = [runner[r] EXCEPT !.at = "insert", !.draft = row]]
    BY <1>4 DEF AskEdit, e
  <2>2. [runner[r] EXCEPT !.at = "insert", !.draft = row]
          = Drafting(runner[r], runner[r].undo, row)
    BY Idles DEF Drafting, Doing
  <2> QED
    BY <2>1, <2>2
<1>6. row \in Row /\ Drafted(row)
  <2>1. 0 \in 0..MaxJob /\ 0 \in Scan \cup {0}
    BY TagBounds
  <2> QED
    BY <1>2, <1>3, <2>1, Drawn
<1>7. UNCHANGED <<jobs, file, health, mishaps, edits, history>>
  BY DEF AskEdit
<1> HIDE DEF row
<1> QED
  BY <1>1, <1>5, <1>6, <1>7, Idles, Drafts

LEMMA Guards ==
  ASSUME NEW g \in Tag, NEW x \in Value, NEW y \in Value, x # y, file \in [Tag -> Value]
  PROVE  /\ Guarded(g, x, y) \in Entry
         /\ Guarded(g, x, y).outcome \in {"pending", "conflict", "unavailable", "failed"}
         /\ Guarded(g, x, y).outcome = "pending" =>
              Guarded(g, x, y).from # Guarded(g, x, y).to
<1> DEFINE f == IF health[g[1]] = "ok" THEN file[g] ELSE x
           o == CASE health[g[1]] = "gone" -> "unavailable"
                  [] health[g[1]] = "bad" -> "failed"
                  [] OTHER -> IF file[g] = x THEN "pending" ELSE "conflict"
<1>1. Guarded(g, x, y) = [from |-> f, to |-> y, outcome |-> o]
  BY DEF Guarded
<1>2. f \in Value
  OBVIOUS
<1>3. o \in {"pending", "conflict", "unavailable", "failed"} /\ (o = "pending" => f # y)
  <2>1. CASE health[g[1]] = "gone"
    BY <2>1
  <2>2. CASE health[g[1]] = "bad"
    BY <2>2
  <2>3. CASE health[g[1]] # "gone" /\ health[g[1]] # "bad"
    BY <2>3
  <2> QED
    BY <2>1, <2>2, <2>3
<1> HIDE DEF f, o
<1> QED
  BY <1>1, <1>2, <1>3 DEF Entry, Outcome, Uncertain

LEMMA AskedApply ==
  ASSUME Inv, NEW r \in Runner, NEW p \in Plan, NEW c \in Scan, AskApply(r, p, c)
  PROVE  Inv'
<1> DEFINE e == [g \in Tag |-> IF g \in p.tags THEN Guarded(g, p.from, p.to) ELSE NoEntry]
           row == NewRow("doctor_apply", 0, c, e)
<1>1. At(r, "idle") /\ MayWrite /\ ~At(r, "run")
  BY DEF AskApply, At
<1>2. ASSUME NEW g \in Tag
      PROVE  /\ e[g] \in Entry
             /\ e[g].outcome \in {"none", "pending", "conflict", "unavailable", "failed"}
             /\ e[g].outcome = "pending" => e[g].from # e[g].to
  <2>1. CASE g \in p.tags
    BY <2>1, Plans, Idles, Guards
  <2>2. CASE g \notin p.tags
    BY <2>2, Unmarked
  <2> QED
    BY <2>1, <2>2
<1>3. e \in [Tag -> Entry]
  BY <1>2
<1> HIDE DEF e
<1>4. [NoRow EXCEPT !.kind = "doctor_apply", !.scan = c, !.state = "prepared",
                    !.entry = e] = row
  BY FreshApply
<1>5. runner' = [runner EXCEPT ![r] = Drafting(runner[r], runner[r].undo, row)]
  <2>1. runner' = [runner EXCEPT ![r] = [runner[r] EXCEPT !.at = "insert", !.draft = row]]
    BY <1>4 DEF AskApply, e
  <2>2. [runner[r] EXCEPT !.at = "insert", !.draft = row]
          = Drafting(runner[r], runner[r].undo, row)
    BY Idles DEF Drafting, Doing
  <2> QED
    BY <2>1, <2>2
<1>6. row \in Row /\ Drafted(row)
  <2>1. 0 \in 0..MaxJob /\ c \in Scan \cup {0}
    BY TagBounds
  <2> QED
    BY <1>2, <1>3, <2>1, Drawn
<1>7. UNCHANGED <<jobs, file, health, mishaps, edits, history>>
  BY DEF AskApply
<1> HIDE DEF row
<1> QED
  BY <1>1, <1>5, <1>6, <1>7, Idles, Drafts

LEMMA DraftedUndo ==
  ASSUME Inv, NEW r \in Runner, NEW j \in JobId, DraftUndo(r, j)
  PROVE  Inv'
<1> DEFINE w == runner[r]
           undo == [w.undo EXCEPT ![j] = {}]
           e == [g \in Tag |-> IF g \in w.undo[j]
                  THEN Guarded(g, jobs[j].entry[g].to, jobs[j].entry[g].from) ELSE NoEntry]
           row == NewRow("doctor_revert", j, jobs[j].scan, e)
<1>1. At(r, "undo") /\ ~Quiet(r) /\ ~At(r, "run") /\ w.undo[j] # {}
  BY DEF DraftUndo, At, Quiet
<1>2. /\ w \in Doing /\ w.undo \in [JobId -> SUBSET Tag] /\ Undoing(w.undo)
      /\ file \in [Tag -> Value] /\ jobs[j] \in Row
  BY Idles DEF RowsOK
<1>3. jobs[j].kind = "doctor_apply"
  BY <1>1, <1>2 DEF Undoing
<1>4. ASSUME NEW g \in Tag
      PROVE  /\ e[g] \in Entry
             /\ e[g].outcome \in {"none", "pending", "conflict", "unavailable", "failed"}
             /\ e[g].outcome = "pending" => e[g].from # e[g].to
  <2>1. CASE g \in w.undo[j]
    <3>1. jobs[j].entry[g].from # jobs[j].entry[g].to
      BY <1>2, <2>1 DEF Undoing
    <3>2. jobs[j].entry[g].from \in Value /\ jobs[j].entry[g].to \in Value
      BY <1>2 DEF Row, Entry
    <3> QED
      BY <1>2, <2>1, <3>1, <3>2, Guards
  <2>2. CASE g \notin w.undo[j]
    BY <2>2, Unmarked
  <2> QED
    BY <2>1, <2>2
<1>5. e \in [Tag -> Entry]
  BY <1>4
<1>6. undo \in [JobId -> SUBSET Tag] /\ Undoing(undo)
  BY <1>2 DEF Undoing
<1> HIDE DEF e
<1>7. [NoRow EXCEPT !.kind = "doctor_revert", !.source = j, !.scan = jobs[j].scan,
                    !.state = "prepared", !.entry = e] = row
  BY FreshUndo
<1>8. runner' = [runner EXCEPT ![r] = Drafting(w, undo, row)]
  <2> DEFINE drawn == [NoRow EXCEPT !.kind = "doctor_revert", !.source = j,
                          !.scan = jobs[j].scan, !.state = "prepared", !.entry = e]
  <2>0. runner' = [runner EXCEPT ![r].at = "insert", ![r].undo[j] = {}, ![r].draft = drawn]
    BY DEF DraftUndo, e
  <2>1. runner' = [runner EXCEPT ![r] =
                    [w EXCEPT !.at = "insert", !.undo[j] = {}, !.draft = row]]
    <3> drawn = row
      BY <1>7
    <3> HIDE DEF drawn, row
    <3> QED
      BY <2>0
  <2> HIDE DEF row
  <2>2. [w EXCEPT !.at = "insert", !.undo[j] = {}, !.draft = row] = Drafting(w, undo, row)
    BY <1>2 DEF Drafting, Doing
  <2> QED
    BY <2>1, <2>2
<1>9. row \in Row /\ Drafted(row)
  <2>1. j \in 0..MaxJob /\ jobs[j].scan \in Scan \cup {0}
    BY <1>2 DEF JobId, Row
  <2> QED
    BY <1>3, <1>4, <1>5, <2>1, Drawn
<1>10. UNCHANGED <<jobs, file, health, mishaps, edits, history>>
  BY DEF DraftUndo
<1> HIDE DEF row, undo
<1> QED
  BY <1>1, <1>6, <1>8, <1>9, <1>10, Drafts

LEMMA AskedUndo ==
  ASSUME Inv, NEW r \in Runner, AskUndo(r)
  PROVE  Inv'
<1> DEFINE undo == [j \in JobId |-> IF j \in LastCleanup THEN Has(j, {"applied"}) ELSE {}]
           d == [runner[r] EXCEPT !.at = "undo", !.undo = undo]
<1>1. At(r, "idle") /\ MayWrite /\ runner' = [runner EXCEPT ![r] = d]
      /\ UNCHANGED <<jobs, file, health, mishaps, edits, history>>
  BY DEF AskUndo
<1>2. undo \in [JobId -> SUBSET Tag] /\ Undoing(undo)
  <2>1. undo \in [JobId -> SUBSET Tag]
    BY DEF Has
  <2>2. ASSUME NEW j \in JobId, NEW g \in undo[j]
        PROVE  jobs[j].kind = "doctor_apply" /\ jobs[j].entry[g].from # jobs[j].entry[g].to
    <3>1. j \in LastCleanup /\ g \in Tag /\ Outcomes(j, g) = "applied"
      BY <2>2 DEF Has, Outcomes
    <3> QED
      BY <3>1 DEF LastCleanup, Eligible, Inv, Journal
  <2> QED
    BY <2>1, <2>2 DEF Undoing
<1> HIDE DEF undo
<1>3. d \in Doing /\ d.at = "undo" /\ d.undo = undo /\ d.got = runner[r].got
  BY <1>2, Idles DEF Doing, Stops
<1>4. Sound(d)
  BY <1>1, <1>2, <1>3, Idles DEF Sound, At
<1>5. mishaps' \in 0..MaxMishaps
  BY <1>1, Mishaps
<1> HIDE DEF d
<1> QED
  BY <1>1, <1>3, <1>4, <1>5, MoveKeeps

\* A runner puts its row into the slot and goes on to run it.
LEMMA Inserted ==
  ASSUME Inv, NEW r \in Runner, NEW j \in JobId, Insert(r, j)
  PROVE  Inv'
<1> DEFINE row == runner[r].draft
           d == [runner[r] EXCEPT !.at = "run", !.job = j, !.draft = NoRow]
<1>1. /\ At(r, "insert") /\ ~Quiet(r) /\ ~Occupied /\ NoJob(j)
      /\ jobs' = [jobs EXCEPT ![j] = row] /\ runner' = [runner EXCEPT ![r] = d]
      /\ touched' = [touched EXCEPT ![j] = {g \in Tag : file[g] # row.entry[g].from}]
      /\ UNCHANGED <<file, health, mishaps, edits, wrote>>
  BY DEF Insert, SlotFree, NextJob, At, Quiet
<1>2. /\ runner[r] \in Doing /\ Sound(runner[r]) /\ row \in Row /\ Drafted(row)
      /\ Undoing(runner[r].undo) /\ runner[r].got = Nothing
  BY <1>1, Idles DEF Doing, Sound, At
<1>3. /\ d \in Doing /\ d.at = "run" /\ d.job = j /\ d.undo = runner[r].undo
      /\ d.got = Nothing
  <2>1. j \in 0..MaxJob /\ NoRow \in Row
    BY NoRows DEF JobId
  <2>2. d \in Doing
    BY <1>2, <2>1 DEF Doing, Stops
  <2>3. d.at = "run" /\ d.job = j /\ d.undo = runner[r].undo /\ d.got = runner[r].got
    BY <1>2 DEF Doing
  <2> QED
    BY <1>2, <2>2, <2>3
<1> HIDE DEF d
<1>4. RunnersOK' /\ Moved(r, d)
  BY <1>1, <1>3, Move DEF Inv, Types
<1> HIDE DEF row
<1>5. RowsOK' /\ jobs'[j] = row /\ \A i \in JobId \ {j} : jobs'[i] = jobs[i]
  BY <1>1, <1>2 DEF Inv, Types, RowsOK
<1>6. /\ touched' \in [JobId -> SUBSET Tag]
      /\ touched'[j] = {g \in Tag : file[g] # row.entry[g].from}
      /\ \A i \in JobId \ {j} : touched'[i] = touched[i]
  BY <1>1 DEF Inv, Types, FilesOK
<1>7. Types'
  BY <1>1, <1>4, <1>5, <1>6 DEF Inv, Types, FilesOK
<1>8. jobs[j].kind = "none" /\ wrote[j] = {} /\ \A g \in Tag : Outcomes(j, g) = "none"
  BY <1>1 DEF Inv, Journal
<1>9. \A i \in JobId : jobs[i].kind = "doctor_revert" => jobs[i].source # j
  BY <1>8 DEF Inv, Journal
<1>10. \A i \in JobId : jobs[i].kind = "doctor_apply" => jobs'[i].kind = "doctor_apply"
  BY <1>5, <1>8
<1>11. \A g \in Tag :
         /\ Outcomes(j, g)' \in {"none", "pending", "conflict", "unavailable", "failed"}
         /\ Outcomes(j, g)' = "pending" => jobs'[j].entry[g].from # jobs'[j].entry[g].to
  BY <1>2, <1>5 DEF Drafted, Outcomes
<1>12. Journal'
  <2> SUFFICES ASSUME NEW i \in JobId
               PROVE  /\ jobs'[i].kind = "doctor_revert" =>
                           jobs'[i].source \in JobId /\ jobs'[jobs'[i].source].kind = "doctor_apply"
                      /\ NoJob(i)' => /\ jobs'[i].kind = "none" /\ wrote'[i] = {}
                                      /\ \A g \in Tag : Outcomes(i, g)' = "none"
                      /\ \A g \in Tag :
                         /\ Outcomes(i, g)' \in {"pending", "prepared", "applied"} =>
                              jobs'[i].entry[g].from # jobs'[i].entry[g].to
                         /\ Outcomes(i, g)' = "pending" => g \notin wrote'[i]
                         /\ Outcomes(i, g)' \in Uncertain /\ g \notin touched'[i] =>
                               file'[g] = IF g \in wrote'[i] THEN jobs'[i].entry[g].to
                                         ELSE jobs'[i].entry[g].from
                         /\ health'[g[1]] # "ok" /\ g \in wrote'[i] => g \in touched'[i]
    BY DEF Journal
  <2>1. CASE i = j
    <3>1. row.kind = "doctor_revert" => row.source \in JobId /\ jobs[row.source].kind = "doctor_apply"
      BY <1>2 DEF Drafted
    <3>2. row.state = "prepared"
      BY <1>2 DEF Drafted
    <3> QED
      BY <2>1, <3>1, <3>2, <1>1, <1>5, <1>6, <1>8, <1>10, <1>11 DEF NoJob
  <2>2. CASE i # j
    <3>1. jobs'[i] = jobs[i] /\ wrote'[i] = wrote[i] /\ touched'[i] = touched[i]
          /\ file' = file /\ health' = health
      BY <2>2, <1>1, <1>5, <1>6
    <3>2. \A g \in Tag : Outcomes(i, g)' = Outcomes(i, g)
      BY <3>1 DEF Outcomes
    <3>3. NoJob(i)' <=> NoJob(i)
      BY <3>1 DEF NoJob
    <3>4. jobs[i].kind = "doctor_revert" =>
            jobs[i].source \in JobId /\ jobs[jobs[i].source].kind = "doctor_apply"
      BY DEF Inv, Journal
    <3> QED
      BY <3>1, <3>2, <3>3, <3>4, <1>10 DEF Inv, Journal
  <2> QED
    BY <2>1, <2>2
<1>13. WritesRecorded'
  <2> SUFFICES ASSUME NEW i \in JobId, NEW g \in Tag,
                      Outcomes(i, g)' \in Outcome \ Uncertain, g \notin touched'[i]
               PROVE  Outcomes(i, g)' \in {"applied", "reverted"} <=> g \in wrote'[i]
    BY DEF WritesRecorded, Has, Outcomes
  <2>1. CASE i = j
    BY <2>1, <1>1, <1>8, <1>11
  <2>2. CASE i # j
    BY <2>2, <1>1, <1>5, <1>6 DEF Inv, WritesRecorded, Has, Outcomes
  <2> QED
    BY <2>1, <2>2
<1>14. UndoneOnce'
  <2>1. ASSUME NEW k \in JobId, NEW i \in JobId, NEW g \in Tag
        PROVE  Undoes(k, i, g)' <=> Undoes(k, i, g)
    <3>1. CASE k = j
      BY <3>1, <1>5, <1>8, <1>11 DEF Undoes, Has, Outcomes
    <3>2. CASE k # j
      BY <3>2, <1>5 DEF Undoes, Has
    <3> QED
      BY <3>1, <3>2
  <2>2. ASSUME NEW i \in JobId, NEW g \in Tag
        PROVE  Outcomes(i, g)' = "reverted" <=> Outcomes(i, g) = "reverted"
    <3>1. CASE i = j
      BY <3>1, <1>8, <1>11
    <3>2. CASE i # j
      BY <3>2, <1>5 DEF Outcomes
    <3> QED
      BY <3>1, <3>2
  <2>3. \A i \in JobId, g \in Tag :
          /\ \A k, l \in JobId : Undoes(k, i, g) /\ Undoes(l, i, g) => k = l
          /\ (\E k \in JobId : Undoes(k, i, g)) <=> Outcomes(i, g) = "reverted"
    BY DEF Inv, UndoneOnce, Has, Outcomes
  <2> SUFFICES ASSUME NEW i \in JobId, NEW g \in Tag
               PROVE  /\ \A k, l \in JobId : Undoes(k, i, g)' /\ Undoes(l, i, g)' => k = l
                      /\ (\E k \in JobId : Undoes(k, i, g)') <=> Outcomes(i, g)' = "reverted"
    BY DEF UndoneOnce, Has, Outcomes
  <2> QED
    BY <2>1, <2>2, <2>3
<1>15. \A q \in Runner : ~At(q, "run") /\ (q # r => ~At(q, "recover"))
  BY <1>1 DEF Inv, SlotHeld, Alone, Occupied, Quiet, At, Types, RunnersOK
<1>16. Runners'
  <2> SUFFICES ASSUME NEW q \in Runner PROVE RunnerOK(q)'
    BY DEF Runners
  <2>1. ASSUME NEW undo \in [JobId -> SUBSET Tag], Undoing(undo)
        PROVE  \A i \in JobId : \A g \in undo[i] :
                 /\ jobs'[i].kind = "doctor_apply"
                 /\ jobs'[i].entry[g].from # jobs'[i].entry[g].to
    BY <2>1, <1>5, <1>8 DEF Undoing
  <2>2. CASE q = r
    <3> SUFFICES ASSUME NEW w \in Doing, w = d PROVE RunnerOK(q)'
      BY <1>3
    <3>1. runner'[q] = w /\ w.at = "run" /\ w.job = j /\ w.got = Nothing
      BY <2>2, <1>3, <1>4 DEF Moved
    <3>2. w.undo \in [JobId -> SUBSET Tag] /\ Undoing(w.undo)
      BY <1>2, <1>3, Idles
    <3>3. Undoing(w.undo)'
      BY <2>1, <3>2 DEF Undoing
    <3>4. Progress(j, w.got)'
      BY <3>1, <1>11, Nothings DEF Progress
    <3> QED
      BY <3>1, <3>3, <3>4 DEF RunnerOK, Sound
  <2>3. CASE q # r
    <3> SUFFICES ASSUME NEW w \in Doing, w = runner[q] PROVE RunnerOK(q)'
      BY Idles
    <3>1. runner'[q] = w /\ w.at # "run" /\ w.at # "recover"
      BY <2>3, <1>4, <1>15 DEF Moved, At
    <3>2. Sound(w) /\ w.undo \in [JobId -> SUBSET Tag]
      BY Idles
    <3>3. Undoing(w.undo)'
      BY <2>1, <3>2 DEF Undoing, Sound
    <3>4. w.at = "insert" => Drafted(w.draft)'
      BY <1>10, <3>2 DEF Drafted, Sound
    <3> QED
      BY <3>1, <3>2, <3>3, <3>4 DEF RunnerOK, Sound
  <2> QED
    BY <2>2, <2>3
<1>17. Alone'
  BY <1>1, <1>3, <1>4 DEF Moved, Inv, Alone, Quiet, At
<1>18. SlotHeld'
  <2>1. Active(j)'
    BY <1>2, <1>5 DEF Active, Drafted
  <2>2. \A i \in JobId \ {j} : ~Active(i)'
    BY <1>1, <1>5 DEF Active, Occupied
  <2>3. \A q \in Runner : At(q, "run")' => q = r /\ Job(q)' = j
    BY <1>3, <1>4, <1>15 DEF At, Job, Moved
  <2> QED
    BY <2>1, <2>2, <2>3 DEF SlotHeld
<1> QED
  BY <1>7, <1>12, <1>13, <1>14, <1>16, <1>17, <1>18 DEF Inv

\* A runner that learns what came of a file.
LEMMA Learns ==
  ASSUME Inv, NEW r \in Runner, At(r, "run"), NEW got \in [Tag -> Result],
         Progress(Job(r), got), runner' = [runner EXCEPT ![r].got = got],
         UNCHANGED <<jobs, file, health, history>>,
         mishaps' \in 0..MaxMishaps, UNCHANGED edits
  PROVE  Inv'
<1> DEFINE d == [runner[r] EXCEPT !.got = got]
<1>1. /\ d \in Doing /\ d.at = "run" /\ d.job = Job(r) /\ d.got = got
      /\ d.undo = runner[r].undo /\ Job(r) \in JobId
  BY Running DEF Doing, Job, At
<1>2. runner' = [runner EXCEPT ![r] = d]
  OBVIOUS
<1>3. Sound(d)
  BY <1>1, Running DEF Sound
<1> HIDE DEF d
<1>4. RunnersOK' /\ Moved(r, d)
  BY <1>1, <1>2, Move DEF Inv, Types
<1>5. Types'
  BY <1>4, JournalStays DEF Inv, Types, FilesOK, history
<1>6. Runners'
  <2> SUFFICES ASSUME NEW q \in Runner PROVE RunnerOK(q)'
    BY DEF Runners
  <2>1. CASE q = r
    BY <1>3, <1>4, <2>1, RunnerMoves DEF Moved
  <2>2. CASE q # r
    BY <1>4, <2>2, RunnerStays DEF Moved, Inv, Runners
  <2> QED
    BY <2>1, <2>2
<1>7. \A q \in Runner : \A stop : (At(q, stop)' <=> At(q, stop)) /\ Job(q)' = Job(q)
  BY <1>1, <1>4 DEF At, Job, Moved
<1>8. Alone'
  BY <1>7 DEF Inv, Alone, Quiet
<1>9. SlotHeld'
  BY <1>7 DEF Inv, SlotHeld, Active
<1> QED
  BY <1>5, <1>6, <1>8, <1>9, JournalStays DEF Inv

LEMMA FailsToWrite ==
  ASSUME Inv, NEW r \in Runner, NEW t \in Track, WriteFails(r, t)
  PROVE  Inv'
<1> DEFINE tags == Unwritten(r) \cap Of(t)
           end == [g \in Tag |->
             IF Doctoring(r) /\ health[t] = "gone" THEN "unavailable" ELSE "failed"]
           got == [g \in Tag |-> IF g \in tags THEN end[g] ELSE runner[r].got[g]]
<1>1. At(r, "run") /\ runner' = [runner EXCEPT ![r].got = got]
      /\ UNCHANGED <<jobs, file, health, edits, history>>
  BY DEF WriteFails, Ended
<1>2. mishaps' \in 0..MaxMishaps
  BY Mishaps DEF WriteFails
<1>3. runner[r].got \in [Tag -> Result] /\ Progress(Job(r), runner[r].got)
  BY <1>1, Running DEF Doing
<1>4. \A g \in tags : runner[r].got[g] = "none" /\ Outcomes(Job(r), g) = "prepared"
  BY DEF Unwritten, Prepared, Got, Has, Outcomes
<1> HIDE DEF tags
<1>5. got \in [Tag -> Result]
  BY <1>3 DEF Result
<1>6. Progress(Job(r), got)
  BY <1>3, <1>4 DEF Progress
<1> HIDE DEF got
<1> QED
  BY <1>1, <1>2, <1>5, <1>6, Learns

LEMMA Drops ==
  ASSUME Inv, NEW r \in Runner, EditDrops(r)
  PROVE  Inv'
<1> DEFINE due == IF Unclaimed(r) # {} THEN Unclaimed(r) ELSE Unrecorded(r)
           tags == due \cap Of(First(due))
           end == [g \in Tag |-> "dropped"]
           got == [g \in Tag |-> IF g \in tags THEN end[g] ELSE runner[r].got[g]]
<1>1. At(r, "run") /\ runner' = [runner EXCEPT ![r].got = got]
      /\ UNCHANGED <<jobs, file, health, edits, history>>
  BY DEF EditDrops, Ended, Editing
<1>2. mishaps' \in 0..MaxMishaps
  BY Mishaps DEF EditDrops
<1>3. runner[r].got \in [Tag -> Result] /\ Progress(Job(r), runner[r].got)
  BY <1>1, Running DEF Doing
<1> HIDE DEF tags
<1>4. got \in [Tag -> Result] /\ Progress(Job(r), got)
  BY <1>3 DEF Result, Progress
<1> HIDE DEF got
<1> QED
  BY <1>1, <1>2, <1>4, Learns

\* Another hand changes files.
LEMMA Hands ==
  ASSUME Inv, UNCHANGED <<jobs, runner, mishaps, wrote>>,
         file' \in [Tag -> Value], health' \in [Track -> {"ok", "gone", "bad"}],
         edits' \in 0..MaxEdits, touched' \in [JobId -> SUBSET Tag],
         \A i \in JobId : touched[i] \subseteq touched'[i],
         Journal'
  PROVE  Inv'
<1>1. Types'
  BY DEF Inv, Types, RowsOK, RunnersOK, FilesOK, At, Job
<1>2. ASSUME NEW q \in Runner
      PROVE  RunnerOK(q)'
  <2> SUFFICES ASSUME NEW w \in Doing, w = runner[q] PROVE Sound(w)'
    BY Idles DEF RunnerOK
  <2>1. Sound(w)
    BY Idles
  <2>2. Drafted(w.draft)' <=> Drafted(w.draft)
    BY DEF Drafted
  <2>3. Undoing(w.undo)' <=> Undoing(w.undo)
    BY DEF Undoing
  <2>4. Judged(w.found) => Judged(w.found)'
    BY DEF Judged, Outcomes
  <2>5. Progress(w.job, w.got)' <=> Progress(w.job, w.got)
    BY DEF Progress, Outcomes
  <2> QED
    BY <2>1, <2>2, <2>3, <2>4, <2>5 DEF Sound
<1>3. Alone' /\ SlotHeld'
  BY DEF Inv, Alone, SlotHeld, Quiet, At, Job, Active
<1>4. WritesRecorded' /\ UndoneOnce'
  BY DEF Inv, WritesRecorded, UndoneOnce, Undoes, Has
<1> QED
  BY <1>1, <1>2, <1>3, <1>4 DEF Inv, Runners

LEMMA Touching ==
  ASSUME Inv, NEW tags \in SUBSET Tag, NEW j \in JobId, Touch(tags, j)
  PROVE  /\ touched' \in [JobId -> SUBSET Tag] /\ touched'[j] = touched[j]
         /\ \A i \in JobId : touched[i] \subseteq touched'[i]
         /\ \A i \in JobId : i # j /\ ~NoJob(i) => touched'[i] = touched[i] \cup tags
<1>1. touched \in [JobId -> SUBSET Tag]
  BY DEF Inv, Types, FilesOK
<1> QED
  BY <1>1 DEF Touch

LEMMA TouchingAll ==
  ASSUME Inv, NEW tags \in SUBSET Tag, Touch(tags, 0)
  PROVE  /\ touched' \in [JobId -> SUBSET Tag]
         /\ \A i \in JobId : touched[i] \subseteq touched'[i]
         /\ \A i \in JobId : ~NoJob(i) => touched'[i] = touched[i] \cup tags
<1>1. touched \in [JobId -> SUBSET Tag]
  BY DEF Inv, Types, FilesOK
<1>2. \A i \in JobId : i # 0
  BY DEF JobId
<1> QED
  BY <1>1, <1>2 DEF Touch

\* The journal where a file has changed: whatever changed is in every job's hands.
LEMMA JournalTouched ==
  ASSUME Inv, UNCHANGED <<jobs, wrote>>,
         \A i \in JobId : touched[i] \subseteq touched'[i],
         \A i \in JobId, g \in Tag : ~NoJob(i) /\ g \notin touched'[i] =>
           file'[g] = file[g] /\ health'[g[1]] = health[g[1]]
  PROVE  Journal'
<1> SUFFICES ASSUME NEW i \in JobId
             PROVE  /\ jobs[i].kind = "doctor_revert" =>
                         jobs[i].source \in JobId /\ jobs[jobs[i].source].kind = "doctor_apply"
                    /\ NoJob(i) => /\ jobs[i].kind = "none" /\ wrote[i] = {}
                                   /\ \A g \in Tag : Outcomes(i, g) = "none"
                    /\ \A g \in Tag :
                       /\ Outcomes(i, g) \in {"pending", "prepared", "applied"} =>
                            jobs[i].entry[g].from # jobs[i].entry[g].to
                       /\ Outcomes(i, g) = "pending" => g \notin wrote[i]
                       /\ Outcomes(i, g) \in Uncertain /\ g \notin touched'[i] =>
                             file'[g] = IF g \in wrote[i] THEN jobs[i].entry[g].to
                                       ELSE jobs[i].entry[g].from
                       /\ health'[g[1]] # "ok" /\ g \in wrote[i] => g \in touched'[i]
  BY DEF Journal, Outcomes, NoJob
<1>1. NoJob(i) => wrote[i] = {} /\ \A g \in Tag : Outcomes(i, g) \notin Uncertain
  BY DEF Inv, Journal, Uncertain
<1> QED
  BY <1>1 DEF Inv, Journal

LEMMA EditedElsewhere ==
  ASSUME Inv, NEW g \in Tag, NEW v \in Value, EditElsewhere(g, v)
  PROVE  Inv'
<1>1. /\ file' = [file EXCEPT ![g] = v] /\ Touch({g}, 0)
      /\ UNCHANGED <<jobs, health, runner, mishaps, wrote>> /\ edits' \in 0..MaxEdits
  BY Mishaps DEF EditElsewhere
<1>2. file \in [Tag -> Value] /\ health \in [Track -> {"ok", "gone", "bad"}]
  BY DEF Inv, Types, FilesOK
<1>3. file' \in [Tag -> Value] /\ \A f \in Tag : f # g => file'[f] = file[f]
  BY <1>1, <1>2
<1>4. {g} \in SUBSET Tag
  OBVIOUS
<1>5. /\ touched' \in [JobId -> SUBSET Tag]
      /\ \A i \in JobId : touched[i] \subseteq touched'[i]
      /\ \A i \in JobId : ~NoJob(i) => touched'[i] = touched[i] \cup {g}
  <2>1. PICK tags \in SUBSET Tag : tags = {g}
    BY <1>4
  <2>2. Touch(tags, 0)
    BY <1>1, <2>1
  <2>3. /\ touched' \in [JobId -> SUBSET Tag]
        /\ \A i \in JobId : touched[i] \subseteq touched'[i]
        /\ \A i \in JobId : ~NoJob(i) => touched'[i] = touched[i] \cup tags
    BY <2>2, TouchingAll
  <2> QED
    BY <2>1, <2>3
<1>6. Journal'
  BY <1>1, <1>3, <1>5, JournalTouched
<1> QED
  BY <1>1, <1>2, <1>3, <1>5, <1>6, Hands

LEMMA Troubled ==
  ASSUME Inv, NEW t \in Track, NEW h \in {"ok", "gone", "bad"}, Trouble(t, h)
  PROVE  Inv'
<1>1. /\ health' = [health EXCEPT ![t] = h] /\ Touch(Of(t), 0)
      /\ UNCHANGED <<jobs, file, runner, mishaps, wrote>> /\ edits' \in 0..MaxEdits
  BY Mishaps DEF Trouble
<1>2. file \in [Tag -> Value] /\ health \in [Track -> {"ok", "gone", "bad"}]
  BY DEF Inv, Types, FilesOK
<1>3. /\ health' \in [Track -> {"ok", "gone", "bad"}]
      /\ \A u \in Track : u # t => health'[u] = health[u]
  BY <1>1, <1>2
<1>4. /\ Of(t) \in SUBSET Tag
      /\ \A g \in Tag : g[1] \in Track /\ (g[1] = t => g \in Of(t))
  BY DEF Of, Track
<1>5. /\ touched' \in [JobId -> SUBSET Tag]
      /\ \A i \in JobId : touched[i] \subseteq touched'[i]
      /\ \A i \in JobId : ~NoJob(i) => touched'[i] = touched[i] \cup Of(t)
  BY <1>1, <1>4, TouchingAll
<1>6. \A i \in JobId, g \in Tag : ~NoJob(i) /\ g \notin touched'[i] =>
        file'[g] = file[g] /\ health'[g[1]] = health[g[1]]
  BY <1>1, <1>3, <1>4, <1>5
<1>7. Journal'
  BY <1>1, <1>5, <1>6, JournalTouched
<1> QED
  BY <1>1, <1>2, <1>3, <1>5, <1>7, Hands

-----------------------------------------------------------------------------
(* Recovery.                                                               *)

\* What a recovery reads off a file no other hand has had is what happened.
LEMMA Reads ==
  ASSUME Inv, NEW j \in JobId, NEW g \in Tag, Outcomes(j, g) \in Uncertain
  PROVE  /\ Read(j, g) \in Verdict
         /\ g \notin touched[j] => (Read(j, g) = "applied" <=> g \in wrote[j])
<1> DEFINE none == Of(g[1]) \cap Has(j, {"prepared"}) = {}
           e == jobs[j].entry[g]
<1>1. none => Outcomes(j, g) = "pending"
  BY DEF Of, Has, Outcomes, Uncertain
<1>2. /\ Outcomes(j, g) = "pending" => g \notin wrote[j]
      /\ e.from # e.to
      /\ g \notin touched[j] => file[g] = IF g \in wrote[j] THEN e.to ELSE e.from
      /\ health[g[1]] # "ok" /\ g \in wrote[j] => g \in touched[j]
  BY DEF Inv, Journal, Uncertain
<1>3. Read(j, g) =
        IF none THEN "not_applied"
        ELSE CASE health[g[1]] = "gone" -> "unavailable"
               [] health[g[1]] = "bad" -> "failed"
               [] OTHER -> IF file[g] = e.to THEN "applied"
                           ELSE IF file[g] = e.from THEN "not_applied" ELSE "conflict"
  BY DEF Read
<1> HIDE DEF none, e
<1>4. CASE none
  BY <1>1, <1>2, <1>3, <1>4 DEF Verdict
<1>5. CASE ~none /\ health[g[1]] = "gone"
  BY <1>2, <1>3, <1>5 DEF Verdict
<1>6. CASE ~none /\ health[g[1]] = "bad"
  BY <1>2, <1>3, <1>6 DEF Verdict
<1>7. CASE ~none /\ health[g[1]] # "gone" /\ health[g[1]] # "bad"
  BY <1>2, <1>3, <1>7 DEF Verdict
<1> QED
  BY <1>4, <1>5, <1>6, <1>7

LEMMA Findings ==
  ASSUME Inv
  PROVE  Recovering \in Doing /\ Recovering.at = "recover" /\ Sound(Recovering)
<1>1. \A j \in JobId, g \in Tag : Found[j][g] # "none" =>
        Outcomes(j, g) \in Uncertain /\ Found[j][g] = Read(j, g)
  BY DEF Found, Has, Outcomes
<1>2. \A j \in JobId, g \in Tag : Found[j][g] \in Outcome \cup {"none"}
  BY <1>1, Reads DEF Verdict, Outcome
<1>3. Found \in [JobId -> [Tag -> Outcome \cup {"none"}]]
  <2>1. Found = [j \in JobId |-> [g \in Tag |-> Found[j][g]]]
    BY DEF Found
  <2> QED
    BY <1>2, <2>1
<1>4. Judged(Found)
  BY <1>1, Reads DEF Judged
<1>5. /\ Doer("recover") \in Doing /\ Doer("recover").at = "recover"
      /\ Doer("recover").got = Nothing /\ \A j \in JobId : Doer("recover").undo[j] = {}
  BY Doers DEF Stops
<1>6. /\ Recovering \in Doing /\ Recovering.at = "recover" /\ Recovering.found = Found
      /\ Recovering.got = Nothing /\ Recovering.undo = Doer("recover").undo
  <2> HIDE DEF Found
  <2> QED
    BY <1>3, <1>5 DEF Recovering, Doing
<1> QED
  BY <1>4, <1>5, <1>6 DEF Sound, Undoing

LEMMA Recovers ==
  ASSUME Inv, NEW r \in Runner, Restart(r) \/ Watch(r)
  PROVE  Inv'
<1>1. mishaps' \in 0..MaxMishaps /\ UNCHANGED <<jobs, file, health, edits, history>>
  BY Mishaps DEF Restart, Watch
<1>2. CASE runner' = [runner EXCEPT ![r] = Doer("idle")]
  BY <1>1, <1>2, Leaves
<1>3. CASE runner' = [runner EXCEPT ![r] = Recovering] /\ MayRecover
  BY <1>1, <1>3, Findings, MoveKeeps DEF MayRecover, MayWrite
<1> QED
  BY <1>2, <1>3 DEF Restart, Watch

LEMMA RecoveredJob ==
  ASSUME Inv, NEW r \in Runner, NEW j \in JobId, RecoverJob(r, j)
  PROVE  Inv'
<1> SUFFICES ASSUME NEW new, new = runner[r].found[j]
             PROVE  Inv'
  OBVIOUS
<1>1. /\ At(r, "recover") /\ new # Nothing
      /\ UNCHANGED <<file, health, mishaps, edits, history>>
  BY DEF RecoverJob
<1>2. /\ runner[r] \in Doing /\ Sound(runner[r])
      /\ runner[r].found \in [JobId -> [Tag -> Outcome \cup {"none"}]]
      /\ Judged(runner[r].found) /\ jobs[j] \in Row /\ RowsOK
  BY <1>1, Idles DEF Sound, At, Doing, RowsOK
<1>3. CASE ~Undoable(j, new)
  <2>1. UNCHANGED jobs /\ runner' = [runner EXCEPT ![r] = Doer("idle")]
    BY <1>3 DEF RecoverJob
  <2>2. mishaps' \in 0..MaxMishaps
    BY <1>1, Mishaps
  <2> QED
    BY <1>1, <2>1, <2>2, Leaves
<1>4. CASE Undoable(j, new)
  <2>1. /\ new \in Marks
        /\ \A g \in Tag : new[g] # "none" =>
             /\ Outcomes(j, g) \in Uncertain /\ new[g] \in Verdict
             /\ g \notin touched[j] => (new[g] = "applied" <=> g \in wrote[j])
    BY <1>2 DEF Marks, Judged
  <2>2. Recordable(j, new)
    BY <1>4, <2>1 DEF Recordable, Verdict
  <2>3. ~NoJob(j)
    <3>1. PICK g \in Tag : new[g] # "none"
      BY <1>1, <2>1 DEF Nothing, Marks
    <3> QED
      BY <2>1, <3>1 DEF Inv, Journal, Uncertain
  <2>4. jobs[j].kind = "doctor_revert" => jobs[j].source # j
    BY DEF Inv, Journal
  <2> DEFINE s == IF Claimed(j) THEN "interrupted" ELSE "cancelled"
             mine == Turned(Settled(jobs[j], new), s)
             d == [runner[r] EXCEPT !.found[j] = Nothing]
  <2>5. jobs' = [Undone(jobs, j, new) EXCEPT ![j] = mine]
        /\ runner' = [runner EXCEPT ![r] = d]
    <3>1. Undone(jobs, j, new)[j] = jobs[j]
      BY <1>2, <2>1, <2>4, UndoneSelf
    <3> QED
      BY <1>4, <3>1 DEF RecoverJob, Turned
  <2>6. mine \in Row /\ mine.state = s /\ mine.entry = Settled(jobs[j], new).entry
        /\ Changes(jobs[j], new, mine) /\ s \in States /\ s # "none"
    <3>1. s \in States /\ s # "none"
      BY DEF States
    <3> QED
      BY <1>2, <2>1, <3>1, Ending
  <2>7. d \in Doing /\ d.at = "recover" /\ d.got = Nothing /\ d.undo = runner[r].undo
        /\ d.found = [runner[r].found EXCEPT ![j] = Nothing] /\ Undoing(d.undo)
    <3>1. runner[r].at = "recover" /\ runner[r].got = Nothing /\ Undoing(runner[r].undo)
      BY <1>1, <1>2 DEF At, Sound
    <3>2. Nothing \in [Tag -> Outcome \cup {"none"}]
      BY Nothings DEF Marks
    <3> QED
      BY <1>2, <3>1, <3>2 DEF Doing
  <2> HIDE DEF mine, s, d
  <2>8. RowsOK' /\ Recording(j, new) /\ jobs'[j].state = s
    BY <1>2, <2>1, <2>4, <2>5, <2>6, Record DEF Changes
  <2>9. Journal' /\ WritesRecorded' /\ UndoneOnce'
    BY <1>1, <2>1, <2>2, <2>3, <2>6, <2>8, RecordRows
  <2>10. RunnersOK' /\ Moved(r, d)
    BY <2>5, <2>7, Move DEF Inv, Types
  <2>11. Types'
    BY <1>1, <2>8, <2>10 DEF Inv, Types, FilesOK, history
  <2>12. ASSUME NEW q \in Runner
         PROVE  RunnerOK(q)'
    <3>1. CASE q # r
      BY <1>1, <2>1, <2>8, <2>10, <3>1, OthersQuiet, RecordOthers
         DEF Inv, Runners, Types, RunnersOK, Moved
    <3>2. CASE q = r
      <4> SUFFICES ASSUME NEW w \in Doing, w = d PROVE RunnerOK(q)'
        BY <2>7
      <4>1. runner'[q] = w /\ w.at = "recover" /\ w.got = Nothing
        BY <2>7, <2>10, <3>2 DEF Moved
      <4>2. Undoing(w.undo)'
        BY <2>7, <2>8 DEF Recording, Kept, Undoing, Doing
      <4>3. Judged(w.found)'
        <5>1. ASSUME NEW i \in JobId, NEW g \in Tag, w.found[i][g] # "none"
              PROVE  i # j /\ w.found[i][g] = runner[r].found[i][g]
          BY <1>2, <2>7, <5>1, Nothings
        <5>2. ASSUME NEW i \in JobId, NEW g \in Tag, i # j, Outcomes(i, g) \in Uncertain
              PROVE  Outcomes(i, g)' = Outcomes(i, g)
          <6>1. ~Reverts(j, new, i, g)
            BY <1>4, <5>2 DEF Undoable, Reverts, Has, Outcomes, Uncertain
          <6> QED
            BY <2>8, <5>2, <6>1 DEF Recording
        <5>3. \A i \in JobId, g \in Tag : w.found[i][g] # "none" =>
                /\ Outcomes(i, g)' \in Uncertain /\ w.found[i][g] \in Verdict
                /\ g \notin touched[i] => (w.found[i][g] = "applied" <=> g \in wrote[i])
          BY <1>2, <5>1, <5>2 DEF Judged
        <5> QED
          BY <1>1, <5>3 DEF Judged, history
      <4> QED
        BY <4>1, <4>2, <4>3 DEF RunnerOK, Sound
    <3> QED
      BY <3>1, <3>2
  <2>13. \A q \in Runner : \A stop : At(q, stop)' <=> At(q, stop)
    BY <1>1, <2>7, <2>10 DEF At, Moved
  <2>14. Alone'
    BY <2>13 DEF Inv, Alone, Quiet
  <2>15. SlotHeld'
    <3>1. \A q \in Runner : ~At(q, "run")
      BY <1>1, OthersQuiet DEF At
    <3> QED
      BY <2>13, <3>1 DEF SlotHeld
  <2> QED
    BY <2>9, <2>11, <2>12, <2>14, <2>15 DEF Inv, Runners
<1> QED
  BY <1>3, <1>4

-----------------------------------------------------------------------------
(* Writing a file.                                                         *)

LEMMA Writes ==
  ASSUME Inv, NEW r \in Runner, NEW t \in Track, WriteFile(r, t)
  PROVE  Inv'
<1> SUFFICES ASSUME NEW j \in JobId, j = Job(r),
                    NEW tags, tags = Unwritten(r) \cap Of(t),
                    NEW put, put = Puts(r, tags),
                    NEW end, end = [g \in Tag |-> IF g \in put THEN "applied"
                                      ELSE IF Editing(r) THEN "failed" ELSE "conflict"],
                    NEW got, got = [g \in Tag |-> IF g \in tags THEN end[g]
                                                  ELSE runner[r].got[g]]
             PROVE  Inv'
  BY Running DEF WriteFile
<1> DEFINE d == [runner[r] EXCEPT !.got = got]
<1>1. /\ At(r, "run") /\ health[t] = "ok" /\ Touch(put, j)
      /\ file' = [g \in Tag |-> IF g \in put THEN jobs[j].entry[g].to ELSE file[g]]
      /\ runner' = [runner EXCEPT ![r] = d]
      /\ wrote' = [wrote EXCEPT ![j] = @ \cup put]
      /\ UNCHANGED <<jobs, health, mishaps, edits>>
  BY DEF WriteFile, Ended
<1>2. /\ jobs[j] \in Row /\ runner[r] \in Doing /\ Progress(j, runner[r].got)
      /\ Undoing(runner[r].undo)
  BY <1>1, Running
<1>3. /\ put \in SUBSET Tag /\ put \subseteq tags
      /\ \A g \in tags : /\ g \in Tag /\ g[1] = t /\ Outcomes(j, g) = "prepared"
                         /\ runner[r].got[g] = "none"
      /\ \A g \in put : file[g] = jobs[j].entry[g].from
  <2>1. \A g \in tags : /\ g \in Tag /\ g[1] = t /\ Outcomes(j, g) = "prepared"
                        /\ runner[r].got[g] = "none"
    BY DEF Unwritten, Prepared, Got, Has, Of, Outcomes
  <2>2. put \subseteq tags /\ \A g \in put : file[g] = jobs[j].entry[g].from
    BY DEF Puts, Fitting
  <2> QED
    BY <2>1, <2>2
<1>4. /\ file \in [Tag -> Value] /\ wrote \in [JobId -> SUBSET Tag]
  BY DEF Inv, Types, FilesOK
<1>5. /\ file' \in [Tag -> Value]
      /\ \A g \in Tag : file'[g] = IF g \in put THEN jobs[j].entry[g].to ELSE file[g]
  <2>1. \A g \in Tag : jobs[j].entry[g].to \in Value
    BY <1>2 DEF Row, Entry
  <2> QED
    BY <1>1, <1>4, <2>1
<1>6. /\ wrote' \in [JobId -> SUBSET Tag] /\ wrote'[j] = wrote[j] \cup put
      /\ \A i \in JobId : i # j => wrote'[i] = wrote[i]
  BY <1>1, <1>3, <1>4
<1>7. /\ touched' \in [JobId -> SUBSET Tag]
      /\ \A i \in JobId : touched[i] \subseteq touched'[i]
      /\ \A i \in JobId : i # j /\ ~NoJob(i) => touched'[i] = touched[i] \cup put
      /\ touched'[j] = touched[j]
  BY <1>1, <1>3, Touching
<1>8. /\ got \in [Tag -> Result]
      /\ \A g \in Tag : /\ g \in put => got[g] = "applied"
                        /\ g \in tags \ put => got[g] \in {"failed", "conflict"}
                        /\ g \notin tags => got[g] = runner[r].got[g]
  BY <1>2, <1>3 DEF Result, Doing
<1>9. /\ d \in Doing /\ d.at = "run" /\ d.job = j /\ d.got = got
      /\ d.undo = runner[r].undo
  BY <1>1, <1>2, <1>8 DEF Doing, At, Job
<1> HIDE DEF d
<1>10. RunnersOK' /\ Moved(r, d)
  BY <1>1, <1>9, Move DEF Inv, Types
<1>11. Types'
  BY <1>1, <1>5, <1>6, <1>7, <1>10 DEF Inv, Types, RowsOK, FilesOK
<1>12. \A i \in JobId, g \in Tag : Outcomes(i, g)' = Outcomes(i, g)
  BY <1>1 DEF Outcomes
<1>13. ASSUME NEW i \in JobId, NEW g \in Tag
       PROVE  /\ Outcomes(i, g) = "pending" => g \notin wrote'[i]
              /\ Outcomes(i, g) \in Uncertain /\ g \notin touched'[i] =>
                   file'[g] = IF g \in wrote'[i] THEN jobs[i].entry[g].to
                             ELSE jobs[i].entry[g].from
              /\ health[g[1]] # "ok" /\ g \in wrote'[i] => g \in touched'[i]
              /\ NoJob(i) => wrote'[i] = {}
  <2>1. /\ Outcomes(i, g) = "pending" => g \notin wrote[i]
        /\ Outcomes(i, g) \in Uncertain /\ g \notin touched[i] =>
             file[g] = IF g \in wrote[i] THEN jobs[i].entry[g].to
                       ELSE jobs[i].entry[g].from
        /\ health[g[1]] # "ok" /\ g \in wrote[i] => g \in touched[i]
        /\ NoJob(i) => wrote[i] = {} /\ Outcomes(i, g) = "none"
    BY DEF Inv, Journal
  <2>2. CASE i = j
    <3>1. ~NoJob(j)
      BY <1>1, Running DEF NoJob, Active
    <3>2. CASE g \in put
      BY <1>1, <1>3, <1>5, <1>6, <1>7, <2>1, <2>2, <3>1, <3>2
    <3>3. CASE g \notin put
      BY <1>5, <1>6, <1>7, <2>1, <2>2, <3>1, <3>3
    <3> QED
      BY <3>2, <3>3
  <2>3. CASE i # j
    <3>1. /\ wrote'[i] = wrote[i] /\ touched[i] \subseteq touched'[i]
          /\ ~NoJob(i) => touched'[i] = touched[i] \cup put
      BY <1>6, <1>7, <2>3
    <3>2. g \notin touched'[i] /\ ~NoJob(i) => file'[g] = file[g]
      BY <1>5, <3>1
    <3>3. Outcomes(i, g) \in Uncertain => ~NoJob(i)
      BY <2>1 DEF Uncertain
    <3> QED
      BY <2>1, <3>1, <3>2, <3>3
  <2> QED
    BY <2>2, <2>3
<1>14. Journal'
  <2> SUFFICES ASSUME NEW i \in JobId
               PROVE  /\ jobs[i].kind = "doctor_revert" =>
                           jobs[i].source \in JobId /\ jobs[jobs[i].source].kind = "doctor_apply"
                      /\ NoJob(i) => /\ jobs[i].kind = "none" /\ wrote'[i] = {}
                                     /\ \A g \in Tag : Outcomes(i, g) = "none"
                      /\ \A g \in Tag :
                         /\ Outcomes(i, g) \in {"pending", "prepared", "applied"} =>
                              jobs[i].entry[g].from # jobs[i].entry[g].to
                         /\ Outcomes(i, g) = "pending" => g \notin wrote'[i]
                         /\ Outcomes(i, g) \in Uncertain /\ g \notin touched'[i] =>
                               file'[g] = IF g \in wrote'[i] THEN jobs[i].entry[g].to
                                         ELSE jobs[i].entry[g].from
                         /\ health[g[1]] # "ok" /\ g \in wrote'[i] => g \in touched'[i]
    <3>1. UNCHANGED <<jobs, health>>
      BY <1>1
    <3> QED
      BY <3>1 DEF Journal, Outcomes, NoJob
  <2>1. NoJob(i) => wrote'[i] = {}
    <3>1. i = j => ~NoJob(i)
      BY <1>1, Running DEF NoJob, Active
    <3> QED
      BY <1>6, <3>1 DEF Inv, Journal
  <2> QED
    BY <1>13, <2>1 DEF Inv, Journal
<1>15. WritesRecorded'
  <2> SUFFICES ASSUME NEW i \in JobId, NEW g \in Tag,
                      Outcomes(i, g) \in Outcome \ Uncertain, g \notin touched'[i]
               PROVE  Outcomes(i, g) \in {"applied", "reverted"} <=> g \in wrote'[i]
    BY <1>1 DEF WritesRecorded, Has, Outcomes
  <2>1. Outcomes(i, g) \in {"applied", "reverted"} <=> g \in wrote[i]
    BY <1>7 DEF Inv, WritesRecorded, Has, Outcomes
  <2>2. i = j => g \notin put
    BY <1>3 DEF Uncertain
  <2> QED
    BY <1>6, <2>1, <2>2
<1>16. UndoneOnce'
  BY <1>1 DEF Inv, UndoneOnce, Undoes, Has
<1>17. ASSUME NEW q \in Runner
       PROVE  RunnerOK(q)'
  <2>1. \A undo : Undoing(undo)' <=> Undoing(undo)
    BY <1>1 DEF Undoing
  <2>2. CASE q # r
    <3> SUFFICES ASSUME NEW w \in Doing, w = runner[q] PROVE RunnerOK(q)'
      BY Idles
    <3>1. runner'[q] = w /\ w.at # "run" /\ w.at # "recover" /\ Sound(w)
      BY <1>1, <1>10, <2>2, OthersQuiet, Idles DEF Moved, At
    <3>2. Drafted(w.draft)' <=> Drafted(w.draft)
      BY <1>1 DEF Drafted
    <3>3. Undoing(w.undo)' <=> Undoing(w.undo)
      BY <1>1 DEF Undoing
    <3> QED
      BY <3>1, <3>2, <3>3 DEF RunnerOK, Sound
  <2>3. CASE q = r
    <3> SUFFICES ASSUME NEW w \in Doing, w = d PROVE RunnerOK(q)'
      BY <1>9
    <3>1. runner'[q] = w /\ w.at = "run" /\ w.job = j /\ w.got = got
      BY <1>9, <1>10, <2>3 DEF Moved
    <3>2. Undoing(w.undo)'
      BY <1>1, <1>2, <1>9 DEF Undoing
    <3>3. ASSUME NEW g \in Tag
          PROVE  /\ Outcomes(j, g) = "pending" => w.got[g] \in {"none", "dropped"}
                 /\ Outcomes(j, g) = "prepared" =>
                      /\ w.got[g] \in {"none", "conflict", "unavailable", "failed"} =>
                           g \notin wrote'[j]
                      /\ w.got[g] = "applied" => g \in wrote'[j]
      <4>1. /\ Outcomes(j, g) = "pending" => runner[r].got[g] \in {"none", "dropped"}
            /\ Outcomes(j, g) = "prepared" =>
                 /\ runner[r].got[g] \in {"none", "conflict", "unavailable", "failed"} =>
                      g \notin wrote[j]
                 /\ runner[r].got[g] = "applied" => g \in wrote[j]
        BY <1>2 DEF Progress
      <4>0. w.got[g] = got[g]
        BY <3>1
      <4>2. CASE g \in put
        <5>1. got[g] = "applied"
          BY <1>3, <4>2
        <5>2. Outcomes(j, g) = "prepared"
          BY <1>3, <4>2
        <5>3. g \in wrote'[j]
          BY <1>6, <4>2
        <5> QED
          BY <4>0, <5>1, <5>2, <5>3
      <4>3. CASE g \in tags \ put
        <5>1. got[g] \in {"failed", "conflict"}
          BY <1>8, <4>3
        <5>3. Outcomes(j, g) = "prepared" /\ runner[r].got[g] = "none"
          BY <1>3, <4>3
        <5>2. g \in wrote'[j] <=> g \in wrote[j]
          BY <1>6, <4>3
        <5> QED
          BY <4>0, <4>1, <5>1, <5>2, <5>3
      <4>4. CASE g \notin tags
        <5>1. got[g] = runner[r].got[g]
          BY <1>8, <4>4
        <5>2. g \in wrote'[j] <=> g \in wrote[j]
          BY <1>3, <1>6, <4>4
        <5> QED
          BY <4>0, <4>1, <5>1, <5>2
      <4> QED
        BY <4>2, <4>3, <4>4
    <3>4. Progress(j, w.got)'
      BY <1>12, <3>3 DEF Progress
    <3> QED
      BY <3>1, <3>2, <3>4 DEF RunnerOK, Sound
  <2> QED
    BY <2>2, <2>3
<1>18. \A q \in Runner : \A stop : (At(q, stop)' <=> At(q, stop)) /\ Job(q)' = Job(q)
  BY <1>1, <1>9, <1>10 DEF At, Job, Moved
<1>19. Alone' /\ SlotHeld'
  BY <1>1, <1>18 DEF Inv, Alone, SlotHeld, Quiet, Active
<1> QED
  BY <1>11, <1>14, <1>15, <1>16, <1>17, <1>19 DEF Inv, Runners

-----------------------------------------------------------------------------

LEMMA Initially == TagInit => Inv
<1> SUFFICES ASSUME TagInit PROVE Inv
  OBVIOUS
<1>1. /\ \A j \in JobId : jobs[j] = NoRow /\ wrote[j] = {} /\ touched[j] = {}
      /\ \A r \in Runner : runner[r] = Doer("idle")
  BY DEF TagInit
<1>2. RowsOK
  BY NoRows DEF TagInit, RowsOK
<1>3. RunnersOK
  BY IdleSound DEF TagInit, RunnersOK, At
<1>4. FilesOK
  BY Blanks, TagBounds DEF TagInit, FilesOK
<1>5. \A j \in JobId : NoJob(j) /\ jobs[j].kind = "none"
        /\ \A g \in Tag : Outcomes(j, g) = "none"
  BY <1>1, NoRows DEF NoJob, Outcomes
<1>6. Journal
  BY <1>1, <1>5 DEF Journal, Uncertain
<1>7. Runners
  BY <1>1, IdleSound DEF Runners, RunnerOK
<1>8. \A r \in Runner : At(r, "idle") /\ ~At(r, "run") /\ ~At(r, "recover")
  BY <1>1, IdleSound DEF At
<1>9. Alone /\ SlotHeld
  BY <1>8 DEF Alone, SlotHeld, Quiet
<1>10. WritesRecorded
  BY <1>5 DEF WritesRecorded, Has, Outcomes, Outcome, Uncertain
<1>11. UndoneOnce
  BY <1>5 DEF UndoneOnce, Undoes, Has, Outcomes
<1> QED
  BY <1>2, <1>3, <1>4, <1>6, <1>7, <1>9, <1>10, <1>11 DEF Inv, Types

LEMMA StepKeeps ==
  ASSUME Inv, NEW r \in Runner, Step(r)
  PROVE  Inv'
<1>1. CASE \E j \in JobId : DraftUndo(r, j) \/ Insert(r, j) \/ RecoverJob(r, j)
  BY <1>1, DraftedUndo, Inserted, RecoveredJob
<1>2. CASE \E t \in Track : WriteFile(r, t) \/ WriteFails(r, t)
  BY <1>2, Writes, FailsToWrite
<1>3. CASE InsertBusy(r) \/ SettleRefused(r) \/ RecoveryEnds(r)
  BY <1>3, Quits
<1>4. CASE ClaimFile(r) \/ SettleFile(r) \/ FinishJob(r)
  BY <1>4, Claims, Settles, Finishes
<1> QED
  BY <1>1, <1>2, <1>3, <1>4 DEF Step

LEMMA NextKeeps ==
  ASSUME Inv, [TagNext]_vars
  PROVE  Inv'
<1>1. CASE UNCHANGED vars
  <2>1. UNCHANGED <<jobs, file, health, history, runner, mishaps, edits>>
    BY <1>1 DEF vars
  <2>2. Types'
    BY <2>1, JournalStays DEF Inv, Types, RunnersOK, FilesOK, At, Job, history
  <2>3. Runners'
    BY <2>1, RunnerStays DEF Inv, Runners
  <2>4. Alone' /\ SlotHeld'
    BY <2>1 DEF Inv, Alone, SlotHeld, Quiet, At, Job, Active
  <2> QED
    BY <2>1, <2>2, <2>3, <2>4, JournalStays DEF Inv
<1>2. ASSUME NEW r \in Runner,
             \/ \E p \in Plan : AskEdit(r, p) \/ \E s \in Scan : AskApply(r, p, s)
             \/ AskUndo(r)
      PROVE  Inv'
  BY <1>2, AskedEdit, AskedApply, AskedUndo
<1>3. ASSUME NEW r \in Runner,
             Step(r) \/ Cancel(r) \/ EditDrops(r) \/ GiveUp(r) \/ Crash(r)
      PROVE  Inv'
  BY <1>3, StepKeeps, Cancels, Drops, Quits
<1>4. ASSUME NEW r \in Runner, Restart(r) \/ Watch(r)
      PROVE  Inv'
  BY <1>4, Recovers
<1>5. ASSUME NEW g \in Tag, NEW v \in Value, EditElsewhere(g, v)
      PROVE  Inv'
  BY <1>5, EditedElsewhere
<1>6. ASSUME NEW t \in Track, NEW h \in {"ok", "gone", "bad"}, Trouble(t, h)
      PROVE  Inv'
  BY <1>6, Troubled
<1> QED
  BY <1>1, <1>2, <1>3, <1>4, <1>5, <1>6 DEF TagNext

\* What the journal says of the files holds at every step of any number of
\* writers, of recovery and of other hands.
THEOREM InvariantHolds == TagSpec => []Inv
<1>1. TagInit => Inv
  BY Initially
<1>2. Inv /\ [TagNext]_vars => Inv'
  BY NextKeeps
<1> QED
  BY <1>1, <1>2, PTL DEF TagSpec

\* The rows, the files and the runners of tag_write_job/ are what their types
\* say, and no more happens than the bounds allow.
THEOREM TypesHold == TagSpec => []TagTypeOK
<1>1. Inv => TagTypeOK
  BY DEF Inv, Types, RowsOK, RunnersOK, FilesOK, TagTypeOK
<1> QED
  BY <1>1, InvariantHolds, PTL

\* write_slot.rs: whoever runs a job has the one slot until it ends the job
\* itself; locks need not be enforced for it.
THEOREM SlotKept == TagSpec => []SlotHeld
<1>1. Inv => SlotHeld
  BY DEF Inv
<1> QED
  BY <1>1, InvariantHolds, PTL

\* tag_write_job/recovery.rs and the settling of files: a settled entry says
\* whether its job changed the tag, unless another hand had the file since.
THEOREM Truthful == TagSpec => []WritesRecorded
<1>1. Inv => WritesRecorded
  BY DEF Inv
<1> QED
  BY <1>1, InvariantHolds, PTL

\* library_doctor/write.rs: a change is undone by one job at most, and is
\* marked so exactly where one has undone it.
THEOREM UndoOnce == TagSpec => []UndoneOnce
<1>1. Inv => UndoneOnce
  BY DEF Inv
<1> QED
  BY <1>1, InvariantHolds, PTL

=============================================================================
