------------------------------- MODULE AiJobs -------------------------------
(***************************************************************************)
(* The queue of instrumental renders: the job rows of                      *)
(* crates/reprise-core/src/ai_jobs.rs, the staged renders of               *)
(* ai_staging.rs, saving one into the library by ai_promotion.rs, and the  *)
(* worker processes of crates/reprise-cli/src/commands/worker.rs.          *)
(*                                                                         *)
(* The clock is what each lease has left.  A process is named by its       *)
(* token: one that starts again claims afresh, so it may keep its name.    *)
(* A path of the library is a name and its collision suffix.  `published`  *)
(* and `saved` are history, as is how long ago a worker last held its      *)
(* lease.                                                                  *)
(***************************************************************************)
EXTENDS Integers, FiniteSets

CONSTANTS
  Source,      \* tracks to take the vocals from
  Name,        \* artist and title, made fit for a file name
  NameOf,      \* the name of each source
  Worker,      \* render workers
  Saver,       \* commands that save a staged render
  Lease,       \* ticks a claim lasts
  MaxJob, MaxMishaps, MaxWishes

ASSUME NamesAssumption == NameOf \in [Source -> Name]
ASSUME ActorsAssumption == Worker \cap Saver = {}
ASSUME LeaseAssumption == Lease \in Nat
ASSUME AiBounds == MaxJob \in Nat /\ MaxMishaps \in Nat /\ MaxWishes \in Nat

VARIABLES
  jobs,        \* the rows of ai_jobs
  staging,     \* jobs whose render lies in staging
  file,        \* whose render lies at each path of the library, 0 for none
  tracks,      \* paths the library has a track for
  discarding,  \* jobs discarded in the database, not yet on disk
  actor,       \* what each worker and saver is doing
  mishaps, wishes,    \* how much has happened, for the bounds
  published, saved    \* jobs ever staged, jobs ever saved

library == <<file, tracks>>
counts == <<mishaps, wishes>>
vars == <<jobs, staging, library, discarding, actor, counts, published, saved>>

JobId == 1..MaxJob
Actor == Worker \cup Saver
Path == Name \X JobId
NoPath == <<>>
Nobody == "nobody"
Expired == -1

Open == {"queued", "running"}
Terminal == {"done", "failed", "cancelled"}
Row == [source : Source \cup {Nobody}, status : Open \cup Terminal \cup {"absent"},
        owner : Worker \cup {Nobody}, lease : Expired..Lease,
        cancel : BOOLEAN, result : Path \cup {NoPath}]
Stops == {"down", "idle", "render", "cancel", "publish",
          "promote", "copy", "register", "record", "drop", "cleanup"}
Doing == [at : Stops, job : 0..MaxJob, path : Path \cup {NoPath}, age : 0..Lease + 1]

NoRow == [source |-> Nobody, status |-> "absent", owner |-> Nobody,
          lease |-> Expired, cancel |-> FALSE, result |-> NoPath]
Doer(at) == [at |-> at, job |-> 0, path |-> NoPath, age |-> 0]

AiInit ==
  /\ jobs = [j \in JobId |-> NoRow]
  /\ staging = {} /\ discarding = {}
  /\ file = [p \in Path |-> 0] /\ tracks = {}
  /\ actor = [a \in Actor |-> Doer(IF a \in Worker THEN "down" ELSE "idle")]
  /\ mishaps = 0 /\ wishes = 0
  /\ published = {} /\ saved = {}

-----------------------------------------------------------------------------
(* Rows.                                                                   *)

Is(j, status) == jobs[j].status = status
Unsaved(j) == Is(j, "done") /\ jobs[j].result = NoPath
Saved(j) == Is(j, "done") /\ jobs[j].result # NoPath
Live(j) == jobs[j].status \in Open \/ Saved(j)
Same(j, s) == jobs[j].source = s /\ ~Is(j, "absent")
Owns(w, j) == Is(j, "running") /\ jobs[j].owner = w
\* Mutant: a claim does not look at the lease.
RunnableHeld(j) == jobs[j].status \in Open
\* Mutant: a claim takes queued jobs only.
RunnableQueued(j) == Is(j, "queued")
Runnable(j) == Is(j, "queued") \/ (Is(j, "running") /\ jobs[j].lease = Expired)
At(a, stop) == actor[a].at = stop
Job(a) == actor[a].job

\* What an ended row says of its claim is never read again, and is forgotten.
Ended(j, status) == [NoRow EXCEPT !.source = jobs[j].source, !.status = status]

\* What goes wrong, and what the user does, happens so often and no more.
Mishap == mishaps < MaxMishaps /\ mishaps' = mishaps + 1
Wish == wishes < MaxWishes /\ wishes' = wishes + 1

\* The first finished and unsaved job of a source is the only one looked at.
FoundStaged(s) ==
  \E j \in staging :
    Same(j, s) /\ Unsaved(j) /\ \A i \in 1..j - 1 : ~(Same(i, s) /\ Unsaved(i))

NextJob(j) == Is(j, "absent") /\ \A i \in 1..j - 1 : ~Is(i, "absent")

Enqueue(s) ==
  /\ ~\E j \in JobId : Same(j, s) /\ Live(j)
  /\ ~FoundStaged(s)
  /\ \E j \in JobId :
       /\ NextJob(j)
       /\ jobs' = [jobs EXCEPT ![j] =
            [NoRow EXCEPT !.source = s, !.status = "queued"]]
  /\ UNCHANGED <<staging, library, discarding, actor, counts, published, saved>>

RequestCancel(j) ==
  /\ jobs[j].status \in Open
  /\ Wish
  /\ jobs' = [jobs EXCEPT ![j] =
       IF Is(j, "queued") THEN Ended(j, "cancelled") ELSE [@ EXCEPT !.cancel = TRUE]]
  /\ UNCHANGED <<staging, library, discarding, actor, mishaps, published, saved>>

\* Time passes: a claim runs down, and a worker that does not renew its claim is
\* late once it has run out.  Where that worker is still at it, that is a
\* mishap.
Lapsing == {j \in JobId : /\ Is(j, "running") /\ jobs[j].lease = 0
                          /\ \E w \in Worker : Job(w) = j /\ Owns(w, j)}

Tick ==
  /\ \E j \in JobId : Is(j, "running") /\ jobs[j].lease # Expired
  /\ mishaps + Cardinality(Lapsing) <= MaxMishaps
  /\ mishaps' = mishaps + Cardinality(Lapsing)
  /\ jobs' = [j \in JobId |->
       IF Is(j, "running") /\ jobs[j].lease # Expired
       THEN [jobs[j] EXCEPT !.lease = @ - 1] ELSE jobs[j]]
  /\ actor' = [a \in Actor |->
       IF At(a, "render") /\ actor[a].age <= Lease
       THEN [actor[a] EXCEPT !.age = @ + 1] ELSE actor[a]]
  /\ UNCHANGED <<staging, library, discarding, wishes, published, saved>>

-----------------------------------------------------------------------------
(* A worker.                                                               *)

Go(a, stop) == actor' = [actor EXCEPT ![a].at = stop]
Rest(a) == actor' = [actor EXCEPT ![a] = Doer("idle")]


\* Mutant: the sweep removes the render of every job that is done.
OrphansDone == {j \in staging : jobs[j].status \in {"cancelled", "done", "absent"}}
Orphans == {j \in staging : Is(j, "cancelled") \/ Saved(j) \/ Is(j, "absent")}

Start(w) ==
  /\ At(w, "down")
  /\ staging' = staging \ Orphans
  /\ Rest(w)
  /\ UNCHANGED <<jobs, library, discarding, counts, published, saved>>

\* A process ends: it crashes, is shut down, or stops on a database error.
Crash(a) ==
  /\ actor[a].at \notin {"down", "idle"}
  /\ Mishap
  /\ actor' = [actor EXCEPT ![a] = Doer(IF a \in Worker THEN "down" ELSE "idle")]
  /\ UNCHANGED <<jobs, staging, library, discarding, wishes, published, saved>>

Claim(w) ==
  /\ At(w, "idle")
  /\ \E j \in JobId :
       /\ Runnable(j) /\ \A i \in 1..j - 1 : ~Runnable(i)
       /\ jobs' = [jobs EXCEPT ![j].status = "running", ![j].owner = w, ![j].lease = Lease]
       /\ actor' = [actor EXCEPT ![w] = [Doer("render") EXCEPT !.job = j]]
  /\ UNCHANGED <<staging, library, discarding, counts, published, saved>>

\* Between two chunks: renew the claim, and stop when it is lost or cancelled.
Heartbeat(w) ==
  LET j == Job(w) IN
  /\ At(w, "render")
  /\ IF Owns(w, j)
     THEN /\ jobs' = [jobs EXCEPT ![j].lease = Lease]
          /\ actor' = [actor EXCEPT ![w].age = 0,
                                    ![w].at = IF jobs[j].cancel THEN "cancel" ELSE @]
     ELSE Rest(w) /\ UNCHANGED jobs
  /\ UNCHANGED <<staging, library, discarding, counts, published, saved>>

\* Each end of a job looks first whether the worker still owns it.
Finish(w, status) ==
  jobs' = [jobs EXCEPT ![Job(w)] = IF Owns(w, Job(w)) THEN Ended(Job(w), status) ELSE @]

MarkCancelled(w) ==
  /\ At(w, "cancel")
  /\ Finish(w, "cancelled")
  /\ Rest(w)
  /\ UNCHANGED <<staging, library, discarding, counts, published, saved>>

RenderFails(w) ==
  /\ At(w, "render")
  /\ Finish(w, "failed")
  /\ Rest(w)
  /\ UNCHANGED <<staging, library, discarding, counts, published, saved>>

\* Mutant: the render is published whether or not the job was still owned.
MarkDoneUnguarded(w) ==
  /\ At(w, "render")
  /\ Finish(w, "done")
  /\ Go(w, "publish")
  /\ UNCHANGED <<staging, library, discarding, counts, published, saved>>

\* The owner marks the job done before the render takes its place in staging.
MarkDone(w) ==
  /\ At(w, "render")
  /\ Finish(w, "done")
  /\ IF Owns(w, Job(w)) THEN Go(w, "publish") ELSE Rest(w)
  /\ UNCHANGED <<staging, library, discarding, counts, published, saved>>

\* Whether the render is to be saved at once was said when it was enqueued.
Publish(w) ==
  /\ At(w, "publish")
  /\ staging' = staging \cup {Job(w)}
  /\ published' = published \cup {Job(w)}
  /\ Go(w, "promote") \/ Rest(w)
  /\ UNCHANGED <<jobs, library, discarding, counts, saved>>

-----------------------------------------------------------------------------
(* Saving a staged render into the library.                                *)

Reserved(p, j) == \E i \in JobId \ {j} : jobs[i].result = p
\* The file of the source's name with the first suffix no other job was saved to.
IsDestination(p, j) ==
  /\ p[1] = NameOf[jobs[j].source]
  /\ ~Reserved(p, j) /\ \A n \in 1..p[2] - 1 : Reserved(<<p[1], n>>, j)

\* The check and the destination are read once; what follows may find them stale.
Begin(a, j) ==
  /\ IF Unsaved(j) /\ j \in staging
     THEN \E p \in Path :
            /\ IsDestination(p, j)
            /\ actor' = [actor EXCEPT ![a] = [Doer("copy") EXCEPT !.job = j, !.path = p]]
     ELSE Rest(a)
  /\ UNCHANGED <<jobs, staging, library, discarding, counts, published, saved>>

Promote(w) == At(w, "promote") /\ Begin(w, Job(w))
Save(v, j) == At(v, "idle") /\ Begin(v, j)

Copy(a) ==
  /\ At(a, "copy")
  /\ IF Job(a) \in staging
     THEN file' = [file EXCEPT ![actor[a].path] = Job(a)] /\ Go(a, "register")
     ELSE Rest(a) /\ UNCHANGED file
  /\ UNCHANGED <<jobs, staging, tracks, discarding, counts, published, saved>>

\* Tags are written to the copy and the scanner registers it; either may fail.
Register(a) ==
  /\ At(a, "register")
  /\ \/ /\ file[actor[a].path] # 0
        /\ tracks' = tracks \cup {actor[a].path} /\ Go(a, "record") /\ UNCHANGED mishaps
     \/ file[actor[a].path] = 0 /\ Go(a, "cleanup") /\ UNCHANGED <<tracks, mishaps>>
     \/ Mishap /\ Go(a, "cleanup") /\ UNCHANGED tracks
  /\ UNCHANGED <<jobs, staging, file, discarding, wishes, published, saved>>

\* Mutant: the unique index covers the saved jobs only.
IndexAllowsOpen(j) == ~\E i \in JobId \ {j} : Same(i, jobs[j].source) /\ Saved(i)

\* The unique index: one open or saved job for each source.
IndexAllows(j) == ~\E i \in JobId \ {j} : Same(i, jobs[j].source) /\ Live(i)

\* Mutant: the track is attached whatever became of the job meanwhile.
AttachAny(j, p) == jobs' = [jobs EXCEPT ![j].result = p] /\ saved' = saved \cup {j}

Attach(j, p) ==
  IF Is(j, "done")
  THEN jobs' = [jobs EXCEPT ![j].result = p] /\ saved' = saved \cup {j}
  ELSE UNCHANGED <<jobs, saved>>

Record(a) ==
  LET j == Job(a) IN
  /\ At(a, "record")
  /\ IF actor[a].path \in tracks /\ (Is(j, "done") => IndexAllows(j))
     THEN Attach(j, actor[a].path) /\ Go(a, "drop")
     ELSE Go(a, "cleanup") /\ UNCHANGED <<jobs, saved>>
  /\ UNCHANGED <<staging, library, discarding, counts, published>>

Drop(a) ==
  /\ At(a, "drop")
  /\ staging' = staging \ {Job(a)}
  /\ Rest(a)
  /\ UNCHANGED <<jobs, library, discarding, counts, published, saved>>

Cleanup(a) ==
  /\ At(a, "cleanup")
  /\ file' = [file EXCEPT ![actor[a].path] = 0]
  /\ Rest(a)
  /\ UNCHANGED <<jobs, staging, tracks, discarding, counts, published, saved>>

-----------------------------------------------------------------------------
(* The user.                                                               *)

Discard(j) ==
  /\ Unsaved(j)
  /\ Wish
  /\ jobs' = [jobs EXCEPT ![j].status = "cancelled"]
  /\ discarding' = discarding \cup {j}
  /\ UNCHANGED <<staging, library, actor, mishaps, published, saved>>

DiscardFile(j) ==
  /\ j \in discarding
  /\ staging' = staging \ {j} /\ discarding' = discarding \ {j}
  /\ UNCHANGED <<jobs, library, actor, counts, published, saved>>

\* An instrumental is deleted from the library; every row that names it lets go.
DeleteTrack(p) ==
  /\ p \in tracks
  /\ Wish
  /\ tracks' = tracks \ {p} /\ file' = [file EXCEPT ![p] = 0]
  /\ jobs' = [j \in JobId |->
       IF jobs[j].result = p THEN [jobs[j] EXCEPT !.result = NoPath] ELSE jobs[j]]
  /\ UNCHANGED <<staging, discarding, actor, mishaps, published, saved>>

-----------------------------------------------------------------------------
WorkerStep(w) ==
  Start(w) \/ Claim(w) \/ Heartbeat(w) \/ MarkCancelled(w) \/ RenderFails(w)
    \/ MarkDone(w) \/ Publish(w) \/ Promote(w)
Saving(a) ==
  Copy(a) \/ Register(a) \/ Record(a) \/ Drop(a) \/ Cleanup(a)

AiNext ==
  \/ \E s \in Source : Enqueue(s)
  \/ \E j \in JobId : RequestCancel(j) \/ Discard(j) \/ DiscardFile(j)
  \/ \E p \in Path : DeleteTrack(p)
  \/ Tick
  \/ \E w \in Worker : WorkerStep(w)
  \/ \E v \in Saver, j \in JobId : Save(v, j)
  \/ \E a \in Actor : Saving(a) \/ Crash(a)

\* Time passes, workers are started again and go on, and a render ends.
AiFairness ==
  /\ WF_vars(Tick)
  /\ \A w \in Worker :
       /\ WF_vars(Start(w)) /\ WF_vars(Claim(w))
       /\ WF_vars(MarkDone(w) \/ RenderFails(w))
       /\ WF_vars(MarkCancelled(w)) /\ WF_vars(Publish(w))
       /\ WF_vars(Promote(w)) /\ WF_vars(Saving(w))

AiSpec == AiInit /\ [][AiNext]_vars
FairAiSpec == AiSpec /\ AiFairness

-----------------------------------------------------------------------------
(* Properties.                                                             *)

\* Every variable keeps its type, and only a job that is done has a saved track:
\* a save that has long begun when its job is discarded attaches nothing to it
\* (attach_result_track, discard_staged).
AiTypeOK ==
  /\ jobs \in [JobId -> Row]
  /\ \A j \in JobId : jobs[j].result # NoPath => Is(j, "done")
  /\ staging \subseteq JobId /\ discarding \subseteq JobId
  /\ published \subseteq JobId /\ saved \subseteq JobId
  /\ file \in [Path -> 0..MaxJob] /\ tracks \subseteq Path
  /\ actor \in [Actor -> Doing]
  /\ \A a \in Actor : At(a, "down") \/ At(a, "idle") \/ Job(a) \in JobId
  /\ mishaps \in 0..MaxMishaps /\ wishes \in 0..MaxWishes

\* A worker that renewed its claim within the lease still owns the job it
\* renders: nobody else can have claimed it or ended it (claim_next, heartbeat).
LeaseProtects ==
  \A w \in Worker : At(w, "render") /\ actor[w].age <= Lease => Owns(w, Job(w))

\* A source has at most one job that is open or saved, even when a finished
\* render is saved late, after the work was enqueued again.
OneLivePerSource ==
  \A i, j \in JobId :
    i # j /\ jobs[i].source = jobs[j].source => ~(Live(i) /\ Live(j))

\* A finished render that was staged stays in staging until the user has decided
\* on it: no sweep, failed save or other process takes it away (Beschluss 15).
StagedUntilDecided ==
  \A j \in published \ saved : Is(j, "done") => j \in staging

\* A render that left staging never comes back: a worker that lost its claim
\* cannot put its own copy there (complete_render_with_publish).
PublishedOnce ==
  [][\A j \in published : j \notin staging => j \notin staging']_vars

\* Every job that was enqueued ends, whichever workers crash on the way.
JobsEnd ==
  \A j \in JobId : jobs[j].status \in Open ~> jobs[j].status \in Terminal

\* A saved job's file is its own render: two saves never share a destination,
\* and a save that fails removes no file but its own (resolve_destination).
SavedRenderStands ==
  \A j \in JobId : Saved(j) => file[jobs[j].result] = j
=============================================================================
