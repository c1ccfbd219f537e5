---------------------------- MODULE AiJobsProofs ----------------------------
(***************************************************************************)
(* Proofs about AiJobs for any number of jobs, sources, workers, savers,   *)
(* mishaps and wishes and any length of lease.                             *)
(***************************************************************************)
EXTENDS AiJobs, FiniteSetTheorems, TLAPS

\* The type invariant in three parts.
RowsOK == jobs \in [JobId -> Row]
ActorsOK ==
  /\ actor \in [Actor -> Doing]
  /\ \A a \in Actor : At(a, "down") \/ At(a, "idle") \/ Job(a) \in JobId
FilesOK ==
  /\ staging \subseteq JobId /\ discarding \subseteq JobId
  /\ published \subseteq JobId /\ saved \subseteq JobId
  /\ file \in [Path -> 0..MaxJob] /\ tracks \subseteq Path
  /\ mishaps \in 0..MaxMishaps /\ wishes \in 0..MaxWishes
Types == RowsOK /\ ActorsOK /\ FilesOK

\* What the lease of a row says of its owner: they run down together.
Leases ==
  \A w \in Worker : At(w, "render") /\ actor[w].age <= Lease =>
    /\ Owns(w, Job(w)) /\ jobs[Job(w)].lease = Lease - actor[w].age

\* A job past its render is done or, once discarded, cancelled.
Decided(j) == Is(j, "done") \/ Is(j, "cancelled")
Results == \A j \in JobId : jobs[j].result # NoPath => j \in saved /\ Is(j, "done")
Placing == {"copy", "register", "record", "drop", "cleanup"}
PastRender == {"publish", "promote"} \cup Placing
Promoting ==
  \A a \in Actor :
    /\ actor[a].at \in PastRender => Decided(Job(a))
    /\ actor[a].at \in Placing => actor[a].path \in Path
    /\ At(a, "drop") => Job(a) \in saved \/ Is(Job(a), "cancelled")
Staged ==
  /\ \A j \in published : Decided(j)
  /\ \A j \in discarding : Is(j, "cancelled")
  /\ StagedUntilDecided

\* A worker about to publish is the first and the only one to do so.
Publishing ==
  \A w \in Worker : At(w, "publish") =>
    /\ Job(w) \notin published
    /\ \A v \in Worker : v # w /\ At(v, "publish") => Job(v) # Job(w)

Inv == Types /\ Leases /\ OneLivePerSource /\ Results /\ Promoting /\ Staged /\ Publishing

-----------------------------------------------------------------------------
(* One actor moves, one row changes.                                       *)

Moved(v, r) ==
  /\ actor'[v] = r /\ \A a \in Actor \ {v} : actor'[a] = actor[a]
Put(k, q) ==
  /\ jobs'[k] = q /\ \A j \in JobId \ {k} : jobs'[j] = jobs[j]
Stays == UNCHANGED <<published, discarding, saved>>

LEMMA Move ==
  ASSUME ActorsOK, NEW v \in Actor, NEW r \in Doing,
         r.at \in {"down", "idle"} \/ r.job \in JobId,
         actor' = [actor EXCEPT ![v] = r]
  PROVE  ActorsOK' /\ Moved(v, r)
  BY DEF ActorsOK, Moved, At, Job, Actor

LEMMA Write ==
  ASSUME RowsOK, NEW k \in JobId, NEW q \in Row, jobs' = [jobs EXCEPT ![k] = q]
  PROVE  RowsOK' /\ Put(k, q)
  BY DEF RowsOK, Put, JobId

LEMMA Rows ==
  ASSUME RowsOK, NEW j \in JobId
  PROVE  jobs[j] \in Row
  BY DEF RowsOK

LEMMA Actors ==
  ASSUME ActorsOK, NEW a \in Actor
  PROVE  /\ actor[a] \in Doing /\ actor[a].age \in Nat
         /\ At(a, "down") \/ At(a, "idle") \/ Job(a) \in JobId
  BY LeaseAssumption DEF ActorsOK, Doing

LEMMA Doers ==
  /\ Doer("idle") \in Doing /\ Doer("idle").at = "idle"
  /\ Doer("down") \in Doing /\ Doer("down").at = "down"
  BY LeaseAssumption, AiBounds DEF Doer, Doing, Stops

LEMMA Going ==
  ASSUME ActorsOK, NEW a \in Actor, NEW stop \in Stops, Job(a) \in JobId, Go(a, stop)
  PROVE  \E r \in Doing :
           /\ ActorsOK' /\ Moved(a, r)
           /\ r.at = stop /\ r.job = Job(a) /\ r.path = actor[a].path
<1> DEFINE r == [actor[a] EXCEPT !.at = stop]
<1>1. r \in Doing /\ r.at = stop /\ r.job = Job(a) /\ r.path = actor[a].path
  BY Actors DEF Doing, Job
<1>2. actor' = [actor EXCEPT ![a] = r]
  BY DEF Go
<1> HIDE DEF r
<1> QED
  BY <1>1, <1>2, Move

LEMMA Resting ==
  ASSUME ActorsOK, NEW a \in Actor, Rest(a)
  PROVE  ActorsOK' /\ Moved(a, Doer("idle"))
  BY Move, Doers DEF Rest

\* The invariants but Staged and Types, when one actor moves.
LEMMA MoveKeeps ==
  ASSUME Inv, NEW v \in Actor, NEW r \in Doing, Moved(v, r), UNCHANGED <<jobs, published, saved>>,
         r.at \notin {"render", "publish"},
         r.at \in PastRender => Decided(r.job), r.at \in Placing => r.path \in Path,
         r.at = "drop" => r.job \in saved \/ Is(r.job, "cancelled")
  PROVE  Leases' /\ OneLivePerSource' /\ Results' /\ Promoting' /\ Publishing'
<1>1. Leases'
  BY DEF Inv, Leases, Moved, At, Job, Owns, Is, Actor
<1>2. OneLivePerSource' /\ Results'
  BY DEF Inv, OneLivePerSource, Live, Saved, Is, Results
<1>3. Promoting'
  BY DEF Inv, Promoting, Moved, At, Job, Is, Decided
<1>4. Publishing'
  BY DEF Inv, Publishing, Moved, At, Job, Actor
<1> QED
  BY <1>1, <1>2, <1>3, <1>4

\* Staged, when rows stay and staging loses at most what was decided on.
LEMMA StagedKeeps ==
  ASSUME Inv, UNCHANGED <<jobs, published, saved>>, discarding' \subseteq discarding,
         \A j \in staging \ staging' : j \in saved \/ ~Is(j, "done")
  PROVE  Staged'
<1>1. (\A j \in published : Decided(j))' /\ (\A j \in discarding : Is(j, "cancelled"))'
  BY DEF Inv, Staged, Decided, Is
<1>2. StagedUntilDecided'
  BY DEF Inv, Staged, StagedUntilDecided, Is
<1> QED
  BY <1>1, <1>2 DEF Staged

LEMMA TypesKeep ==
  ASSUME Inv, RowsOK', ActorsOK', UNCHANGED <<library, counts>>,
         staging' \subseteq staging, discarding' \subseteq discarding,
         UNCHANGED <<published, saved>>
  PROVE  Types'
  BY DEF Inv, Types, FilesOK, library, counts

-----------------------------------------------------------------------------
(* Rows.                                                                   *)

LEMMA NewRows ==
  /\ NoRow \in Row
  /\ \A s \in Source : [NoRow EXCEPT !.source = s, !.status = "queued"] \in Row
<1>1. NoRow \in Row
  BY LeaseAssumption DEF NoRow, Row, Open, Terminal, Expired, Nobody
<1>2. ASSUME NEW s \in Source
      PROVE  [NoRow EXCEPT !.source = s, !.status = "queued"] \in Row
  BY <1>1 DEF Row, Open
<1> QED
  BY <1>1, <1>2

LEMMA EndedRow ==
  ASSUME RowsOK, NEW j \in JobId, NEW status \in Terminal
  PROVE  /\ Ended(j, status) \in Row /\ Ended(j, status).status = status
         /\ Ended(j, status).source = jobs[j].source
         /\ Ended(j, status).result = NoPath
  BY Rows, NewRows DEF Ended, NoRow, Row

LEMMA EnqueueKeeps ==
  ASSUME Inv, NEW s \in Source, Enqueue(s)
  PROVE  Inv'
<1>1. PICK k \in JobId : /\ NextJob(k)
                         /\ jobs' = [jobs EXCEPT ![k] =
                              [NoRow EXCEPT !.source = s, !.status = "queued"]]
  BY DEF Enqueue
<1> DEFINE q == [NoRow EXCEPT !.source = s, !.status = "queued"]
<1>2. q \in Row /\ q.status = "queued" /\ q.source = s /\ q.result = NoPath
  BY NewRows DEF NoRow
<1>3. RowsOK' /\ Put(k, q)
  BY <1>1, <1>2, Write DEF Inv, Types
<1> HIDE DEF q
<1>4. Is(k, "absent") /\ ActorsOK' /\ UNCHANGED <<actor, staging, discarding, published, saved>>
  BY <1>1 DEF NextJob, Enqueue, Inv, Types, ActorsOK, At, Job
<1>5. Types'
  BY <1>3, <1>4, TypesKeep DEF Enqueue, Inv
<1>6. Leases'
  BY <1>2, <1>3, <1>4 DEF Inv, Leases, Put, At, Job, Owns, Is, Types, ActorsOK, Actor
<1>7. OneLivePerSource'
  BY <1>2, <1>3, <1>4 DEF Inv, OneLivePerSource, Put, Live, Saved, Is, Same, Enqueue, Open
<1>8. Results'
  BY <1>2, <1>3, <1>4 DEF Inv, Results, Put, Is
<1>9. Promoting' /\ Publishing'
  BY <1>2, <1>3, <1>4 DEF Inv, Promoting, Publishing, PastRender, Placing, Put, At, Job, Is, Decided,
     Types, ActorsOK
<1>10. Staged'
  BY <1>2, <1>3, <1>4 DEF Inv, Staged, StagedUntilDecided, Put, Is, Decided, Types, FilesOK
<1> QED
  BY <1>5, <1>6, <1>7, <1>8, <1>9, <1>10 DEF Inv
LEMMA WishTypes ==
  ASSUME Inv, Wish
  PROVE  mishaps' = mishaps => mishaps' \in 0..MaxMishaps /\ wishes' \in 0..MaxWishes
  BY AiBounds DEF Inv, Types, FilesOK, Wish

LEMMA MishapTypes ==
  ASSUME Inv, Mishap
  PROVE  mishaps' \in 0..MaxMishaps
  BY AiBounds DEF Inv, Types, FilesOK, Mishap

\* The invariants but Types and Staged, when one row changes that is neither
\* claimed within its lease nor becomes live, and nobody moves.
LEMMA WriteKeeps ==
  ASSUME Inv, NEW k \in JobId, NEW q \in Row, Put(k, q), UNCHANGED <<actor, published, saved>>,
         q.source = jobs[k].source, q.result \in {jobs[k].result, NoPath},
         Is(k, "running") => q.status = "running" /\ q.owner = jobs[k].owner
                               /\ q.lease = jobs[k].lease,
         ~Is(k, "running") => q.status \notin Open /\ q.result = NoPath,
         Decided(k) => q.status \in {"done", "cancelled"},
         Is(k, "cancelled") => q.status = "cancelled"
  PROVE  Leases' /\ OneLivePerSource' /\ Results' /\ Promoting' /\ Publishing'
<1>1. Leases'
  BY DEF Inv, Leases, Put, At, Job, Owns, Is, Types, ActorsOK, Actor
<1>2. OneLivePerSource'
  BY DEF Inv, OneLivePerSource, Put, Live, Saved, Is, Open
<1>3. Results'
  BY DEF Inv, Results, Put, Is
<1>4. Promoting'
  BY DEF Inv, Promoting, PastRender, Placing, Put, At, Job, Is, Decided, Types, ActorsOK
<1>5. Publishing'
  BY DEF Inv, Publishing, At, Job
<1> QED
  BY <1>1, <1>2, <1>3, <1>4, <1>5

LEMMA RequestCancelKeeps ==
  ASSUME Inv, NEW k \in JobId, RequestCancel(k)
  PROVE  Inv'
<1> DEFINE q == IF Is(k, "queued") THEN Ended(k, "cancelled")
                ELSE [jobs[k] EXCEPT !.cancel = TRUE]
<1>1. /\ jobs[k] \in Row /\ jobs[k].status \in Open
      /\ UNCHANGED <<actor, staging, discarding, published, saved>>
  BY Rows DEF Inv, Types, RequestCancel
<1>4. q \in Row /\ q.source = jobs[k].source
  <2>1. Ended(k, "cancelled") \in Row /\ Ended(k, "cancelled").source = jobs[k].source
    BY EndedRow DEF Inv, Types, Terminal
  <2>2. /\ [jobs[k] EXCEPT !.cancel = TRUE] \in Row
        /\ [jobs[k] EXCEPT !.cancel = TRUE].source = jobs[k].source
    BY <1>1 DEF Row
  <2> QED
    BY <2>1, <2>2
<1>5. Is(k, "queued") => q.status = "cancelled" /\ q.result = NoPath
  BY EndedRow DEF Inv, Types, Terminal
<1>6. ~Is(k, "queued") =>
        /\ Is(k, "running") /\ q.status = "running" /\ q.owner = jobs[k].owner
        /\ q.lease = jobs[k].lease /\ q.result = jobs[k].result
  BY <1>1 DEF Row, Is, Open
<1>7. RowsOK' /\ Put(k, q)
  BY <1>4, Write DEF RequestCancel, Inv, Types
<1> HIDE DEF q
<1>8. Leases' /\ OneLivePerSource' /\ Results' /\ Promoting' /\ Publishing'
  BY <1>1, <1>4, <1>5, <1>6, <1>7, WriteKeeps DEF Is, Open, Decided
<1>9. ActorsOK'
  BY <1>1 DEF Inv, Types, ActorsOK, At, Job
<1>10. Types'
  BY <1>1, <1>7, <1>9, WishTypes DEF RequestCancel, Inv, Types, FilesOK, library
<1>11. Staged'
  BY <1>1, <1>5, <1>6, <1>7 DEF Inv, Staged, StagedUntilDecided, Put, Is, Decided, Types, FilesOK
<1> QED
  BY <1>8, <1>10, <1>11 DEF Inv

LEMMA DiscardKeeps ==
  ASSUME Inv, NEW k \in JobId, Discard(k)
  PROVE  Inv'
<1> DEFINE q == [jobs[k] EXCEPT !.status = "cancelled"]
<1>1. jobs[k] \in Row /\ UNCHANGED <<actor, staging, published, saved>> /\ Unsaved(k)
  BY Rows DEF Inv, Types, Discard
<1>2. /\ q \in Row /\ q.status = "cancelled" /\ q.source = jobs[k].source
      /\ q.result = jobs[k].result
  BY <1>1 DEF Row, Terminal, Open
<1>3. RowsOK' /\ Put(k, q)
  BY <1>2, Write DEF Discard, Inv, Types
<1> HIDE DEF q
<1>4. Leases' /\ OneLivePerSource' /\ Results' /\ Promoting' /\ Publishing'
  BY <1>1, <1>2, <1>3, WriteKeeps DEF Is, Open, Decided, Unsaved
<1>5. ActorsOK'
  BY <1>1 DEF Inv, Types, ActorsOK, At, Job
<1>6. Types'
  BY <1>1, <1>3, <1>5, WishTypes DEF Discard, Inv, Types, FilesOK, library
<1>7. Staged'
  BY <1>1, <1>2, <1>3 DEF Inv, Staged, StagedUntilDecided, Put, Is, Decided, Types, FilesOK, Discard
<1> QED
  BY <1>4, <1>6, <1>7 DEF Inv

LEMMA DiscardFileKeeps ==
  ASSUME Inv, NEW k \in JobId, DiscardFile(k)
  PROVE  Inv'
<1>1. /\ UNCHANGED <<jobs, library, actor, counts, published, saved>>
      /\ staging' = staging \ {k} /\ discarding' = discarding \ {k} /\ Is(k, "cancelled")
  BY DEF DiscardFile, Inv, Staged
<1>2. RowsOK' /\ ActorsOK'
  BY <1>1 DEF Inv, Types, RowsOK, ActorsOK, At, Job
<1>3. Types'
  BY <1>1, <1>2, TypesKeep
<1>4. Staged'
  BY <1>1, StagedKeeps DEF Is
<1>5. Leases' /\ OneLivePerSource' /\ Results' /\ Promoting' /\ Publishing'
  BY <1>1 DEF Inv, Leases, OneLivePerSource, Results, Promoting, Publishing, At, Job, Owns, Is,
     Live, Saved, Decided
<1> QED
  BY <1>3, <1>4, <1>5 DEF Inv

LEMMA DeleteTrackKeeps ==
  ASSUME Inv, NEW p \in Path, DeleteTrack(p)
  PROVE  Inv'
<1>1. /\ UNCHANGED <<actor, staging, discarding, published, saved>>
      /\ tracks' \subseteq tracks /\ file' = [file EXCEPT ![p] = 0]
  BY DEF DeleteTrack
<1>2. ASSUME NEW j \in JobId
      PROVE  /\ jobs'[j] \in Row /\ jobs'[j].status = jobs[j].status
             /\ jobs'[j].source = jobs[j].source /\ jobs'[j].owner = jobs[j].owner
             /\ jobs'[j].lease = jobs[j].lease
             /\ jobs'[j].result \in {jobs[j].result, NoPath}
  <2>1. jobs[j] \in Row
    BY Rows DEF Inv, Types
  <2>2. jobs'[j] = IF jobs[j].result = p THEN [jobs[j] EXCEPT !.result = NoPath] ELSE jobs[j]
    BY DEF DeleteTrack
  <2> QED
    BY <2>1, <2>2 DEF Row
<1>3. RowsOK'
  BY <1>2 DEF DeleteTrack, RowsOK
<1>4. file' \in [Path -> 0..MaxJob]
  BY <1>1, AiBounds DEF Inv, Types, FilesOK
<1>5. Types'
  BY <1>1, <1>3, <1>4, WishTypes DEF DeleteTrack, Inv, Types, FilesOK, ActorsOK, At, Job
<1>6. Leases'
  BY <1>1, <1>2 DEF Inv, Leases, At, Job, Owns, Is, Types, ActorsOK, Actor
<1>7. OneLivePerSource' /\ Results'
  BY <1>1, <1>2 DEF Inv, OneLivePerSource, Live, Saved, Is, Results
<1>8. Promoting' /\ Publishing'
  BY <1>1, <1>2 DEF Inv, Promoting, Publishing, PastRender, Placing, At, Job, Is, Decided, Types, ActorsOK
<1>9. Staged'
  BY <1>1, <1>2 DEF Inv, Staged, StagedUntilDecided, Is, Decided, Types, FilesOK
<1> QED
  BY <1>5, <1>6, <1>7, <1>8, <1>9 DEF Inv

LEMMA TickKeeps ==
  ASSUME Inv, Tick
  PROVE  Inv'
<1>1. UNCHANGED <<staging, library, discarding, wishes, published, saved>>
  BY DEF Tick
<1>2. mishaps' \in 0..MaxMishaps
  <2>1. IsFiniteSet(JobId)
    BY AiBounds, FS_Interval DEF JobId
  <2>2. Lapsing \subseteq JobId
    BY DEF Lapsing
  <2>3. Cardinality(Lapsing) \in Nat
    BY <2>1, <2>2, FS_Subset, FS_CardinalityType
  <2>4. /\ mishaps \in Nat /\ mishaps + Cardinality(Lapsing) <= MaxMishaps
        /\ mishaps' = mishaps + Cardinality(Lapsing)
    BY AiBounds DEF Tick, Inv, Types, FilesOK
  <2> QED
    BY <2>3, <2>4, AiBounds
<1>3. ASSUME NEW j \in JobId
      PROVE  /\ jobs'[j] \in Row /\ jobs'[j].status = jobs[j].status
             /\ jobs'[j].source = jobs[j].source /\ jobs'[j].owner = jobs[j].owner
             /\ jobs'[j].result = jobs[j].result
             /\ Is(j, "running") /\ jobs[j].lease # Expired => jobs'[j].lease = jobs[j].lease - 1
  <2>1. jobs[j] \in Row
    BY Rows DEF Inv, Types
  <2>2. jobs'[j] = IF Is(j, "running") /\ jobs[j].lease # Expired
                   THEN [jobs[j] EXCEPT !.lease = @ - 1] ELSE jobs[j]
    BY DEF Tick
  <2> QED
    <3>1. jobs[j].lease \in -1..Lease
      BY <2>1 DEF Row, Expired
    <3>2. jobs[j].lease # -1 => jobs[j].lease - 1 \in -1..Lease
      BY <3>1, LeaseAssumption
    <3> QED
      BY <2>1, <2>2, <3>2 DEF Row, Expired
<1>4. ASSUME NEW a \in Actor
      PROVE  /\ actor'[a] \in Doing /\ actor'[a].at = actor[a].at /\ actor'[a].job = actor[a].job
             /\ actor'[a].path = actor[a].path
             /\ actor'[a].age = IF At(a, "render") /\ actor[a].age <= Lease
                                THEN actor[a].age + 1 ELSE actor[a].age
  <2>1. actor[a] \in Doing
    BY Actors DEF Inv, Types
  <2>2. actor'[a] = IF At(a, "render") /\ actor[a].age <= Lease
                    THEN [actor[a] EXCEPT !.age = @ + 1] ELSE actor[a]
    BY DEF Tick
  <2> QED
    BY <2>1, <2>2, LeaseAssumption DEF Doing
<1>5. RowsOK' /\ ActorsOK'
  BY <1>3, <1>4 DEF Tick, RowsOK, ActorsOK, Inv, Types, At, Job
<1>6. Types'
  BY <1>1, <1>2, <1>5 DEF Inv, Types, FilesOK, library
<1>7. Leases'
  <2> SUFFICES ASSUME NEW w \in Worker, At(w, "render")', actor'[w].age <= Lease
               PROVE  Owns(w, Job(w))' /\ jobs'[Job(w)'].lease = Lease - actor'[w].age
    BY DEF Leases
  <2>1. w \in Actor /\ Job(w)' = Job(w) /\ At(w, "render") /\ actor[w].age \in Nat /\ Job(w) \in JobId
    BY <1>4, Actors DEF Actor, At, Job, Inv, Types
  <2>2. actor[w].age <= Lease /\ actor'[w].age = actor[w].age + 1
    BY <1>4, <2>1, LeaseAssumption
  <2>3. Owns(w, Job(w)) /\ jobs[Job(w)].lease = Lease - actor[w].age
    BY <2>1, <2>2 DEF Inv, Leases
  <2>4. jobs[Job(w)].lease # Expired
    BY <2>1, <2>2, <2>3, LeaseAssumption DEF Expired
  <2> QED
    BY <1>3, <2>1, <2>2, <2>3, <2>4, LeaseAssumption DEF Owns, Is
<1>8. OneLivePerSource' /\ Results'
  BY <1>1, <1>3 DEF Inv, OneLivePerSource, Live, Saved, Is, Results
<1>9. Promoting' /\ Publishing'
  BY <1>1, <1>3, <1>4, Actors DEF Inv, Promoting, Publishing, PastRender, Placing, At, Job, Is, Decided,
     Types, Actor
<1>10. Staged'
  BY <1>1, <1>3 DEF Inv, Staged, StagedUntilDecided, Is, Decided, Types, FilesOK
<1> QED
  BY <1>6, <1>7, <1>8, <1>9, <1>10 DEF Inv

-----------------------------------------------------------------------------
(* A worker.                                                               *)

\* An actor that stops doing anything.
LEMMA Settles ==
  ASSUME Inv, NEW a \in Actor, NEW at \in {"idle", "down"},
         actor' = [actor EXCEPT ![a] = Doer(at)], UNCHANGED <<jobs, published, saved>>
  PROVE  /\ RowsOK' /\ ActorsOK' /\ Moved(a, Doer(at))
         /\ Leases' /\ OneLivePerSource' /\ Results' /\ Promoting' /\ Publishing'
<1>1. Doer(at) \in Doing /\ Doer(at).at = at
  BY Doers
<1>2. ActorsOK' /\ Moved(a, Doer(at))
  BY <1>1, Move DEF Inv, Types
<1>3. Leases' /\ OneLivePerSource' /\ Results' /\ Promoting' /\ Publishing'
  BY <1>1, <1>2, MoveKeeps DEF PastRender, Placing
<1> QED
  BY <1>2, <1>3 DEF Inv, Types, RowsOK

LEMMA StartKeeps ==
  ASSUME Inv, NEW v \in Worker, Start(v)
  PROVE  Inv'
<1>1. /\ staging' = staging \ Orphans
      /\ UNCHANGED <<jobs, library, discarding, counts, published, saved>>
  BY DEF Start
<1>2. /\ RowsOK' /\ ActorsOK'
      /\ Leases' /\ OneLivePerSource' /\ Results' /\ Promoting' /\ Publishing'
  BY <1>1, Settles DEF Start, Rest, Actor
<1>3. Types'
  BY <1>1, <1>2, TypesKeep
<1>4. \A j \in Orphans : j \in saved \/ ~Is(j, "done")
  BY DEF Orphans, Inv, Results, Saved, Is, Types, FilesOK
<1>5. Staged'
  BY <1>1, <1>4, StagedKeeps
<1> QED
  BY <1>2, <1>3, <1>5 DEF Inv

LEMMA CrashKeeps ==
  ASSUME Inv, NEW a \in Actor, Crash(a)
  PROVE  Inv'
<1>1. UNCHANGED <<jobs, staging, library, discarding, wishes, published, saved>>
  BY DEF Crash
<1>2. /\ RowsOK' /\ ActorsOK'
      /\ Leases' /\ OneLivePerSource' /\ Results' /\ Promoting' /\ Publishing'
  BY <1>1, Settles DEF Crash
<1>3. mishaps' \in 0..MaxMishaps
  BY MishapTypes DEF Crash
<1>4. Types'
  BY <1>1, <1>2, <1>3 DEF Inv, Types, FilesOK, library
<1>5. Staged'
  BY <1>1, StagedKeeps
<1> QED
  BY <1>2, <1>4, <1>5 DEF Inv

LEMMA ClaimKeeps ==
  ASSUME Inv, NEW v \in Worker, Claim(v)
  PROVE  Inv'
<1>1. PICK k \in JobId :
        /\ Runnable(k)
        /\ jobs' = [jobs EXCEPT ![k].status = "running", ![k].owner = v, ![k].lease = Lease]
        /\ actor' = [actor EXCEPT ![v] = [Doer("render") EXCEPT !.job = k]]
  BY DEF Claim
<1>2. UNCHANGED <<staging, library, discarding, counts, published, saved>>
  BY DEF Claim
<1> DEFINE q == [jobs[k] EXCEPT !.status = "running", !.owner = v, !.lease = Lease]
           r == [Doer("render") EXCEPT !.job = k]
<1>3. /\ q \in Row /\ q.status = "running" /\ q.owner = v /\ q.lease = Lease
      /\ q.source = jobs[k].source /\ q.result = jobs[k].result
  <2>1. jobs[k] \in Row /\ Lease \in Expired..Lease
    BY Rows, LeaseAssumption DEF Inv, Types, Expired
  <2> QED
    BY <2>1 DEF Row, Open
<1>4. r \in Doing /\ r.at = "render" /\ r.job = k /\ r.age = 0
  BY LeaseAssumption DEF Doer, Doing, Stops, JobId
<1>5. jobs' = [jobs EXCEPT ![k] = q]
  BY <1>1 DEF Inv, Types, RowsOK
<1>6. RowsOK' /\ Put(k, q)
  BY <1>3, <1>5, Write DEF Inv, Types
<1>7. ActorsOK' /\ Moved(v, r)
  BY <1>1, <1>4, Move DEF Inv, Types, Actor
<1> HIDE DEF q, r
<1>8. Types'
  BY <1>2, <1>6, <1>7, TypesKeep
<1>9. jobs[k].status \in Open /\ ~Decided(k) /\ (Is(k, "running") => jobs[k].lease = -1)
  BY <1>1 DEF Runnable, Is, Open, Decided, Expired
<1>10. Leases'
  <2> SUFFICES ASSUME NEW w \in Worker, At(w, "render")', actor'[w].age <= Lease
               PROVE  Owns(w, Job(w))' /\ jobs'[Job(w)'].lease = Lease - actor'[w].age
    BY DEF Leases
  <2>1. CASE w = v
    BY <1>3, <1>4, <1>6, <1>7, <2>1, LeaseAssumption DEF Moved, Put, Owns, Is, Job
  <2>2. CASE w # v
    <3>1. /\ At(w, "render") /\ Job(w) \in JobId /\ actor'[w] = actor[w] /\ Job(w)' = Job(w)
          /\ actor[w].age \in Nat
      BY <1>7, <2>2, Actors DEF Moved, At, Job, Inv, Types, Actor
    <3>2. Owns(w, Job(w)) /\ jobs[Job(w)].lease = Lease - actor[w].age
      BY <3>1 DEF Inv, Leases
    <3>3. Job(w) # k
      BY <1>9, <3>1, <3>2, LeaseAssumption DEF Owns
    <3> QED
      BY <1>6, <3>1, <3>2, <3>3 DEF Put, Owns, Is
  <2> QED
    BY <2>1, <2>2
<1>11. OneLivePerSource' /\ Results'
  BY <1>2, <1>3, <1>6, <1>9 DEF Inv, OneLivePerSource, Put, Live, Saved, Is, Results, Open
<1>12. Promoting' /\ Publishing'
  BY <1>2, <1>3, <1>4, <1>6, <1>7, <1>9, Actors DEF Inv, Promoting, Publishing, PastRender, Placing, Moved, Put,
     At, Job, Is, Decided, Types, Actor
<1>13. Staged'
  BY <1>2, <1>3, <1>6, <1>9 DEF Inv, Staged, StagedUntilDecided, Put, Is, Decided, Types, FilesOK
<1> QED
  BY <1>8, <1>10, <1>11, <1>12, <1>13 DEF Inv

LEMMA HeartbeatKeeps ==
  ASSUME Inv, NEW v \in Worker, Heartbeat(v)
  PROVE  Inv'
<1>1. /\ UNCHANGED <<staging, library, discarding, counts, published, saved>>
      /\ At(v, "render") /\ v \in Actor
  BY DEF Heartbeat, Actor
<1>2. CASE ~Owns(v, Job(v))
  <2>1. actor' = [actor EXCEPT ![v] = Doer("idle")] /\ UNCHANGED jobs
    BY <1>2 DEF Heartbeat, Rest
  <2>2. /\ RowsOK' /\ ActorsOK'
        /\ Leases' /\ OneLivePerSource' /\ Results' /\ Promoting' /\ Publishing'
    BY <1>1, <2>1, Settles
  <2>3. Types' /\ Staged'
    BY <1>1, <2>1, <2>2, TypesKeep, StagedKeeps
  <2> QED
    BY <2>2, <2>3 DEF Inv
<1>3. CASE Owns(v, Job(v))
  <2> DEFINE k == Job(v)
             q == [jobs[k] EXCEPT !.lease = Lease]
             r == [actor[v] EXCEPT !.age = 0, !.at = IF jobs[k].cancel THEN "cancel" ELSE @]
  <2>1. k \in JobId
    BY <1>1, Actors DEF Inv, Types, At
  <2>2. /\ q \in Row /\ q.status = jobs[k].status /\ q.owner = jobs[k].owner /\ q.lease = Lease
        /\ q.source = jobs[k].source /\ q.result = jobs[k].result
    <3>1. jobs[k] \in Row /\ Lease \in Expired..Lease
      BY <2>1, Rows, LeaseAssumption DEF Inv, Types, Expired
    <3> QED
      BY <3>1 DEF Row
  <2>3. r \in Doing /\ r.at \in {"render", "cancel"} /\ r.job = k /\ r.age = 0
    <3>1. actor[v] \in Doing /\ 0 \in 0..Lease + 1 /\ actor[v].at = "render"
      BY <1>1, Actors, LeaseAssumption DEF Inv, Types, At
    <3> QED
      BY <3>1 DEF Doing, Stops, Job
  <2>4. jobs' = [jobs EXCEPT ![k] = q] /\ actor' = [actor EXCEPT ![v] = r]
    BY <1>1, <1>3 DEF Heartbeat, Inv, Types, RowsOK, ActorsOK
  <2>5. RowsOK' /\ Put(k, q)
    BY <2>1, <2>2, <2>4, Write DEF Inv, Types
  <2>6. ActorsOK' /\ Moved(v, r)
    BY <1>1, <2>1, <2>3, <2>4, Move DEF Inv, Types
  <2> HIDE DEF q, r, k
  <2>7. Types'
    BY <1>1, <2>5, <2>6, TypesKeep
  <2>8. Is(k, "running") /\ jobs[k].owner = v
    BY <1>3 DEF Owns, k
  <2>9. Leases'
    <3> SUFFICES ASSUME NEW w \in Worker, At(w, "render")', actor'[w].age <= Lease
                 PROVE  Owns(w, Job(w))' /\ jobs'[Job(w)'].lease = Lease - actor'[w].age
      BY DEF Leases
    <3>1. CASE w = v
      BY <2>2, <2>3, <2>5, <2>6, <2>8, <3>1, LeaseAssumption DEF Moved, Put, Owns, Is, Job
    <3>2. CASE w # v
      <4>1. /\ At(w, "render") /\ Job(w) \in JobId /\ actor'[w] = actor[w] /\ Job(w)' = Job(w)
        BY <2>6, <3>2, Actors DEF Moved, At, Job, Inv, Types, Actor
      <4>2. Owns(w, Job(w)) /\ jobs[Job(w)].lease = Lease - actor[w].age
        BY <4>1 DEF Inv, Leases
      <4>3. Job(w) # k
        BY <2>8, <3>2, <4>2 DEF Owns
      <4> QED
        BY <2>5, <4>1, <4>2, <4>3 DEF Put, Owns, Is
    <3> QED
      BY <3>1, <3>2
  <2>10. OneLivePerSource' /\ Results'
    BY <1>1, <2>2, <2>5 DEF Inv, OneLivePerSource, Put, Live, Saved, Is, Results
  <2>11. Promoting' /\ Publishing'
    BY <1>1, <2>2, <2>3, <2>5, <2>6, Actors DEF Inv, Promoting, Publishing, PastRender, Placing, Moved, Put,
       At, Job, Is, Decided, Types, Actor
  <2>12. Staged'
    BY <1>1, <2>2, <2>5 DEF Inv, Staged, StagedUntilDecided, Put, Is, Decided, Types, FilesOK
  <2> QED
    BY <2>7, <2>9, <2>10, <2>11, <2>12 DEF Inv
<1> QED
  BY <1>2, <1>3

\* The owner of a job ends it, and rests or goes on to publish.
LEMMA EndKeeps ==
  ASSUME Inv, NEW v \in Worker, Job(v) \in JobId, ~At(v, "publish"), Owns(v, Job(v)),
         NEW status \in Terminal,
         jobs' = [jobs EXCEPT ![Job(v)] = Ended(Job(v), status)],
         NEW r \in Doing, Moved(v, r), ActorsOK',
         r.at = "idle" \/ (r.at = "publish" /\ r.job = Job(v) /\ status = "done"),
         UNCHANGED <<staging, library, discarding, counts, published, saved>>
  PROVE  Inv'
<1> DEFINE k == Job(v)
           q == Ended(k, status)
<1>1. q \in Row /\ q.status = status /\ q.source = jobs[k].source /\ q.result = NoPath
  BY EndedRow DEF Inv, Types
<1>2. RowsOK' /\ Put(k, q)
  BY <1>1, Write DEF Inv, Types
<1>3. k \in JobId /\ Is(k, "running") /\ jobs[k].owner = v
  BY DEF Owns
<1> HIDE DEF k, q
<1>4. Types'
  BY <1>2, TypesKeep
<1>5. Leases'
  <2> SUFFICES ASSUME NEW w \in Worker, At(w, "render")', actor'[w].age <= Lease
               PROVE  Owns(w, Job(w))' /\ jobs'[Job(w)'].lease = Lease - actor'[w].age
    BY DEF Leases
  <2>1. w # v
    BY DEF Moved, At
  <2>2. /\ At(w, "render") /\ Job(w) \in JobId /\ actor'[w] = actor[w] /\ Job(w)' = Job(w)
    BY <2>1, Actors DEF Moved, At, Job, Inv, Types, Actor
  <2>3. Owns(w, Job(w)) /\ jobs[Job(w)].lease = Lease - actor[w].age
    BY <2>2 DEF Inv, Leases
  <2>4. Job(w) # k
    BY <1>3, <2>1, <2>3 DEF Owns
  <2> QED
    BY <1>2, <2>2, <2>3, <2>4 DEF Put, Owns, Is
<1>6. OneLivePerSource' /\ Results'
  BY <1>1, <1>2, <1>3 DEF Inv, OneLivePerSource, Put, Live, Saved, Is, Results, Open, Terminal
<1>7. Promoting'
  <2> SUFFICES ASSUME NEW a \in Actor
               PROVE  /\ actor'[a].at \in PastRender => Decided(Job(a))'
                      /\ actor'[a].at \in Placing => actor'[a].path \in Path
                      /\ At(a, "drop")' => Job(a)' \in saved' \/ Is(Job(a), "cancelled")'
    BY DEF Promoting
  <2>1. CASE a = v
    BY <1>1, <1>2, <2>1 DEF Moved, Put, At, Job, Is, Decided, PastRender, Placing, k
  <2>2. CASE a # v
    <3>1. actor'[a] = actor[a]
      BY <2>2 DEF Moved
    <3>2. /\ actor[a].at \in PastRender => Decided(Job(a)) /\ Job(a) \in JobId
          /\ actor[a].at \in Placing => actor[a].path \in Path
          /\ At(a, "drop") => Job(a) \in saved \/ Is(Job(a), "cancelled")
      BY Actors DEF Inv, Promoting, Types, At, PastRender, Placing
    <3>3. \A j \in JobId : Decided(j) => jobs'[j] = jobs[j]
      BY <1>2, <1>3 DEF Put, Decided, Is
    <3> QED
      BY <3>1, <3>2, <3>3 DEF At, Job, Is, Decided, PastRender, Placing
  <2> QED
    BY <2>1, <2>2
<1>8. k \notin published
  BY <1>3 DEF Inv, Staged, Decided, Is
<1>9. Publishing'
  <2>1. \A w \in Worker : At(w, "publish") => Job(w) # k
    BY <1>3, Actors DEF Inv, Promoting, PastRender, Placing, Decided, Is, At, Actor
  <2> QED
    BY <1>8, <2>1 DEF Inv, Publishing, Moved, At, Job, Actor, k
<1>10. Staged'
  BY <1>1, <1>2, <1>3, <1>8 DEF Inv, Staged, StagedUntilDecided, Put, Is, Decided, Types, FilesOK
<1> QED
  BY <1>4, <1>5, <1>6, <1>7, <1>9, <1>10 DEF Inv

\* A worker ends a job as failed or cancelled, or finds that it lost it.
LEMMA FinishKeeps ==
  ASSUME Inv, NEW v \in Worker, At(v, "render") \/ At(v, "cancel"), NEW status \in Terminal,
         Finish(v, status), Rest(v),
         UNCHANGED <<staging, library, discarding, counts, published, saved>>
  PROVE  Inv'
<1>1. v \in Actor /\ Job(v) \in JobId /\ ~At(v, "publish")
  BY Actors DEF Actor, Inv, Types, At
<1>2. ActorsOK' /\ Moved(v, Doer("idle")) /\ Doer("idle") \in Doing /\ Doer("idle").at = "idle"
  BY <1>1, Resting, Doers DEF Inv, Types
<1>3. CASE Owns(v, Job(v))
  <2>1. jobs' = [jobs EXCEPT ![Job(v)] = Ended(Job(v), status)]
    BY <1>3 DEF Finish
  <2> QED
    BY <1>1, <1>2, <1>3, <2>1, EndKeeps
<1>4. CASE ~Owns(v, Job(v))
  <2>1. jobs' = jobs
    BY <1>1, <1>4 DEF Finish, Inv, Types, RowsOK
  <2>2. /\ RowsOK' /\ ActorsOK'
        /\ Leases' /\ OneLivePerSource' /\ Results' /\ Promoting' /\ Publishing'
    BY <1>1, <2>1, Settles DEF Rest
  <2>3. Types' /\ Staged'
    BY <2>1, <2>2, TypesKeep, StagedKeeps
  <2> QED
    BY <2>2, <2>3 DEF Inv
<1> QED
  BY <1>3, <1>4

LEMMA EndingsKeep ==
  ASSUME Inv, NEW v \in Worker, MarkCancelled(v) \/ RenderFails(v)
  PROVE  Inv'
  BY FinishKeeps DEF MarkCancelled, RenderFails, Terminal

LEMMA MarkDoneKeeps ==
  ASSUME Inv, NEW v \in Worker, MarkDone(v)
  PROVE  Inv'
<1>1. /\ v \in Actor /\ Job(v) \in JobId /\ ~At(v, "publish") /\ At(v, "render")
      /\ Finish(v, "done") /\ "done" \in Terminal
      /\ UNCHANGED <<staging, library, discarding, counts, published, saved>>
  BY Actors DEF Actor, Inv, Types, At, MarkDone, Terminal
<1>2. CASE Owns(v, Job(v))
  <2>1. PICK r \in Doing : ActorsOK' /\ Moved(v, r) /\ r.at = "publish" /\ r.job = Job(v)
    BY <1>1, <1>2, Going DEF MarkDone, Inv, Types, Stops
  <2>2. jobs' = [jobs EXCEPT ![Job(v)] = Ended(Job(v), "done")]
    BY <1>1, <1>2 DEF Finish
  <2> QED
    BY <1>1, <1>2, <2>1, <2>2, EndKeeps
<1>3. CASE ~Owns(v, Job(v))
  BY <1>1, <1>3, FinishKeeps DEF MarkDone
<1> QED
  BY <1>2, <1>3

LEMMA PublishKeeps ==
  ASSUME Inv, NEW v \in Worker, Publish(v)
  PROVE  Inv'
<1> DEFINE k == Job(v)
<1>1. /\ v \in Actor /\ k \in JobId /\ At(v, "publish") /\ Decided(k) /\ k \notin published
      /\ UNCHANGED <<jobs, library, discarding, counts, saved>>
      /\ staging' = staging \cup {k} /\ published' = published \cup {k}
  BY Actors DEF Actor, Inv, Types, At, Publish, Promoting, PastRender, Placing, Publishing
<1>2. PICK r \in Doing : /\ ActorsOK' /\ Moved(v, r)
                         /\ r.at = "idle" \/ (r.at = "promote" /\ r.job = k)
  <2>1. CASE Go(v, "promote")
    BY <1>1, <2>1, Going DEF Inv, Types, Stops
  <2>2. CASE Rest(v)
    BY <1>1, <2>2, Resting, Doers DEF Inv, Types
  <2> QED
    BY <2>1, <2>2 DEF Publish
<1>3. \A w \in Worker : w # v /\ At(w, "publish") => Job(w) # k
  BY <1>1 DEF Inv, Publishing
<1> HIDE DEF k
<1>4. Types'
  BY <1>1, <1>2 DEF Inv, Types, RowsOK, FilesOK, library, counts
<1>5. Leases'
  BY <1>1, <1>2 DEF Inv, Leases, Moved, At, Job, Owns, Is, Actor
<1>6. OneLivePerSource' /\ Results'
  BY <1>1 DEF Inv, OneLivePerSource, Live, Saved, Is, Results
<1>7. Promoting'
  BY <1>1, <1>2 DEF Inv, Promoting, PastRender, Placing, Moved, At, Job, Is, Decided
<1>8. Publishing'
  BY <1>1, <1>2, <1>3 DEF Inv, Publishing, Moved, At, Job, Actor
<1>9. Staged'
  BY <1>1 DEF Inv, Staged, StagedUntilDecided, Is, Decided
<1> QED
  BY <1>4, <1>5, <1>6, <1>7, <1>8, <1>9 DEF Inv

-----------------------------------------------------------------------------
(* Saving.                                                                 *)

LEMMA BeginKeeps ==
  ASSUME Inv, NEW a \in Actor, NEW k \in JobId, Begin(a, k)
  PROVE  Inv'
<1>1. UNCHANGED <<jobs, staging, library, discarding, counts, published, saved>>
  BY DEF Begin
<1>2. CASE Unsaved(k) /\ k \in staging
  <2>1. PICK p \in Path :
          actor' = [actor EXCEPT ![a] = [Doer("copy") EXCEPT !.job = k, !.path = p]]
    BY <1>2 DEF Begin
  <2> DEFINE r == [Doer("copy") EXCEPT !.job = k, !.path = p]
  <2>2. r \in Doing /\ r.at = "copy" /\ r.job = k /\ r.path = p
    <3>1. Doer("copy") \in Doing /\ Doer("copy").at = "copy" /\ k \in 0..MaxJob
      BY LeaseAssumption, AiBounds DEF Doer, Doing, Stops, JobId
    <3> QED
      BY <3>1 DEF Doing
  <2> HIDE DEF r
  <2>3. ActorsOK' /\ Moved(a, r)
    BY <2>1, <2>2, Move DEF Inv, Types, r
  <2>4. Leases' /\ OneLivePerSource' /\ Results' /\ Promoting' /\ Publishing'
    BY <1>1, <1>2, <2>2, <2>3, MoveKeeps DEF Unsaved, Decided
  <2>5. RowsOK'
    BY <1>1 DEF Inv, Types, RowsOK
  <2>6. Types' /\ Staged'
    BY <1>1, <2>3, <2>5, TypesKeep, StagedKeeps
  <2> QED
    BY <2>4, <2>6 DEF Inv
<1>3. CASE ~(Unsaved(k) /\ k \in staging)
  <2>1. /\ RowsOK' /\ ActorsOK'
        /\ Leases' /\ OneLivePerSource' /\ Results' /\ Promoting' /\ Publishing'
    BY <1>1, <1>3, Settles DEF Begin, Rest
  <2>2. Types' /\ Staged'
    BY <1>1, <2>1, TypesKeep, StagedKeeps
  <2> QED
    BY <2>1, <2>2 DEF Inv
<1> QED
  BY <1>2, <1>3

\* One step on in a save that leaves the rows and the staging as they are.
LEMMA OnKeeps ==
  ASSUME Inv, NEW a \in Actor, actor[a].at \in {"copy", "register", "record"},
         \/ \E stop \in {"register", "record", "cleanup"} : Go(a, stop)
         \/ Rest(a),
         UNCHANGED <<jobs, staging, discarding, published, saved>>,
         file' \in [Path -> 0..MaxJob], tracks' \subseteq Path,
         mishaps' \in 0..MaxMishaps, wishes' = wishes
  PROVE  Inv'
<1>1. Job(a) \in JobId /\ Decided(Job(a)) /\ actor[a].path \in Path
  BY Actors DEF Inv, Types, At, Promoting, PastRender, Placing
<1>2. PICK r \in Doing : /\ ActorsOK' /\ Moved(a, r)
                         /\ \/ r.at = "idle"
                            \/ r.at \in {"register", "record", "cleanup"} /\ r.job = Job(a)
                               /\ r.path = actor[a].path
  <2>1. CASE Rest(a)
    BY <2>1, Resting, Doers DEF Inv, Types
  <2>2. ASSUME NEW stop \in {"register", "record", "cleanup"}, Go(a, stop)
        PROVE  \E r \in Doing :
                 /\ ActorsOK' /\ Moved(a, r)
                 /\ r.at = stop /\ r.job = Job(a) /\ r.path = actor[a].path
    BY <1>1, <2>2, Going DEF Inv, Types, Stops
  <2> QED
    BY <2>1, <2>2
<1>3. Leases' /\ OneLivePerSource' /\ Results' /\ Promoting' /\ Publishing'
  BY <1>1, <1>2, MoveKeeps DEF PastRender, Placing
<1>4. Types' /\ Staged'
  BY <1>2, StagedKeeps DEF Inv, Types, RowsOK, FilesOK
<1> QED
  BY <1>3, <1>4 DEF Inv

LEMMA CopyKeeps ==
  ASSUME Inv, NEW a \in Actor, Copy(a)
  PROVE  Inv'
<1>1. Job(a) \in JobId
  BY Actors DEF Copy, At, Inv, Types
<1>2. file' \in [Path -> 0..MaxJob]
  BY <1>1, AiBounds DEF Copy, Inv, Types, FilesOK, JobId
<1> QED
  BY <1>2, OnKeeps DEF Copy, At, Inv, Types, FilesOK, counts

LEMMA RegisterKeeps ==
  ASSUME Inv, NEW a \in Actor, Register(a)
  PROVE  Inv'
<1>1. actor[a].path \in Path /\ file \in [Path -> 0..MaxJob] /\ tracks \subseteq Path
  BY DEF Inv, Types, FilesOK, Promoting, Placing, Register, At
<1>2. mishaps' \in 0..MaxMishaps
  BY MishapTypes DEF Register, Inv, Types, FilesOK
<1>3. tracks' \in {tracks, tracks \cup {actor[a].path}}
  BY DEF Register
<1>4. \/ \E stop \in {"register", "record", "cleanup"} : Go(a, stop)
      \/ Rest(a)
  BY DEF Register
<1>5. /\ UNCHANGED <<jobs, staging, discarding, published, saved>> /\ file' = file
      /\ wishes' = wishes /\ actor[a].at \in {"copy", "register", "record"}
  BY DEF Register, At
<1> QED
  BY <1>1, <1>2, <1>3, <1>4, <1>5, OnKeeps

LEMMA RecordKeeps ==
  ASSUME Inv, NEW a \in Actor, Record(a)
  PROVE  Inv'
<1> DEFINE k == Job(a)
           p == actor[a].path
<1>1. /\ k \in JobId /\ Decided(k) /\ p \in Path /\ At(a, "record")
      /\ UNCHANGED <<staging, library, discarding, counts, published>>
  BY Actors DEF Inv, Types, At, Promoting, PastRender, Placing, Record
<1>2. CASE ~(p \in tracks /\ (Is(k, "done") => IndexAllows(k)))
  <2>1. Go(a, "cleanup") /\ UNCHANGED <<jobs, saved>>
    BY <1>2 DEF Record
  <2>2. /\ file' \in [Path -> 0..MaxJob] /\ tracks' \subseteq Path
        /\ mishaps' \in 0..MaxMishaps /\ wishes' = wishes
    BY <1>1 DEF Inv, Types, FilesOK, library, counts
  <2> QED
    BY <1>1, <2>1, <2>2, OnKeeps DEF At
<1>3. CASE p \in tracks /\ (Is(k, "done") => IndexAllows(k))
  <2>1. Attach(k, p) /\ Go(a, "drop")
    BY <1>3 DEF Record
  <2>2. PICK r \in Doing :
          ActorsOK' /\ Moved(a, r) /\ r.at = "drop" /\ r.job = k /\ r.path = p
    BY <1>1, <2>1, Going DEF Inv, Types, Stops
  <2>3. CASE ~Is(k, "done")
    <3>1. UNCHANGED <<jobs, saved>>
      BY <2>1, <2>3 DEF Attach
    <3>2. Leases' /\ OneLivePerSource' /\ Results' /\ Promoting' /\ Publishing'
      BY <1>1, <2>2, <2>3, <3>1, MoveKeeps DEF Decided
    <3>3. RowsOK'
      BY <3>1 DEF Inv, Types, RowsOK
    <3>4. Types' /\ Staged'
      BY <1>1, <2>2, <3>1, <3>3, TypesKeep, StagedKeeps
    <3> QED
      BY <3>2, <3>4 DEF Inv
  <2>4. CASE Is(k, "done")
    <3> DEFINE q == [jobs[k] EXCEPT !.result = p]
    <3>1. /\ q \in Row /\ q.status = "done" /\ q.source = jobs[k].source /\ q.result = p
      BY <1>1, <2>4, Rows DEF Row, Inv, Types, Is
    <3>2. jobs' = [jobs EXCEPT ![k] = q] /\ saved' = saved \cup {k}
      BY <2>1, <2>4 DEF Attach, Inv, Types, RowsOK
    <3>3. RowsOK' /\ Put(k, q)
      BY <1>1, <3>1, <3>2, Write DEF Inv, Types
    <3> HIDE DEF q, k, p
    <3>4. Types'
      BY <1>1, <2>2, <3>2, <3>3 DEF Inv, Types, FilesOK, library, counts
    <3>5. Leases'
      BY <2>2, <2>4, <3>1, <3>3, Actors DEF Inv, Leases, Moved, Put, At, Job, Owns, Is, Types, Actor
    <3>6. OneLivePerSource'
      <4>1. \A i \in JobId : i # k /\ jobs[i].source = jobs[k].source => ~Live(i)
        BY <1>3, <2>4 DEF IndexAllows, Same, Live, Saved, Is, Open, k
      <4> QED
        BY <3>1, <3>3, <4>1 DEF Inv, OneLivePerSource, Put, Live, Saved, Is
    <3>7. Results'
      BY <3>1, <3>2, <3>3 DEF Inv, Results, Put, Is
    <3>8. Promoting'
      <4> SUFFICES ASSUME NEW b \in Actor
                   PROVE  /\ actor'[b].at \in PastRender => Decided(Job(b))'
                          /\ actor'[b].at \in Placing => actor'[b].path \in Path
                          /\ At(b, "drop")' => Job(b)' \in saved' \/ Is(Job(b), "cancelled")'
        BY DEF Promoting
      <4>1. CASE b = a
        BY <1>1, <2>2, <3>1, <3>2, <3>3, <4>1 DEF Moved, Put, At, Job, Is, Decided
      <4>2. CASE b # a
        <5>1. actor'[b] = actor[b]
          BY <2>2, <4>2 DEF Moved
        <5>2. /\ actor[b].at \in PastRender => Decided(Job(b)) /\ Job(b) \in JobId
              /\ actor[b].at \in Placing => actor[b].path \in Path
              /\ At(b, "drop") => Job(b) \in saved \/ Is(Job(b), "cancelled")
          BY Actors DEF Inv, Promoting, Types, At, PastRender, Placing
        <5>3. \A j \in JobId : jobs'[j].status = jobs[j].status
          BY <2>4, <3>1, <3>3 DEF Put, Is
        <5> QED
          BY <3>2, <5>1, <5>2, <5>3 DEF At, Job, Is, Decided, PastRender, Placing
      <4> QED
        BY <4>1, <4>2
    <3>9. Publishing'
      BY <1>1, <2>2 DEF Inv, Publishing, Moved, At, Job, Actor
    <3>10. Staged'
      <4>1. \A j \in JobId : jobs'[j].status = jobs[j].status
        BY <2>4, <3>1, <3>3 DEF Put, Is
      <4> QED
        BY <1>1, <3>2, <4>1 DEF Inv, Staged, StagedUntilDecided, Is, Decided, Types, FilesOK
    <3> QED
      BY <3>4, <3>5, <3>6, <3>7, <3>8, <3>9, <3>10 DEF Inv
  <2> QED
    BY <2>3, <2>4
<1> QED
  BY <1>2, <1>3

LEMMA DropKeeps ==
  ASSUME Inv, NEW a \in Actor, Drop(a)
  PROVE  Inv'
<1>1. /\ UNCHANGED <<jobs, library, discarding, counts, published, saved>>
      /\ staging' = staging \ {Job(a)} /\ Rest(a) /\ At(a, "drop")
  BY DEF Drop
<1>2. /\ RowsOK' /\ ActorsOK'
      /\ Leases' /\ OneLivePerSource' /\ Results' /\ Promoting' /\ Publishing'
  BY <1>1, Settles DEF Rest
<1>3. Job(a) \in saved \/ ~Is(Job(a), "done")
  BY <1>1 DEF Inv, Promoting, Is
<1>4. Types' /\ Staged'
  BY <1>1, <1>2, <1>3, TypesKeep, StagedKeeps
<1> QED
  BY <1>2, <1>4 DEF Inv

LEMMA CleanupKeeps ==
  ASSUME Inv, NEW a \in Actor, Cleanup(a)
  PROVE  Inv'
<1>1. /\ UNCHANGED <<jobs, staging, tracks, discarding, counts, published, saved>> /\ Rest(a)
      /\ file' = [file EXCEPT ![actor[a].path] = 0]
  BY DEF Cleanup
<1>2. /\ RowsOK' /\ ActorsOK'
      /\ Leases' /\ OneLivePerSource' /\ Results' /\ Promoting' /\ Publishing'
  BY <1>1, Settles DEF Rest
<1>3. file' \in [Path -> 0..MaxJob]
  <2>1. file \in [Path -> 0..MaxJob] /\ 0 \in 0..MaxJob
    BY AiBounds DEF Inv, Types, FilesOK
  <2> QED
    BY <1>1, <2>1
<1>4. Types' /\ Staged'
  BY <1>1, <1>2, <1>3, StagedKeeps DEF Inv, Types, FilesOK, counts
<1> QED
  BY <1>2, <1>4 DEF Inv

-----------------------------------------------------------------------------
(* The specification.                                                      *)

LEMMA InitHolds ==
  ASSUME AiInit
  PROVE  Inv
<1>1. Types
  <2>1. RowsOK
    BY NewRows DEF AiInit, RowsOK
  <2>2. ActorsOK
    BY Doers DEF AiInit, ActorsOK, At
  <2>3. FilesOK
    BY AiBounds DEF AiInit, FilesOK
  <2> QED
    BY <2>1, <2>2, <2>3 DEF Types
<1>2. \A a \in Actor : actor[a].at \in {"down", "idle"}
  BY Doers DEF AiInit
<1>3. \A j \in JobId : jobs[j].status = "absent" /\ jobs[j].result = NoPath
  BY DEF AiInit, NoRow
<1>4. Leases /\ Promoting /\ Publishing
  BY <1>2 DEF Leases, Promoting, Publishing, PastRender, Placing, At, Actor
<1>5. OneLivePerSource /\ Results
  BY <1>3 DEF OneLivePerSource, Results, Live, Saved, Is, Open
<1>6. Staged
  BY DEF AiInit, Staged, StagedUntilDecided
<1> QED
  BY <1>1, <1>4, <1>5, <1>6 DEF Inv

LEMMA StepKeeps ==
  ASSUME Inv, [AiNext]_vars
  PROVE  Inv'
<1>1. CASE UNCHANGED vars
  BY <1>1 DEF vars, library, counts, Inv, Types, RowsOK, ActorsOK, FilesOK, Leases,
     OneLivePerSource, Results, Promoting, Staged, StagedUntilDecided, Publishing, At, Job, Owns, Is,
     Live, Saved, Decided
<1>2. ASSUME NEW s \in Source, Enqueue(s) PROVE Inv'
  BY <1>2, EnqueueKeeps
<1>3. ASSUME NEW j \in JobId, RequestCancel(j) \/ Discard(j) \/ DiscardFile(j) PROVE Inv'
  BY <1>3, RequestCancelKeeps, DiscardKeeps, DiscardFileKeeps
<1>4. ASSUME NEW p \in Path, DeleteTrack(p) PROVE Inv'
  BY <1>4, DeleteTrackKeeps
<1>5. CASE Tick
  BY <1>5, TickKeeps
<1>6. ASSUME NEW w \in Worker, WorkerStep(w) PROVE Inv'
  <2>1. CASE Promote(w)
    <3>1. w \in Actor /\ Job(w) \in JobId
      BY <2>1, Actors DEF Promote, Inv, Types, At, Actor
    <3> QED
      BY <2>1, <3>1, BeginKeeps DEF Promote
  <2> QED
    BY <1>6, <2>1, StartKeeps, ClaimKeeps, HeartbeatKeeps, EndingsKeep, MarkDoneKeeps, PublishKeeps
       DEF WorkerStep
<1>7. ASSUME NEW v \in Saver, NEW j \in JobId, Save(v, j) PROVE Inv'
  BY <1>7, BeginKeeps DEF Save, Actor
<1>8. ASSUME NEW a \in Actor, Saving(a) \/ Crash(a) PROVE Inv'
  BY <1>8, CopyKeeps, RegisterKeeps, RecordKeeps, DropKeeps, CleanupKeeps, CrashKeeps DEF Saving
<1> QED
  BY <1>1, <1>2, <1>3, <1>4, <1>5, <1>6, <1>7, <1>8 DEF AiNext

\* The inductive invariant holds in every state.
THEOREM InvariantHolds == AiSpec => []Inv
<1>1. AiInit => Inv
  BY InitHolds
<1>2. Inv /\ [AiNext]_vars => Inv'
  BY StepKeeps
<1> QED
  BY <1>1, <1>2, PTL DEF AiSpec

\* Every variable keeps its type, and a track is attached to no job but one that
\* is done: attach_result_track looks at the row in the transaction that writes it.
THEOREM TypesHold == AiSpec => []AiTypeOK
<1>1. Inv => AiTypeOK
  BY DEF Inv, Types, RowsOK, ActorsOK, FilesOK, Results, AiTypeOK
<1> QED
  BY <1>1, InvariantHolds, PTL

\* A claim renewed within the lease is still held: claim_next only takes rows
\* whose lease has run out, and every end of a job looks at the owner.
THEOREM ClaimsProtect == AiSpec => []LeaseProtects
<1>1. Inv => LeaseProtects
  BY DEF Inv, Leases, LeaseProtects
<1> QED
  BY <1>1, InvariantHolds, PTL

\* The dedup probe of an enqueue and the unique index under a late save leave one
\* open or saved job for each source.
THEOREM SourcesUnique == AiSpec => []OneLivePerSource
<1>1. Inv => OneLivePerSource
  BY DEF Inv
<1> QED
  BY <1>1, InvariantHolds, PTL

\* Nothing takes a finished render out of staging before it was decided on.
THEOREM RendersWait == AiSpec => []StagedUntilDecided
<1>1. Inv => StagedUntilDecided
  BY DEF Inv, Staged
<1> QED
  BY <1>1, InvariantHolds, PTL

\* A render is published once: only the owner that ended its job as done gets
\* there, and a done job is never claimed again.
THEOREM NoResurrection == AiSpec => PublishedOnce
<1>1. ASSUME Inv, [AiNext]_vars, NEW j \in published, j \notin staging
      PROVE  j \notin staging'
  <2>1. CASE UNCHANGED vars
    BY <1>1, <2>1 DEF vars
  <2>2. ASSUME NEW w \in Worker, Publish(w) PROVE j \notin staging'
    BY <1>1, <2>2 DEF Publish, Inv, Publishing
  <2>3. ASSUME NEW w \in Worker, WorkerStep(w), ~Publish(w) PROVE j \notin staging'
    BY <1>1, <2>3 DEF WorkerStep, Start, Claim, Heartbeat, MarkCancelled, RenderFails, MarkDone,
       Promote, Begin
  <2>4. ASSUME NEW a \in Actor, Saving(a) \/ Crash(a) PROVE j \notin staging'
    BY <1>1, <2>4 DEF Saving, Copy, Register, Record, Drop, Cleanup, Crash
  <2>5. ASSUME NEW s \in Source, Enqueue(s) PROVE j \notin staging'
    BY <1>1, <2>5 DEF Enqueue
  <2>6. ASSUME NEW i \in JobId, RequestCancel(i) \/ Discard(i) \/ DiscardFile(i)
        PROVE  j \notin staging'
    BY <1>1, <2>6 DEF RequestCancel, Discard, DiscardFile
  <2>7. ASSUME NEW p \in Path, DeleteTrack(p) PROVE j \notin staging'
    BY <1>1, <2>7 DEF DeleteTrack
  <2>8. CASE Tick
    BY <1>1, <2>8 DEF Tick
  <2>9. ASSUME NEW v \in Saver, NEW i \in JobId, Save(v, i) PROVE j \notin staging'
    BY <1>1, <2>9 DEF Save, Begin
  <2> QED
    BY <1>1, <2>1, <2>2, <2>3, <2>4, <2>5, <2>6, <2>7, <2>8, <2>9 DEF AiNext
<1>2. Inv /\ [AiNext]_vars => [\A j \in published : j \notin staging => j \notin staging']_vars
  BY <1>1
<1> QED
  BY <1>2, InvariantHolds, PTL DEF AiSpec, PublishedOnce
=============================================================================
