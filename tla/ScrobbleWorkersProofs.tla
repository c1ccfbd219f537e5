----------------------- MODULE ScrobbleWorkersProofs -----------------------
(***************************************************************************)
(* Proofs about ScrobbleWorkers for any number of listens, workers, faults *)
(* and crashes: one thread drains at a time; a listen is submitted twice   *)
(* only after an answer was lost, also by threads of two accounts and when *)
(* a disconnect lets row ids be used again; the counter in the settings is *)
(* exact; and without a disconnect no listen leaves the queue before it    *)
(* was submitted, and listens are submitted in the order in which they     *)
(* were heard.                                                             *)
(***************************************************************************)
EXTENDS ScrobbleWorkers, FiniteSetTheorems, FunctionTheorems, TLAPS

\* The threads: well typed, and the lock with the one that drains.
Threads ==
  /\ worker \in Seq(Worker) /\ current \in 0..Len(worker)
  /\ lock \in Nat /\ DrainLock
  /\ \A w \in DOMAIN worker : IsFiniteSet(worker[w].batch)

\* The database and the history.
Records ==
  /\ rows \subseteq Row /\ IsFiniteSet(rows) /\ submitted \in Nat
  /\ sent \in [Listens -> Seq(Nat)]
  /\ cleared \subseteq Listens /\ unsure \in Nat

Rest ==
  /\ enabled \in BOOLEAN /\ running \in BOOLEAN
  /\ heard \in 0..MaxListens /\ plays \in Nat /\ faults \in Nat /\ crashes \in Nat

Inv == Threads /\ Records /\ Rest

-----------------------------------------------------------------------------
(* The thread table.                                                       *)

LEMMA WorkerKinds ==
  /\ NewWorker \in Worker /\ NewWorker.at = "open" /\ NewWorker.batch = {}
  /\ Over \in Worker /\ Over.at = "over" /\ Over.batch = {}
<1>1. <<>> \in Seq(Commands)
  OBVIOUS
<1> QED
  BY <1>1 DEF NewWorker, Over, Worker, Stops

\* Rewriting the record of one thread.
LEMMA Rewritten ==
  ASSUME NEW before \in Seq(Worker), NEW w \in DOMAIN before, NEW r \in Worker,
         NEW after, after = [before EXCEPT ![w] = r]
  PROVE  /\ after \in Seq(Worker) /\ Len(after) = Len(before)
         /\ DOMAIN after = DOMAIN before /\ after[w] = r
         /\ \A v \in DOMAIN before : v # w => after[v] = before[v]
  OBVIOUS

\* A step of thread w keeps the table sound if it takes and returns the lock as it
\* enters and leaves the drain.
LEMMA ThreadStep ==
  ASSUME Threads, NEW w \in DOMAIN worker, NEW r \in Worker, IsFiniteSet(r.batch),
         worker' = [worker EXCEPT ![w] = r], current' = current,
         \/ lock' = lock /\ (r.at \in Draining <=> worker[w].at \in Draining)
         \/ lock' = 0 /\ r.at \notin Draining /\ worker[w].at \in Draining
         \/ lock' = w /\ lock = 0 /\ r.at \in Draining
  PROVE  Threads'
<1>1. /\ worker' \in Seq(Worker) /\ Len(worker') = Len(worker)
      /\ DOMAIN worker' = DOMAIN worker /\ worker'[w] = r
      /\ \A v \in DOMAIN worker : v # w => worker'[v] = worker[v]
  BY Rewritten DEF Threads
<1>2. w \in Nat /\ w # 0
  BY DEF Threads
<1>3. lock' \in Nat
  BY <1>2 DEF Threads
<1>4. \A v \in DOMAIN worker' : IsFiniteSet(worker'[v].batch)
  BY <1>1 DEF Threads
<1>5. lock' # 0 => lock' \in DOMAIN worker'
  BY <1>1 DEF Threads, DrainLock
<1>6. ASSUME NEW v \in DOMAIN worker' PROVE worker'[v].at \in Draining <=> lock' = v
  BY <1>1, <1>2 DEF Threads, DrainLock
<1> QED
  BY <1>1, <1>3, <1>4, <1>5, <1>6 DEF Threads, DrainLock

-----------------------------------------------------------------------------
(* The steps of a thread.                                                  *)

\* A stop other than in the drain, from one that is not.
LEMMA GoOutside ==
  ASSUME Threads, NEW w \in DOMAIN worker, NEW stop \in Stops \ Draining,
         worker[w].at \notin Draining, Go(w, stop), UNCHANGED <<lock, current>>
  PROVE  Threads'
<1> DEFINE r == [worker[w] EXCEPT !.at = stop]
<1>1. worker[w] \in Worker /\ IsFiniteSet(worker[w].batch)
  BY DEF Threads
<1>2. r \in Worker /\ r.at = stop /\ r.batch = worker[w].batch
  BY <1>1 DEF Worker
<1>3. worker' = [worker EXCEPT ![w] = r]
  BY DEF Go
<1> HIDE DEF r
<1> QED
  BY <1>1, <1>2, <1>3, ThreadStep

\* A thread ends; one that drained gives the lock back.
LEMMA EndThread ==
  ASSUME Threads, NEW w \in DOMAIN worker, End(w), UNCHANGED current,
         lock' = IF worker[w].at \in Draining THEN 0 ELSE lock
  PROVE  Threads'
<1>1. Over \in Worker /\ IsFiniteSet(Over.batch) /\ Over.at \notin Draining
  BY WorkerKinds, FS_EmptySet DEF Draining
<1>2. worker' = [worker EXCEPT ![w] = Over]
  BY DEF End
<1> QED
  BY <1>1, <1>2, ThreadStep

LEMMA OfflineThread ==
  ASSUME Threads, NEW w \in DOMAIN worker, Offline(w), UNCHANGED current,
         lock' = IF worker[w].at \in Draining THEN 0 ELSE lock
  PROVE  Threads'
<1> DEFINE r == [worker[w] EXCEPT !.at = "wait", !.known = FALSE, !.batch = {}]
<1>1. worker[w] \in Worker
  BY DEF Threads
<1>2. r \in Worker /\ r.at = "wait" /\ r.batch = {}
  BY <1>1 DEF Worker, Stops
<1>3. IsFiniteSet(r.batch) /\ r.at \notin Draining
  BY <1>2, FS_EmptySet DEF Draining
<1>4. worker' = [worker EXCEPT ![w] = r]
  BY DEF Offline
<1> HIDE DEF r
<1> QED
  BY <1>2, <1>3, <1>4, ThreadStep

LEMMA GoUnlessCancelledOutside ==
  ASSUME Threads, NEW w \in DOMAIN worker, NEW stop \in Stops \ Draining,
         worker[w].at \notin Draining, GoUnlessCancelled(w, stop),
         UNCHANGED <<lock, current>>
  PROVE  Threads'
  BY GoOutside, EndThread DEF GoUnlessCancelled

LEMMA Places ==
  /\ {"top", "validate", "deferred", "announce", "lock", "idle", "connected"}
       \subseteq Stops \ Draining
  /\ Draining \subseteq Stops
  /\ \A s \in {"open", "top", "validate", "deferred", "announce", "lock",
               "connected", "idle", "wait"} : s \notin Draining
  BY DEF Stops, Draining

\* Steps that leave the database and the settings alone.
LEMMA RecordsKept ==
  ASSUME Records, UNCHANGED <<store, history>> PROVE Records'
  BY DEF Records, store, history

LEMMA RestKept ==
  ASSUME Rest, UNCHANGED <<enabled, running, heard, plays, crashes>>,
         UNCHANGED faults \/ Fault
  PROVE  Rest'
  BY DEF Rest, Fault

LEMMA ElsewhereKept ==
  ASSUME Records, Rest, UNCHANGED Elsewhere, UNCHANGED faults \/ Fault
  PROVE  Records' /\ Rest' /\ UNCHANGED current
<1>1. UNCHANGED <<store, history>> /\ UNCHANGED current
  BY DEF Elsewhere, runtime
<1>2. UNCHANGED <<enabled, running, heard, plays, crashes>>
  BY DEF Elsewhere, runtime
<1> QED
  BY <1>1, <1>2, RecordsKept, RestKept

LEMMA OpenDatabaseSound ==
  ASSUME Inv, NEW w \in DOMAIN worker, OpenDatabase(w) PROVE Inv'
<1>1. Records' /\ Rest' /\ UNCHANGED <<current, lock>> /\ worker[w].at = "open"
  BY ElsewhereKept DEF Inv, OpenDatabase, At
<1>2. Threads'
  BY <1>1, Places, GoOutside, EndThread DEF Inv, OpenDatabase
<1> QED
  BY <1>1, <1>2 DEF Inv

LEMMA StartRoundSound ==
  ASSUME Inv, NEW w \in DOMAIN worker, StartRound(w) PROVE Inv'
<1>1. Records' /\ Rest' /\ UNCHANGED <<current, lock>> /\ worker[w].at = "top"
  BY ElsewhereKept DEF Inv, StartRound, At
<1>2. Threads'
  BY <1>1, Places, GoUnlessCancelledOutside DEF Inv, StartRound
<1> QED
  BY <1>1, <1>2 DEF Inv

LEMMA ValidateSound ==
  ASSUME Inv, NEW w \in DOMAIN worker, Validate(w) PROVE Inv'
<1>1. Records' /\ Rest' /\ UNCHANGED <<current, lock>> /\ worker[w].at = "validate"
  BY ElsewhereKept DEF Inv, Validate, At
<1>2. worker[w].at \notin Draining
  BY <1>1, Places
<1>3. CASE End(w) \/ Offline(w)
  BY <1>1, <1>2, <1>3, EndThread, OfflineThread DEF Inv
<1>4. CASE worker' = [worker EXCEPT ![w].at = "deferred", ![w].known = TRUE]
  <2> DEFINE r == [worker[w] EXCEPT !.at = "deferred", !.known = TRUE]
  <2>1. worker[w] \in Worker /\ IsFiniteSet(worker[w].batch)
    BY DEF Inv, Threads
  <2>2. r \in Worker /\ r.at = "deferred" /\ r.batch = worker[w].batch
    BY <2>1 DEF Worker, Stops
  <2>3. worker' = [worker EXCEPT ![w] = r]
    BY <1>4
  <2>4. r.at \notin Draining
    BY <2>2, Places
  <2> HIDE DEF r
  <2>5. Threads'
    BY <1>1, <1>2, <2>1, <2>2, <2>3, <2>4, ThreadStep DEF Inv
  <2> QED
    BY <1>1, <2>5 DEF Inv
<1> QED
  BY <1>1, <1>3, <1>4 DEF Inv, Validate

LEMMA TakeDeferredSound ==
  ASSUME Inv, NEW w \in DOMAIN worker, TakeDeferred(w) PROVE Inv'
<1>1. Records' /\ Rest' /\ UNCHANGED <<current, lock>> /\ worker[w].at = "deferred"
  BY ElsewhereKept DEF Inv, TakeDeferred, At
<1>2. worker[w].at \notin Draining
  BY <1>1, Places
<1>3. CASE GoUnlessCancelled(w, "lock")
  BY <1>1, <1>2, <1>3, Places, GoUnlessCancelledOutside DEF Inv
<1>4. CASE worker' = [worker EXCEPT ![w].at = "announce", ![w].deferred = FALSE]
  <2> DEFINE r == [worker[w] EXCEPT !.at = "announce", !.deferred = FALSE]
  <2>1. worker[w] \in Worker /\ IsFiniteSet(worker[w].batch)
    BY DEF Inv, Threads
  <2>2. r \in Worker /\ r.at = "announce" /\ r.batch = worker[w].batch
    BY <2>1 DEF Worker, Stops
  <2>3. worker' = [worker EXCEPT ![w] = r]
    BY <1>4
  <2>4. r.at \notin Draining
    BY <2>2, Places
  <2> HIDE DEF r
  <2>5. Threads'
    BY <1>1, <1>2, <2>1, <2>2, <2>3, <2>4, ThreadStep DEF Inv
  <2> QED
    BY <1>1, <2>5 DEF Inv
<1> QED
  BY <1>3, <1>4 DEF TakeDeferred

LEMMA AnnounceSound ==
  ASSUME Inv, NEW w \in DOMAIN worker, Announce(w) PROVE Inv'
<1>1. Records' /\ Rest' /\ UNCHANGED <<current, lock>> /\ worker[w].at = "announce"
  BY ElsewhereKept DEF Inv, Announce, At
<1>2. Threads'
  BY <1>1, Places, GoOutside, EndThread, OfflineThread DEF Inv, Announce
<1> QED
  BY <1>1, <1>2 DEF Inv

LEMMA ReportConnectedSound ==
  ASSUME Inv, NEW w \in DOMAIN worker, ReportConnected(w) PROVE Inv'
<1>1. Records' /\ Rest' /\ UNCHANGED <<current, lock>> /\ worker[w].at = "connected"
  BY ElsewhereKept DEF Inv, ReportConnected, At
<1>2. Threads'
  BY <1>1, Places, GoOutside DEF Inv, ReportConnected
<1> QED
  BY <1>1, <1>2 DEF Inv

LEMMA LockSound ==
  ASSUME Inv, NEW w \in DOMAIN worker, Lock(w) PROVE Inv'
<1>1. /\ Records' /\ Rest' /\ UNCHANGED current
      /\ worker[w].at = "lock" /\ lock = 0 /\ lock' = w
  BY ElsewhereKept DEF Inv, Lock, At
<1> DEFINE r == [worker[w] EXCEPT !.at = "read"]
<1>2. worker[w] \in Worker /\ IsFiniteSet(worker[w].batch)
  BY DEF Inv, Threads
<1>3. r \in Worker /\ r.at \in Draining /\ r.batch = worker[w].batch
  BY <1>2 DEF Worker, Stops, Draining
<1>4. worker' = [worker EXCEPT ![w] = r]
  BY DEF Lock, Go
<1> HIDE DEF r
<1>5. Threads'
  BY <1>1, <1>2, <1>3, <1>4, ThreadStep DEF Inv
<1> QED
  BY <1>1, <1>5 DEF Inv

LEMMA PendingRows ==
  ASSUME Records PROVE Pending \in SUBSET Row /\ Pending \subseteq rows /\ IsFiniteSet(Pending)
<1>1. Pending \subseteq rows
  BY DEF Pending
<1> QED
  BY <1>1, FS_Subset DEF Records

LEMMA ReadPendingSound ==
  ASSUME Inv, NEW w \in DOMAIN worker, ReadPending(w) PROVE Inv'
<1>1. Records' /\ Rest' /\ UNCHANGED current /\ worker[w].at = "read"
  BY ElsewhereKept DEF Inv, ReadPending, At
<1>2. worker[w].at \in Draining /\ worker[w] \in Worker /\ IsFiniteSet(worker[w].batch)
  BY <1>1 DEF Inv, Threads, Draining
<1>3. CASE End(w) /\ lock' = 0
  BY <1>1, <1>2, <1>3, EndThread DEF Inv
<1>4. CASE Go(w, "connected") /\ lock' = 0
  <2> DEFINE r == [worker[w] EXCEPT !.at = "connected"]
  <2>1. r \in Worker /\ r.at = "connected" /\ r.batch = worker[w].batch
    BY <1>2 DEF Worker, Stops
  <2>2. worker' = [worker EXCEPT ![w] = r]
    BY <1>4 DEF Go
  <2>3. r.at \notin Draining
    BY <2>1, Places
  <2> HIDE DEF r
  <2>4. Threads'
    BY <1>1, <1>2, <1>4, <2>1, <2>2, <2>3, ThreadStep DEF Inv
  <2> QED
    BY <1>1, <2>4 DEF Inv
<1>5. CASE /\ worker' = [worker EXCEPT ![w].at = "submit", ![w].batch = Pending]
           /\ UNCHANGED lock
  <2> DEFINE r == [worker[w] EXCEPT !.at = "submit", !.batch = Pending]
  <2>1. Pending \in SUBSET Row /\ IsFiniteSet(Pending)
    BY PendingRows DEF Inv
  <2>2. r \in Worker /\ r.at \in Draining /\ r.batch = Pending
    BY <1>2, <2>1 DEF Worker, Stops, Draining
  <2>3. worker' = [worker EXCEPT ![w] = r]
    BY <1>5
  <2> HIDE DEF r
  <2>4. Threads'
    BY <1>1, <1>2, <1>5, <2>1, <2>2, <2>3, ThreadStep DEF Inv
  <2> QED
    BY <1>1, <2>4 DEF Inv
<1> QED
  BY <1>1, <1>3, <1>4, <1>5 DEF Inv, ReadPending

LEMMA SentType ==
  ASSUME Threads, Records, NEW w \in DOMAIN worker
  PROVE  /\ Sent(w) \in [Listens -> Seq(Nat)]
         /\ Cardinality(worker[w].batch) \in Nat
         /\ w \in Nat
<1>1. w \in Nat
  BY DEF Threads
<1>2. Cardinality(worker[w].batch) \in Nat
  BY FS_CardinalityType DEF Threads
<1> QED
  BY <1>1, <1>2 DEF Sent, Records

LEMMA SubmitSound ==
  ASSUME Inv, NEW w \in DOMAIN worker, Submit(w) PROVE Inv'
<1>1. worker[w].at = "submit" /\ UNCHANGED <<store, cleared, current>>
  BY DEF Submit, At, runtime
<1>2. worker[w].at \in Draining /\ worker[w] \in Worker /\ IsFiniteSet(worker[w].batch)
  BY <1>1 DEF Inv, Threads, Draining
<1>3. Records'
  <2>1. sent' \in {sent, Sent(w)}
    BY DEF Submit
  <2>2. unsure' \in {unsure, unsure + Cardinality(worker[w].batch)}
    BY DEF Submit
  <2>3. sent' \in [Listens -> Seq(Nat)] /\ unsure' \in Nat
    BY <2>1, <2>2, SentType DEF Inv, Records
  <2> QED
    BY <1>1, <2>3 DEF Inv, Records, store
<1>4. Rest'
  <2>1. UNCHANGED <<enabled, running, heard, plays, crashes>>
    BY DEF Submit, runtime
  <2>2. UNCHANGED faults \/ Fault
    BY DEF Submit
  <2> QED
    BY <2>1, <2>2, RestKept DEF Inv
<1>5. CASE Go(w, "acknowledge") /\ UNCHANGED lock
  <2> DEFINE r == [worker[w] EXCEPT !.at = "acknowledge"]
  <2>1. r \in Worker /\ r.at \in Draining /\ r.batch = worker[w].batch
    BY <1>2 DEF Worker, Stops, Draining
  <2>2. worker' = [worker EXCEPT ![w] = r]
    BY <1>5 DEF Go
  <2> HIDE DEF r
  <2> QED
    BY <1>1, <1>2, <1>3, <1>4, <1>5, <2>1, <2>2, ThreadStep DEF Inv
<1>6. CASE (Offline(w) \/ End(w)) /\ lock' = 0
  BY <1>1, <1>2, <1>3, <1>4, <1>6, OfflineThread, EndThread DEF Inv
<1> QED
  BY <1>5, <1>6 DEF Submit

LEMMA AcknowledgeSound ==
  ASSUME Inv, NEW w \in DOMAIN worker, Acknowledge(w) PROVE Inv'
<1>1. worker[w].at = "acknowledge" /\ UNCHANGED <<sent, cleared, current>>
  BY DEF Acknowledge, At, runtime
<1>2. worker[w].at \in Draining /\ worker[w] \in Worker
  BY <1>1 DEF Inv, Threads, Draining
<1>3. Cardinality(worker[w].batch) \in Nat
  BY SentType DEF Inv
<1>4. Records'
  <2>1. rows' \subseteq rows /\ submitted' \in Nat /\ unsure' \in Nat
    BY <1>3 DEF Acknowledge, Record, store, Inv, Records
  <2>2. IsFiniteSet(rows')
    BY <2>1, FS_Subset DEF Inv, Records
  <2> QED
    BY <1>1, <2>1, <2>2 DEF Inv, Records
<1>5. Rest'
  <2>1. UNCHANGED <<enabled, running, heard, plays, crashes>>
    BY DEF Acknowledge, runtime
  <2>2. UNCHANGED faults \/ Fault
    BY DEF Acknowledge
  <2> QED
    BY <2>1, <2>2, RestKept DEF Inv
<1>6. CASE worker' = [worker EXCEPT ![w].at = "read", ![w].batch = {}] /\ UNCHANGED lock
  <2> DEFINE r == [worker[w] EXCEPT !.at = "read", !.batch = {}]
  <2>1. r \in Worker /\ r.at \in Draining /\ r.batch = {}
    BY <1>2 DEF Worker, Stops, Draining
  <2>2. worker' = [worker EXCEPT ![w] = r]
    BY <1>6
  <2>3. IsFiniteSet(r.batch)
    BY <2>1, FS_EmptySet
  <2> HIDE DEF r
  <2> QED
    BY <1>1, <1>2, <1>4, <1>5, <1>6, <2>1, <2>2, <2>3, ThreadStep DEF Inv
<1>7. CASE End(w) /\ lock' = 0
  BY <1>1, <1>2, <1>4, <1>5, <1>7, EndThread DEF Inv
<1> QED
  BY <1>6, <1>7 DEF Acknowledge

\* Taking a command from the channel.
LEMMA TailMail ==
  ASSUME NEW t \in Worker, t.mail # <<>> PROVE Tail(t.mail) \in Seq(Commands)
<1>1. t.mail \in Seq(Commands)
  BY DEF Worker
<1> QED
  BY <1>1

LEMMA ReceiveSound ==
  ASSUME Inv, NEW w \in DOMAIN worker, Receive(w) PROVE Inv'
<1>1. /\ Records' /\ Rest' /\ UNCHANGED <<current, lock>>
      /\ worker[w].at = "idle" /\ worker[w].mail # <<>>
  BY ElsewhereKept DEF Inv, Receive, At
<1>2. /\ worker[w].at \notin Draining
      /\ worker[w] \in Worker /\ IsFiniteSet(worker[w].batch)
  BY <1>1, Places DEF Inv, Threads
<1>3. CASE End(w)
  BY <1>1, <1>2, <1>3, EndThread DEF Inv
<1>4. ASSUME NEW stop \in {"top", "announce"},
             worker' = [worker EXCEPT ![w].at = stop, ![w].mail = Tail(@)]
      PROVE  Threads'
  <2> DEFINE r == [worker[w] EXCEPT !.at = stop, !.mail = Tail(@)]
  <2>1. stop \in Stops /\ stop \notin Draining
    BY Places
  <2>2. r \in Worker /\ r.at = stop /\ r.batch = worker[w].batch
    BY <1>1, <1>2, <2>1, TailMail DEF Worker
  <2>3. worker' = [worker EXCEPT ![w] = r]
    BY <1>4
  <2> HIDE DEF r
  <2> QED
    BY <1>1, <1>2, <2>1, <2>2, <2>3, ThreadStep DEF Inv
<1>5. End(w) \/ \E stop \in {"top", "announce"} :
        worker' = [worker EXCEPT ![w].at = stop, ![w].mail = Tail(@)]
  BY DEF Receive
<1> QED
  BY <1>1, <1>3, <1>4, <1>5 DEF Inv

LEMMA WaitForRetrySound ==
  ASSUME Inv, NEW w \in DOMAIN worker, WaitForRetry(w) PROVE Inv'
<1>1. Records' /\ Rest' /\ UNCHANGED <<current, lock>> /\ worker[w].at = "wait"
  BY ElsewhereKept DEF Inv, WaitForRetry, At
<1>2. /\ worker[w].at \notin Draining
      /\ worker[w] \in Worker /\ IsFiniteSet(worker[w].batch)
  BY <1>1, Places DEF Inv, Threads
<1>3. CASE Go(w, "top") \/ End(w)
  BY <1>1, <1>2, <1>3, Places, GoOutside, EndThread DEF Inv
<1>4. CASE /\ worker[w].mail # <<>>
           /\ worker' = [worker EXCEPT ![w].at = "top", ![w].mail = Tail(@),
                ![w].deferred = @ \/ Head(worker[w].mail) = "playing"]
  <2> DEFINE r == [worker[w] EXCEPT !.at = "top", !.mail = Tail(@),
                     !.deferred = @ \/ Head(worker[w].mail) = "playing"]
  <2>1. "top" \in Stops /\ "top" \notin Draining
    BY Places
  <2>2. r \in Worker /\ r.at = "top" /\ r.batch = worker[w].batch
    BY <1>2, <1>4, <2>1, TailMail DEF Worker
  <2>3. worker' = [worker EXCEPT ![w] = r]
    BY <1>4
  <2> HIDE DEF r
  <2>4. Threads'
    BY <1>1, <1>2, <2>1, <2>2, <2>3, ThreadStep DEF Inv
  <2> QED
    BY <1>1, <2>4 DEF Inv
<1> QED
  BY <1>3, <1>4 DEF WaitForRetry

LEMMA WorkSound ==
  ASSUME Inv, NEW w \in DOMAIN worker, Work(w) PROVE Inv'
  BY OpenDatabaseSound, StartRoundSound, ValidateSound, TakeDeferredSound,
     AnnounceSound, LockSound, ReadPendingSound, SubmitSound, AcknowledgeSound,
     ReportConnectedSound, ReceiveSound, WaitForRetrySound DEF Work

-----------------------------------------------------------------------------
(* The main thread.                                                        *)

LEMMA WorkerFlag == ASSUME NEW t \in Worker PROVE t.cancelled \in BOOLEAN
  BY DEF Worker

\* A message, and perhaps the cancel flag, for a thread.
Told(t, flag, command) ==
  [t EXCEPT !.cancelled = flag, !.mail = Append(t.mail, command)]

\* It leaves the thread where it is, with its batch.
LEMMA ToldThread ==
  ASSUME NEW t \in Worker, NEW flag \in BOOLEAN, NEW command \in Commands
  PROVE  /\ Told(t, flag, command) \in Worker
         /\ Told(t, flag, command).at = t.at
         /\ Told(t, flag, command).batch = t.batch
<1>1. Append(t.mail, command) \in Seq(Commands)
  BY DEF Worker
<1> QED
  BY <1>1 DEF Told, Worker

\* Tables that agree on the places and batches of the threads.
Agrees(table) ==
  /\ table \in Seq(Worker) /\ Len(table) = Len(worker)
  /\ \A v \in DOMAIN worker : /\ table[v].at = worker[v].at
                              /\ table[v].batch = worker[v].batch

LEMMA ToldAgrees ==
  ASSUME Threads, NEW w \in DOMAIN worker,
         NEW flag \in BOOLEAN, NEW command \in Commands
  PROVE  Agrees([worker EXCEPT ![w] = Told(worker[w], flag, command)])
<1> DEFINE r == Told(worker[w], flag, command)
           after == [worker EXCEPT ![w] = r]
<1>1. worker \in Seq(Worker) /\ worker[w] \in Worker
  BY DEF Threads
<1>2. r \in Worker /\ r.at = worker[w].at /\ r.batch = worker[w].batch
  BY <1>1, ToldThread
<1> HIDE DEF r
<1>3. /\ after \in Seq(Worker) /\ Len(after) = Len(worker) /\ after[w] = r
      /\ \A v \in DOMAIN worker : v # w => after[v] = worker[v]
  BY <1>1, <1>2, Rewritten
<1> HIDE DEF after
<1>4. Agrees(after)
  BY <1>2, <1>3 DEF Agrees
<1> QED
  BY <1>4 DEF after, r

LEMMA MailedAgrees ==
  ASSUME Threads, NEW command \in Commands PROVE Agrees(Mailed(command))
<1>1. CASE current = 0 \/ worker[current].at = "over"
  BY <1>1 DEF Mailed, Agrees, Threads
<1>2. CASE ~(current = 0 \/ worker[current].at = "over")
  <2>1. current \in DOMAIN worker
    BY <1>2 DEF Threads
  <2>2. worker[current] \in Worker
    BY <2>1 DEF Threads
  <2>3. worker[current].cancelled \in BOOLEAN
    BY <2>2, WorkerFlag
  <2>4. Told(worker[current], worker[current].cancelled, command)
          = [worker[current] EXCEPT !.mail = Append(@, command)]
    BY <2>2 DEF Told, Worker
  <2>5. Mailed(command) = [worker EXCEPT ![current] =
                             [worker[current] EXCEPT !.mail = Append(@, command)]]
    BY <1>2 DEF Mailed
  <2>6. Mailed(command) = [worker EXCEPT ![current] =
                             Told(worker[current], worker[current].cancelled, command)]
    BY <2>4, <2>5, Zenon
  <2>7. Agrees([worker EXCEPT ![current] =
                  Told(worker[current], worker[current].cancelled, command)])
    BY <2>1, <2>3, ToldAgrees, Zenon
  <2> QED
    BY <2>6, <2>7, Zenon
<1> QED
  BY <1>1, <1>2

LEMMA StoppedAgrees ==
  ASSUME Threads PROVE Agrees(Stopped)
<1>1. CASE current = 0 \/ worker[current].at = "over"
  BY <1>1 DEF Stopped, Agrees, Threads
<1>2. CASE ~(current = 0 \/ worker[current].at = "over")
  <2>1. current \in DOMAIN worker /\ "stop" \in Commands
    BY <1>2 DEF Threads, Commands
  <2>2. Stopped = [worker EXCEPT ![current] = Told(worker[current], TRUE, "stop")]
    BY <1>2 DEF Stopped, Told
  <2> QED
    BY <2>1, <2>2, ToldAgrees
<1> QED
  BY <1>1, <1>2

LEMMA AgreeingThreads ==
  ASSUME Threads, Agrees(worker'), current' \in 0..Len(worker), UNCHANGED lock
  PROVE  Threads'
<1>1. DOMAIN worker' = DOMAIN worker
  BY DEF Agrees, Threads
<1>2. DrainLock'
  BY <1>1 DEF Agrees, Threads, DrainLock
<1> QED
  BY <1>1, <1>2 DEF Agrees, Threads

LEMMA DisableThreads ==
  ASSUME Threads, Disable, UNCHANGED lock PROVE Threads'
<1>1. Agrees(worker')
  BY StoppedAgrees DEF Disable
<1>2. current' \in 0..Len(worker)
  BY DEF Disable, Threads
<1> QED
  BY <1>1, <1>2, AgreeingThreads

LEMMA ConfigureThreads ==
  ASSUME Threads, Configure, UNCHANGED lock PROVE Threads'
<1> DEFINE n == Len(worker)
<1>1. Agrees(Stopped) /\ worker' = Append(Stopped, NewWorker) /\ current' = n + 1
  BY StoppedAgrees DEF Configure
<1>2. NewWorker \in Worker /\ NewWorker.at = "open" /\ IsFiniteSet(NewWorker.batch)
  BY WorkerKinds, FS_EmptySet
<1>3. /\ worker' \in Seq(Worker) /\ Len(worker') = n + 1 /\ n \in Nat
      /\ DOMAIN worker' = 1..(n + 1) /\ DOMAIN worker = 1..n
      /\ worker'[n + 1] = NewWorker
      /\ \A v \in 1..n : worker'[v] = Stopped[v]
  BY <1>1, <1>2 DEF Agrees, Threads
<1>4. \A v \in 1..n : worker'[v].at = worker[v].at /\ worker'[v].batch = worker[v].batch
  BY <1>1, <1>3 DEF Agrees
<1> HIDE DEF n
<1>5. worker'[n + 1].at \notin Draining
  BY <1>2, <1>3, Places
<1>6. lock' # n + 1
  BY <1>3 DEF Threads, DrainLock
<1>7. ASSUME NEW v \in DOMAIN worker' PROVE worker'[v].at \in Draining <=> lock' = v
  <2>1. CASE v = n + 1
    BY <2>1, <1>5, <1>6
  <2>2. CASE v \in 1..n
    BY <2>2, <1>3, <1>4 DEF Threads, DrainLock
  <2> QED
    BY <1>3, <2>1, <2>2
<1>8. DrainLock'
  BY <1>3, <1>7 DEF Threads, DrainLock
<1>9. ASSUME NEW v \in DOMAIN worker' PROVE IsFiniteSet(worker'[v].batch)
  <2>1. CASE v = n + 1
    BY <2>1, <1>2, <1>3
  <2>2. CASE v \in 1..n
    BY <2>2, <1>3, <1>4 DEF Threads
  <2> QED
    BY <1>3, <2>1, <2>2
<1>10. current' \in 0..Len(worker')
  BY <1>1, <1>3 DEF n
<1> QED
  BY <1>3, <1>8, <1>9, <1>10 DEF Threads

LEMMA EnableSound == ASSUME Inv, Enable PROVE Inv'
<1>1. Records'
  BY RecordsKept DEF Inv, Enable
<1>2. Rest'
  BY DEF Inv, Rest, Enable
<1> QED
  BY <1>1, <1>2, ConfigureThreads DEF Inv, Enable

LEMMA SwitchOffSound == ASSUME Inv, SwitchOff PROVE Inv'
<1>1. Records'
  BY RecordsKept DEF Inv, SwitchOff
<1>2. Rest'
  BY DEF Inv, Rest, SwitchOff
<1> QED
  BY <1>1, <1>2, DisableThreads DEF Inv, SwitchOff

LEMMA DisconnectSound == ASSUME Inv, Disconnect PROVE Inv'
<1>1. Rest'
  <2>1. UNCHANGED <<running, heard, plays, crashes>> /\ enabled' \in BOOLEAN
    BY DEF Disconnect
  <2>2. faults' \in Nat
    BY DEF Inv, Rest, Disconnect, Fault
  <2> QED
    BY <2>1, <2>2 DEF Inv, Rest
<1>2. {r.listen : r \in rows} \subseteq Listens
  BY DEF Inv, Records, Row
<1>3. Records'
  BY <1>2, FS_EmptySet DEF Inv, Records, Disconnect
<1> QED
  BY <1>1, <1>3, DisableThreads DEF Inv, Disconnect

LEMMA ListenSound == ASSUME Inv, Listen PROVE Inv'
<1>1. heard' \in Listens /\ heard' \in 0..MaxListens
  BY BoundsNatural DEF Inv, Rest, Listen, Listens
<1>2. Rest'
  BY <1>1 DEF Inv, Rest, Listen, runtime
<1>3. PICK id \in Listens : rows' = rows \cup {[id |-> id, listen |-> heard']}
  BY DEF Listen
<1>4. rows' \subseteq Row
  BY <1>1, <1>3 DEF Inv, Records, Row
<1>5. IsFiniteSet(rows')
  BY <1>3, FS_AddElement DEF Inv, Records
<1>7. Records'
  BY <1>4, <1>5 DEF Inv, Records, Listen
<1>8. "flush" \in Commands
  BY DEF Commands
<1>9. Agrees(worker')
  BY <1>8, MailedAgrees DEF Inv, Listen
<1>10. current' \in 0..Len(worker) /\ UNCHANGED lock
  BY DEF Inv, Threads, Listen, runtime
<1> QED
  BY <1>2, <1>7, <1>9, <1>10, AgreeingThreads DEF Inv

LEMMA PlayingNowSound == ASSUME Inv, PlayingNow PROVE Inv'
<1>1. Rest'
  BY DEF Inv, Rest, PlayingNow, runtime
<1>2. Records'
  BY RecordsKept DEF Inv, PlayingNow
<1>3. "playing" \in Commands
  BY DEF Commands
<1>4. Agrees(worker')
  BY <1>3, MailedAgrees DEF Inv, PlayingNow
<1>5. current' \in 0..Len(worker) /\ UNCHANGED lock
  BY DEF Inv, Threads, PlayingNow, runtime
<1> QED
  BY <1>1, <1>2, <1>4, <1>5, AgreeingThreads DEF Inv

LEMMA ExitSound == ASSUME Inv, Exit PROVE Inv'
<1>1. Over \in Worker /\ Over.at \notin Draining /\ IsFiniteSet(Over.batch)
  BY WorkerKinds, FS_EmptySet DEF Draining
<1>2. /\ worker' \in Seq(Worker) /\ DOMAIN worker' = DOMAIN worker
      /\ Len(worker') \in Nat
      /\ \A w \in DOMAIN worker : worker'[w] = Over
  BY <1>1 DEF Inv, Threads, Exit
<1>3. Threads'
  BY <1>1, <1>2 DEF Threads, DrainLock, Exit, Inv
<1>4. Rest'
  <2>1. UNCHANGED <<enabled, heard, plays, faults>> /\ running' \in BOOLEAN
    BY DEF Exit
  <2>2. crashes' \in Nat
    BY DEF Inv, Rest, Exit
  <2> QED
    BY <2>1, <2>2 DEF Inv, Rest
<1>5. unsure' \in Nat
  <2>1. CASE lock # 0 /\ At(lock, "acknowledge")
    BY <2>1, SentType DEF Inv, Records, Exit, At
  <2> QED
    BY <2>1 DEF Inv, Records, Exit
<1>6. Records'
  BY <1>5 DEF Inv, Records, Exit, store
<1> QED
  BY <1>3, <1>4, <1>6 DEF Inv

LEMMA LaunchSound == ASSUME Inv, Launch PROVE Inv'
<1>1. Records'
  BY RecordsKept DEF Inv, Launch
<1>2. Rest'
  BY DEF Inv, Rest, Launch
<1>3. CASE UNCHANGED <<worker, current>>
  <2>1. Threads'
    BY <1>3 DEF Inv, Threads, DrainLock, Launch
  <2> QED
    BY <1>1, <1>2, <2>1 DEF Inv
<1>4. CASE Configure
  BY <1>1, <1>2, <1>4, ConfigureThreads DEF Inv, Launch
<1> QED
  BY <1>3, <1>4 DEF Launch

LEMMA InitSound == Init => Inv
<1> SUFFICES ASSUME Init PROVE Inv
  OBVIOUS
<1>1. <<>> \in Seq(Worker) /\ <<>> \in Seq(Nat)
  OBVIOUS
<1>2. Threads
  BY <1>1 DEF Init, Threads, DrainLock
<1>3. Records
  BY <1>1, FS_EmptySet DEF Init, Records
<1>4. Rest
  <2>1. enabled \in BOOLEAN /\ running \in BOOLEAN
    BY DEF Init
  <2>2. heard \in 0..MaxListens /\ plays \in Nat /\ faults \in Nat /\ crashes \in Nat
    BY BoundsNatural DEF Init
  <2> QED
    BY <2>1, <2>2 DEF Rest
<1> QED
  BY <1>2, <1>3, <1>4 DEF Inv

LEMMA NextSound == Inv /\ [Next]_vars => Inv'
<1> SUFFICES ASSUME Inv, [Next]_vars PROVE Inv'
  OBVIOUS
<1>1. CASE UNCHANGED vars
  BY <1>1 DEF Inv, Threads, Records, Rest, DrainLock, vars, store, runtime, history
<1>2. CASE User
  BY <1>2, EnableSound, SwitchOffSound, DisconnectSound, ListenSound,
     PlayingNowSound, ExitSound, LaunchSound DEF User
<1>3. CASE \E w \in DOMAIN worker : Work(w)
  BY <1>3, WorkSound
<1> QED
  BY <1>1, <1>2, <1>3 DEF Next

LEMMA InvAlways == Spec => []Inv
  BY InitSound, NextSound, PTL DEF Spec

\* Every reachable state is well typed, and the lock is with the one thread that drains.
THEOREM OneDrainAtATime == Spec => []ScrobbleTypeOK
<1>1. Inv => ScrobbleTypeOK
  BY DEF Inv, Threads, Records, Rest, ScrobbleTypeOK
<1> QED
  BY <1>1, InvAlways, PTL

-----------------------------------------------------------------------------
(* Durability, when the user does not clear the queue.                     *)

Holding == {"submit", "acknowledge"}

\* What is submitted is still queued until it is acknowledged, and what is
\* acknowledged was submitted; ids tell rows apart.
Kept ==
  /\ \A q, r \in rows : q.id = r.id => q = r
  /\ \A w \in DOMAIN worker : worker[w].at \in Holding => worker[w].batch \subseteq rows
  /\ \A w \in DOMAIN worker : worker[w].at = "acknowledge" =>
       \A r \in worker[w].batch : sent[r.listen] # <<>>
  /\ ListensStay

\* No thread comes to hold a batch.
NoNewBatch ==
  \A v \in DOMAIN worker' :
    worker'[v].at \in Holding =>
      /\ v \in DOMAIN worker /\ worker[v].at = worker'[v].at
      /\ worker[v].batch = worker'[v].batch

LEMMA NoNewBatchKept ==
  ASSUME Kept, NoNewBatch, UNCHANGED <<rows, sent, heard, cleared>> PROVE Kept'
<1>1. \A q, r \in rows' : q.id = r.id => q = r
  BY DEF Kept
<1>2. ListensStay'
  BY DEF Kept, ListensStay
<1>3. ASSUME NEW w \in DOMAIN worker', worker'[w].at \in Holding
      PROVE  /\ worker'[w].batch \subseteq rows'
             /\ worker'[w].at = "acknowledge" => \A r \in worker'[w].batch : sent'[r.listen] # <<>>
  BY <1>3 DEF Kept, NoNewBatch
<1> QED
  BY <1>1, <1>2, <1>3 DEF Kept, Holding

LEMMA RewrittenNoBatch ==
  ASSUME Threads, NEW w \in DOMAIN worker, NEW r, r.at \notin Holding,
         worker' = [worker EXCEPT ![w] = r]
  PROVE  NoNewBatch
  BY DEF Threads, NoNewBatch

LEMMA GoNoBatch ==
  ASSUME Threads, NEW w \in DOMAIN worker, NEW stop \in Stops \ Holding, Go(w, stop)
  PROVE  NoNewBatch
<1> DEFINE r == [worker[w] EXCEPT !.at = stop]
<1>1. worker[w] \in Worker
  BY DEF Threads
<1>2. r.at = stop
  BY <1>1 DEF Worker
<1>3. worker' = [worker EXCEPT ![w] = r]
  BY DEF Go
<1> HIDE DEF r
<1> QED
  BY <1>2, <1>3, RewrittenNoBatch

LEMMA EndNoBatch ==
  ASSUME Threads, NEW w \in DOMAIN worker, End(w) PROVE NoNewBatch
<1>1. Over.at \notin Holding
  BY WorkerKinds DEF Holding
<1> QED
  BY <1>1, RewrittenNoBatch DEF End

LEMMA OfflineNoBatch ==
  ASSUME Threads, NEW w \in DOMAIN worker, Offline(w) PROVE NoNewBatch
<1> DEFINE r == [worker[w] EXCEPT !.at = "wait", !.known = FALSE, !.batch = {}]
<1>1. worker[w] \in Worker
  BY DEF Threads
<1>2. r.at \notin Holding
  BY <1>1 DEF Worker, Holding
<1>3. worker' = [worker EXCEPT ![w] = r]
  BY DEF Offline
<1> HIDE DEF r
<1> QED
  BY <1>2, <1>3, RewrittenNoBatch

LEMMA HoldingPlaces ==
  {"top", "validate", "deferred", "announce", "lock", "idle", "connected", "read"}
    \subseteq Stops \ Holding
  BY DEF Stops, Holding, Draining

LEMMA GoUnlessCancelledNoBatch ==
  ASSUME Threads, NEW w \in DOMAIN worker, NEW stop \in Stops \ Holding,
         GoUnlessCancelled(w, stop)
  PROVE  NoNewBatch
  BY GoNoBatch, EndNoBatch DEF GoUnlessCancelled

LEMMA ValidateNoBatch ==
  ASSUME Threads, NEW w \in DOMAIN worker, Validate(w) PROVE NoNewBatch
<1>1. CASE End(w) \/ Offline(w)
  BY <1>1, EndNoBatch, OfflineNoBatch
<1>2. CASE worker' = [worker EXCEPT ![w].at = "deferred", ![w].known = TRUE]
  <2> DEFINE r == [worker[w] EXCEPT !.at = "deferred", !.known = TRUE]
  <2>1. worker[w] \in Worker
    BY DEF Threads
  <2>2. r.at \notin Holding
    BY <2>1 DEF Worker, Holding
  <2>3. worker' = [worker EXCEPT ![w] = r]
    BY <1>2
  <2> HIDE DEF r
  <2> QED
    BY <2>2, <2>3, RewrittenNoBatch
<1> QED
  BY <1>1, <1>2 DEF Validate

LEMMA TakeDeferredNoBatch ==
  ASSUME Threads, NEW w \in DOMAIN worker, TakeDeferred(w) PROVE NoNewBatch
<1>1. CASE GoUnlessCancelled(w, "lock")
  BY <1>1, HoldingPlaces, GoUnlessCancelledNoBatch
<1>2. CASE worker' = [worker EXCEPT ![w].at = "announce", ![w].deferred = FALSE]
  <2> DEFINE r == [worker[w] EXCEPT !.at = "announce", !.deferred = FALSE]
  <2>1. worker[w] \in Worker
    BY DEF Threads
  <2>2. r.at \notin Holding
    BY <2>1 DEF Worker, Holding
  <2>3. worker' = [worker EXCEPT ![w] = r]
    BY <1>2
  <2> HIDE DEF r
  <2> QED
    BY <2>2, <2>3, RewrittenNoBatch
<1> QED
  BY <1>1, <1>2 DEF TakeDeferred

LEMMA ReceiveNoBatch ==
  ASSUME Threads, NEW w \in DOMAIN worker, Receive(w) \/ WaitForRetry(w) PROVE NoNewBatch
<1>1. CASE End(w) \/ Go(w, "top")
  BY <1>1, EndNoBatch, GoNoBatch, HoldingPlaces
<1>2. ASSUME NEW stop \in {"top", "announce"}, NEW flag,
             worker' = [worker EXCEPT ![w].at = stop, ![w].mail = Tail(@),
                                      ![w].deferred = flag]
      PROVE  NoNewBatch
  <2> DEFINE r == [worker[w] EXCEPT !.at = stop, !.mail = Tail(@), !.deferred = flag]
  <2>1. worker[w] \in Worker
    BY DEF Threads
  <2>2. r.at \notin Holding
    BY <2>1 DEF Worker, Holding
  <2>3. worker' = [worker EXCEPT ![w] = r]
    BY <1>2
  <2> HIDE DEF r
  <2> QED
    BY <2>2, <2>3, RewrittenNoBatch
<1>3. ASSUME NEW stop \in {"top", "announce"},
             worker' = [worker EXCEPT ![w].at = stop, ![w].mail = Tail(@)]
      PROVE  NoNewBatch
  <2> DEFINE r == [worker[w] EXCEPT !.at = stop, !.mail = Tail(@)]
  <2>1. worker[w] \in Worker
    BY DEF Threads
  <2>2. r.at \notin Holding
    BY <2>1 DEF Worker, Holding
  <2>3. worker' = [worker EXCEPT ![w] = r]
    BY <1>3
  <2> HIDE DEF r
  <2> QED
    BY <2>2, <2>3, RewrittenNoBatch
<1>4. CASE Receive(w)
  <2>1. End(w) \/ \E stop \in {"top", "announce"} :
          worker' = [worker EXCEPT ![w].at = stop, ![w].mail = Tail(@)]
    BY <1>4 DEF Receive
  <2> QED
    BY <1>1, <1>3, <2>1
<1>5. CASE WaitForRetry(w)
  BY <1>1, <1>2, <1>5 DEF WaitForRetry
<1> QED
  BY <1>4, <1>5

\* The steps that touch neither the queue nor a request.
LEMMA QuietKept ==
  ASSUME Inv, Kept, NEW w \in DOMAIN worker,
         \/ OpenDatabase(w) \/ StartRound(w) \/ Validate(w) \/ TakeDeferred(w)
         \/ Announce(w) \/ Lock(w) \/ ReportConnected(w) \/ Receive(w) \/ WaitForRetry(w)
  PROVE  Kept'
<1>1. UNCHANGED <<rows, sent, heard, cleared>>
  BY DEF OpenDatabase, StartRound, Validate, TakeDeferred, Announce, Lock,
         ReportConnected, Receive, WaitForRetry, Elsewhere, store, history
<1>2. Threads
  BY DEF Inv
<1>3. CASE OpenDatabase(w) \/ Announce(w) \/ Lock(w) \/ ReportConnected(w)
  <2>1. \/ End(w) \/ Offline(w)
        \/ \E stop \in {"top", "read", "idle"} : Go(w, stop)
    BY <1>3 DEF OpenDatabase, Announce, Lock, ReportConnected
  <2> QED
    BY <1>1, <1>2, <2>1, HoldingPlaces, GoNoBatch, EndNoBatch, OfflineNoBatch, NoNewBatchKept
<1>4. CASE StartRound(w)
  <2>1. \E stop \in {"deferred", "validate"} : GoUnlessCancelled(w, stop)
    BY <1>4 DEF StartRound
  <2> QED
    BY <1>1, <1>2, <2>1, HoldingPlaces, GoUnlessCancelledNoBatch, NoNewBatchKept
<1>5. CASE Validate(w) \/ TakeDeferred(w) \/ Receive(w) \/ WaitForRetry(w)
  BY <1>1, <1>2, <1>5, ValidateNoBatch, TakeDeferredNoBatch, ReceiveNoBatch, NoNewBatchKept
<1> QED
  BY <1>3, <1>4, <1>5

LEMMA ReadPendingKept ==
  ASSUME Inv, Kept, NEW w \in DOMAIN worker, ReadPending(w) PROVE Kept'
<1>1. UNCHANGED <<rows, sent, heard, cleared>>
  BY DEF ReadPending, Elsewhere, store, history
<1>2. Threads
  BY DEF Inv
<1>3. CASE End(w) \/ Go(w, "connected")
  BY <1>1, <1>2, <1>3, HoldingPlaces, EndNoBatch, GoNoBatch, NoNewBatchKept
<1>4. CASE worker' = [worker EXCEPT ![w].at = "submit", ![w].batch = Pending]
  <2> DEFINE r == [worker[w] EXCEPT !.at = "submit", !.batch = Pending]
  <2>1. worker[w] \in Worker /\ worker \in Seq(Worker)
    BY <1>2 DEF Threads
  <2>2. r.at = "submit" /\ r.batch = Pending
    BY <2>1 DEF Worker
  <2>3. worker' = [worker EXCEPT ![w] = r]
    BY <1>4
  <2> HIDE DEF r
  <2>4. /\ DOMAIN worker' = DOMAIN worker /\ worker'[w] = r
        /\ \A v \in DOMAIN worker : v # w => worker'[v] = worker[v]
    BY <2>1, <2>3
  <2>5. Pending \subseteq rows
    BY PendingRows DEF Inv
  <2>6. ASSUME NEW v \in DOMAIN worker', worker'[v].at \in Holding
        PROVE  /\ worker'[v].batch \subseteq rows'
               /\ worker'[v].at = "acknowledge" =>
                    \A q \in worker'[v].batch : sent'[q.listen] # <<>>
    <3>1. CASE v = w
      BY <1>1, <2>2, <2>4, <2>5, <3>1
    <3>2. CASE v # w
      BY <1>1, <2>4, <2>6, <3>2 DEF Kept
    <3> QED
      BY <3>1, <3>2
  <2>7. ListensStay' /\ \A q, s \in rows' : q.id = s.id => q = s
    BY <1>1 DEF Kept, ListensStay
  <2> QED
    BY <2>6, <2>7 DEF Kept, Holding
<1> QED
  BY <1>3, <1>4 DEF ReadPending

\* Nothing that was submitted is forgotten, and a request submits its batch.
LEMMA SentGrows ==
  ASSUME Records, NEW w \in DOMAIN worker, Threads, NEW l \in Listens,
         sent[l] # <<>> \/ l \in BatchListens(w)
  PROVE  Sent(w)[l] # <<>>
<1>1. sent[l] \in Seq(Nat) /\ w \in Nat
  BY DEF Records, Threads
<1>2. Append(sent[l], w) # <<>>
  BY <1>1
<1> QED
  BY <1>2 DEF Sent

LEMMA SubmitKept ==
  ASSUME Inv, Kept, NEW w \in DOMAIN worker, Submit(w) PROVE Kept'
<1>1. UNCHANGED <<rows, heard, cleared>> /\ worker[w].at = "submit"
  BY DEF Submit, store, At
<1>2. Threads /\ Records /\ worker[w] \in Worker /\ worker \in Seq(Worker)
  BY DEF Inv, Threads
<1>3. \A l \in Listens : sent[l] # <<>> => sent'[l] # <<>>
  BY <1>2, SentGrows DEF Submit
<1>4. \A q, r \in rows' : q.id = r.id => q = r
  BY <1>1 DEF Kept
<1>5. 1..heard \subseteq Listens
  BY BoundsNatural DEF Inv, Rest, Listens
<1>6. ListensStay'
  <2> SUFFICES ASSUME NEW l \in 1..heard
               PROVE  (\E r \in rows : r.listen = l) \/ sent'[l] # <<>> \/ l \in cleared
    BY <1>1 DEF ListensStay
  <2>1. (\E r \in rows : r.listen = l) \/ sent[l] # <<>> \/ l \in cleared
    BY DEF Kept, ListensStay
  <2>2. l \in Listens
    BY <1>5
  <2>3. sent[l] # <<>> => sent'[l] # <<>>
    BY <1>3, <2>2
  <2> QED
    BY <2>1, <2>3, Zenon
<1>7. ASSUME NEW v \in DOMAIN worker, worker[v].at = "acknowledge"
      PROVE  \A q \in worker[v].batch : sent'[q.listen] # <<>>
  <2> worker[v] \in Worker
    BY <1>2
  <2>1. worker[v].batch \subseteq Row
    BY DEF Worker
  <2>2. \A q \in worker[v].batch : sent[q.listen] # <<>> /\ q.listen \in Listens
    BY <1>7, <2>1 DEF Kept, Row
  <2> QED
    BY <1>3, <2>2
<1>8. CASE Offline(w) \/ End(w)
  <2>1. NoNewBatch
    BY <1>2, <1>8, OfflineNoBatch, EndNoBatch
  <2>2. ASSUME NEW v \in DOMAIN worker', worker'[v].at \in Holding
        PROVE  /\ worker'[v].batch \subseteq rows'
               /\ worker'[v].at = "acknowledge" =>
                    \A q \in worker'[v].batch : sent'[q.listen] # <<>>
    BY <1>1, <1>7, <2>1, <2>2 DEF Kept, NoNewBatch
  <2> QED
    BY <1>4, <1>6, <2>2 DEF Kept, Holding
<1>9. CASE sent' = Sent(w) /\ Go(w, "acknowledge")
  <2> DEFINE r == [worker[w] EXCEPT !.at = "acknowledge"]
  <2>1. r.at = "acknowledge" /\ r.batch = worker[w].batch
    BY <1>2 DEF Worker
  <2>2. worker' = [worker EXCEPT ![w] = r]
    BY <1>9 DEF Go
  <2> HIDE DEF r
  <2>3. /\ DOMAIN worker' = DOMAIN worker /\ worker'[w] = r
        /\ \A v \in DOMAIN worker : v # w => worker'[v] = worker[v]
    BY <1>2, <2>2
  <2>4. worker[w].batch \subseteq rows
    BY <1>1 DEF Kept, Holding
  <2>5. \A q \in worker[w].batch : sent'[q.listen] # <<>>
    <3>1. \A q \in worker[w].batch : q.listen \in Listens
      BY <1>2 DEF Worker, Row
    <3> QED
      BY <1>2, <1>9, <3>1, SentGrows DEF BatchListens
  <2>6. ASSUME NEW v \in DOMAIN worker', worker'[v].at \in Holding
        PROVE  /\ worker'[v].batch \subseteq rows'
               /\ worker'[v].at = "acknowledge" =>
                    \A q \in worker'[v].batch : sent'[q.listen] # <<>>
    <3>1. CASE v = w
      BY <1>1, <2>1, <2>3, <2>4, <2>5, <3>1
    <3>2. CASE v # w
      BY <1>1, <1>7, <2>3, <2>6, <3>2 DEF Kept
    <3> QED
      BY <3>1, <3>2
  <2> QED
    BY <1>4, <1>6, <2>6 DEF Kept, Holding
<1> QED
  BY <1>8, <1>9 DEF Submit

LEMMA AcknowledgeKept ==
  ASSUME Inv, Kept, NEW w \in DOMAIN worker, Acknowledge(w) PROVE Kept'
<1>1. UNCHANGED <<sent, heard, cleared>> /\ worker[w].at = "acknowledge"
  BY DEF Acknowledge, At
<1>2. Threads /\ worker[w] \in Worker /\ worker \in Seq(Worker)
  BY DEF Inv, Threads
<1>3. CASE End(w) /\ UNCHANGED store
  BY <1>1, <1>2, <1>3, EndNoBatch, NoNewBatchKept DEF store
<1>4. CASE Record(w) /\ worker' = [worker EXCEPT ![w].at = "read", ![w].batch = {}]
  <2> DEFINE r == [worker[w] EXCEPT !.at = "read", !.batch = {}]
  <2>1. r.at = "read"
    BY <1>2 DEF Worker
  <2>2. worker' = [worker EXCEPT ![w] = r]
    BY <1>4
  <2> HIDE DEF r
  <2>3. /\ DOMAIN worker' = DOMAIN worker /\ worker'[w] = r
        /\ \A v \in DOMAIN worker : v # w => worker'[v] = worker[v]
    BY <1>2, <2>2
  <2>4. ASSUME NEW v \in DOMAIN worker' PROVE worker'[v].at \notin Holding
    <3>1. CASE v = w
      BY <2>1, <2>3, <3>1 DEF Holding
    <3>2. CASE v # w
      BY <1>1, <1>2, <2>3, <3>2 DEF Threads, DrainLock, Draining, Holding
    <3> QED
      BY <3>1, <3>2
  <2>5. rows' \subseteq rows
    BY <1>4 DEF Record
  <2>6. ASSUME NEW q \in rows \ rows' PROVE sent[q.listen] # <<>>
    <3>1. PICK b \in worker[w].batch : q.id = b.id
      BY <1>4, <2>6 DEF Record, BatchIds
    <3>2. b \in rows /\ sent[b.listen] # <<>>
      BY <1>1, <3>1 DEF Kept, Holding
    <3> QED
      BY <3>1, <3>2, <2>6 DEF Kept
  <2>7. ListensStay'
    <3> SUFFICES ASSUME NEW l \in 1..heard
                 PROVE  (\E q \in rows' : q.listen = l) \/ sent[l] # <<>> \/ l \in cleared
      BY <1>1 DEF ListensStay
    <3> QED
      BY <2>6 DEF Kept, ListensStay
  <2> QED
    BY <2>4, <2>5, <2>7 DEF Kept, Holding
<1> QED
  BY <1>3, <1>4 DEF Acknowledge

LEMMA WorkKept ==
  ASSUME Inv, Kept, NEW w \in DOMAIN worker, Work(w) PROVE Kept'
  BY QuietKept, ReadPendingKept, SubmitKept, AcknowledgeKept DEF Work

LEMMA AgreesNoBatch ==
  ASSUME Threads, Agrees(worker') PROVE NoNewBatch
<1>1. DOMAIN worker' = DOMAIN worker
  BY DEF Agrees, Threads
<1> QED
  BY <1>1 DEF Agrees, NoNewBatch

LEMMA ConfigureNoBatch ==
  ASSUME Threads, Configure PROVE NoNewBatch
<1> DEFINE n == Len(worker)
<1>1. Agrees(Stopped) /\ worker' = Append(Stopped, NewWorker)
  BY StoppedAgrees DEF Configure
<1>2. NewWorker.at \notin Holding
  BY WorkerKinds DEF Holding
<1>3. /\ DOMAIN worker' = 1..(n + 1) /\ DOMAIN worker = 1..n /\ n \in Nat
      /\ worker'[n + 1] = NewWorker
      /\ \A v \in 1..n : worker'[v] = Stopped[v]
  BY <1>1 DEF Agrees, Threads
<1>4. \A v \in 1..n : worker'[v].at = worker[v].at /\ worker'[v].batch = worker[v].batch
  BY <1>1, <1>3 DEF Agrees
<1> HIDE DEF n
<1> QED
  BY <1>2, <1>3, <1>4 DEF NoNewBatch

LEMMA ListenKept == ASSUME Inv, Kept, Listen PROVE Kept'
<1>1. Threads /\ "flush" \in Commands
  BY DEF Inv, Commands
<1>2. NoNewBatch
  BY <1>1, MailedAgrees, AgreesNoBatch DEF Listen
<1>3. UNCHANGED <<sent, cleared>> /\ heard' = heard + 1 /\ heard \in Nat
  BY DEF Inv, Rest, Listen
<1>4. PICK id \in Listens : NextId(id) /\ rows' = rows \cup {[id |-> id, listen |-> heard']}
  BY DEF Listen
<1>5. \A r \in rows : r.id # id
  BY <1>4 DEF NextId, Inv, Records, Row, Listens
<1>6. \A q, r \in rows' : q.id = r.id => q = r
  BY <1>4, <1>5 DEF Kept
<1>7. ListensStay'
  <2> SUFFICES ASSUME NEW l \in 1..(heard + 1)
               PROVE  (\E q \in rows' : q.listen = l) \/ sent[l] # <<>> \/ l \in cleared
    BY <1>3 DEF ListensStay
  <2>1. CASE l = heard + 1
    <3> DEFINE row == [id |-> id, listen |-> heard']
    <3>1. row \in rows'
      BY <1>4
    <3>2. row.listen = l
      BY <1>3, <2>1
    <3> QED
      BY <3>1, <3>2
  <2>2. CASE l \in 1..heard
    BY <1>4, <2>2 DEF Kept, ListensStay
  <2> QED
    BY <1>3, <2>1, <2>2
<1>8. ASSUME NEW w \in DOMAIN worker', worker'[w].at \in Holding
      PROVE  /\ worker'[w].batch \subseteq rows'
             /\ worker'[w].at = "acknowledge" =>
                  \A r \in worker'[w].batch : sent'[r.listen] # <<>>
  BY <1>2, <1>3, <1>4, <1>8 DEF Kept, NoNewBatch
<1> QED
  BY <1>6, <1>7, <1>8 DEF Kept, Holding

LEMMA UserKept == ASSUME Inv, Kept, ~Disconnects, User PROVE Kept'
<1>1. Threads /\ "playing" \in Commands
  BY DEF Inv, Commands
<1>2. CASE Listen
  BY <1>2, ListenKept
<1>3. CASE Enable
  BY <1>1, <1>3, ConfigureNoBatch, NoNewBatchKept DEF Enable, store, history
<1>4. CASE SwitchOff
  BY <1>1, <1>4, StoppedAgrees, AgreesNoBatch, NoNewBatchKept
     DEF SwitchOff, Disable, store, history
<1>5. CASE PlayingNow
  BY <1>1, <1>5, MailedAgrees, AgreesNoBatch, NoNewBatchKept DEF PlayingNow, store, history
<1>6. CASE Exit
  <2>1. Over.at \notin Holding
    BY WorkerKinds DEF Holding
  <2>2. NoNewBatch
    BY <1>6, <2>1 DEF Exit, NoNewBatch
  <2> QED
    BY <1>6, <2>2, NoNewBatchKept DEF Exit, store
<1>7. CASE Launch
  <2>1. UNCHANGED <<rows, sent, heard, cleared>>
    BY <1>7 DEF Launch, store, history
  <2>2. CASE UNCHANGED worker
    BY <2>1, <2>2, NoNewBatchKept DEF NoNewBatch
  <2>3. CASE Configure
    BY <1>1, <2>1, <2>3, ConfigureNoBatch, NoNewBatchKept
  <2> QED
    BY <1>7, <2>2, <2>3 DEF Launch
<1>8. ~Disconnect
  BY DEF Disconnect
<1> QED
  BY <1>2, <1>3, <1>4, <1>5, <1>6, <1>7, <1>8 DEF User

LEMMA KeptInit == Init => Kept
  BY DEF Init, Kept, ListensStay

LEMMA KeptNext ==
  ASSUME ~Disconnects PROVE Inv /\ Kept /\ [Next]_vars => Kept'
<1> SUFFICES ASSUME Inv, Kept, [Next]_vars PROVE Kept'
  OBVIOUS
<1>1. CASE UNCHANGED vars
  BY <1>1 DEF Kept, ListensStay, vars, store, history
<1>2. CASE User
  BY <1>2, UserKept
<1>3. CASE \E w \in DOMAIN worker : Work(w)
  BY <1>3, WorkKept
<1> QED
  BY <1>1, <1>2, <1>3 DEF Next

\* Unless the user disconnects the account, a listen leaves the queue only after it
\* was submitted.
THEOREM QueueIsDurable ==
  ASSUME ~Disconnects PROVE Spec => []ListensStay
<1>1. Kept => ListensStay
  BY DEF Kept
<1>2. Inv /\ Kept /\ [Next]_vars => Kept'
  BY KeptNext
<1> QED
  BY <1>1, <1>2, KeptInit, InvAlways, PTL DEF Spec

-----------------------------------------------------------------------------
(* What reaches the provider.  Only the thread with the drain lock has rows *)
(* in hand, so the invariants speak of the rows in the queue and of what    *)
(* the lock's owner holds.                                                  *)

Holds(stops) ==
  IF lock # 0 /\ worker[lock].at \in stops THEN worker[lock].batch ELSE {}

\* What was read to be submitted, and of it what was submitted already.
Held == Holds(Holding)
InFlight == Holds({"acknowledge"})

\* A listen has one row, from the queue to the acknowledgement.
Numbered ==
  /\ \A r \in rows \cup Held : r.listen \in 1..heard
  /\ \A r, s \in rows \cup Held : r.listen = s.listen => r = s

\* What waits for a submission was submitted only in vain so far.
Once ==
  /\ \A l \in Listens : l > heard => sent[l] = <<>>
  /\ SubmittedOnce
  /\ \A r \in (rows \cup Held) \ InFlight : Len(sent[r.listen]) <= unsure

-----------------------------------------------------------------------------
(* What the owner of the lock holds.                                       *)

LEMMA HeldParts ==
  ASSUME Inv
  PROVE  /\ InFlight \subseteq Held /\ Held \subseteq Row
         /\ rows \subseteq Row
         /\ \A r \in Row : r.listen \in Listens /\ r.id \in Nat
         /\ heard \in Nat /\ unsure \in Nat /\ sent \in [Listens -> Seq(Nat)]
<1>1. InFlight \subseteq Held
  BY DEF InFlight, Held, Holds, Holding
<1>2. Held \subseteq Row
  <2>1. CASE lock # 0 /\ worker[lock].at \in Holding
    <3>1. lock \in DOMAIN worker /\ worker[lock] \in Worker
      BY <2>1 DEF Inv, Threads, DrainLock
    <3> QED
      BY <2>1, <3>1 DEF Held, Holds, Worker
  <2> QED
    BY <2>1 DEF Held, Holds
<1>3. \A r \in Row : r.listen \in Listens /\ r.id \in Nat
  BY DEF Row, Listens
<1> QED
  BY <1>1, <1>2, <1>3 DEF Inv, Records, Rest

\* The thread that submits or acknowledges is the owner.
LEMMA OwnerHolds ==
  ASSUME Inv, NEW w \in DOMAIN worker
  PROVE  /\ worker[w].at \in Draining => lock = w /\ lock # 0
         /\ worker[w].at = "read" => Held = {} /\ InFlight = {}
         /\ worker[w].at = "submit" => Held = worker[w].batch /\ InFlight = {}
         /\ worker[w].at = "acknowledge" =>
              Held = worker[w].batch /\ InFlight = worker[w].batch
<1>1. w # 0
  BY DEF Inv, Threads
<1>2. worker[w].at \in Draining => lock = w
  BY DEF Inv, Threads, DrainLock
<1> QED
  BY <1>1, <1>2 DEF Draining, Held, InFlight, Holds, Holding

LEMMA NobodyHolds ==
  ASSUME lock = 0 PROVE Held = {} /\ InFlight = {}
  BY DEF Held, InFlight, Holds

\* Steps that leave the owner where it is.
LEMMA SameHands ==
  ASSUME UNCHANGED lock,
         lock # 0 => /\ worker'[lock].at = worker[lock].at
                     /\ worker'[lock].batch = worker[lock].batch
  PROVE  Held' = Held /\ InFlight' = InFlight
  BY DEF Held, InFlight, Holds

LEMMA AgreedHands ==
  ASSUME Inv, UNCHANGED lock, Agrees(worker')
  PROVE  Held' = Held /\ InFlight' = InFlight
<1>1. lock # 0 => lock \in DOMAIN worker
  BY DEF Inv, Threads, DrainLock
<1> QED
  BY <1>1, SameHands DEF Agrees

LEMMA ConfiguredHands ==
  ASSUME Inv, UNCHANGED lock, Configure
  PROVE  Held' = Held /\ InFlight' = InFlight
<1>1. Agrees(Stopped) /\ worker' = Append(Stopped, NewWorker)
  BY StoppedAgrees DEF Inv, Configure
<1>2. lock # 0 => lock \in DOMAIN worker /\ lock \in 1..Len(Stopped)
  BY <1>1 DEF Inv, Threads, DrainLock, Agrees
<1>3. Stopped \in Seq(Worker)
  BY <1>1 DEF Agrees
<1>4. lock # 0 => worker'[lock] = Stopped[lock]
  BY <1>1, <1>2, <1>3
<1> QED
  BY <1>1, <1>2, <1>4, SameHands DEF Agrees

\* A thread that does not drain is not the owner.
LEMMA OtherHands ==
  ASSUME Inv, UNCHANGED lock, NEW w \in DOMAIN worker, worker[w].at \notin Draining,
         NEW r, worker' = [worker EXCEPT ![w] = r]
  PROVE  Held' = Held /\ InFlight' = InFlight
<1>1. lock # 0 => lock \in DOMAIN worker /\ lock # w
  BY DEF Inv, Threads, DrainLock
<1>2. lock # 0 => worker'[lock] = worker[lock]
  BY <1>1 DEF Inv, Threads
<1> QED
  BY <1>2, SameHands

\* What a step leaves to be submitted, and what it must not lose count of.
LEMMA FewerOnce ==
  ASSUME Inv, Numbered, Once, UNCHANGED <<heard, sent>>, unsure' \in Nat, unsure' >= unsure,
         rows' \cup Held' \subseteq rows \cup Held,
         \A r \in (rows' \cup Held') \ InFlight' : r \in InFlight => unsure' >= unsure + 1
  PROVE  Numbered' /\ Once'
<1>1. Numbered'
  BY DEF Numbered
<1>2. \A l \in Listens : Len(sent[l]) \in Nat
  BY HeldParts
<1>3. SubmittedOnce'
  BY <1>2, HeldParts DEF Once, SubmittedOnce
<1>4. ASSUME NEW r \in (rows' \cup Held') \ InFlight'
      PROVE  Len(sent'[r.listen]) <= unsure'
  <2>1. r \in rows \cup Held /\ r.listen \in Listens
    BY <1>4, HeldParts
  <2>2. Len(sent[r.listen]) <= 1 + unsure
    BY <2>1 DEF Once, SubmittedOnce
  <2>3. r \notin InFlight => Len(sent[r.listen]) <= unsure
    BY <2>1 DEF Once
  <2>4. Len(sent[r.listen]) \in Nat /\ unsure \in Nat
    BY <1>2, <2>1, HeldParts
  <2> QED
    BY <1>4, <2>2, <2>3, <2>4
<1> QED
  BY <1>1, <1>3, <1>4 DEF Once

LEMMA SameOnce ==
  ASSUME Inv, Numbered, Once, UNCHANGED <<rows, heard, sent, unsure>>,
         Held' = Held, InFlight' = InFlight
  PROVE  Numbered' /\ Once'
<1>1. unsure \in Nat
  BY HeldParts
<1> QED
  BY <1>1, FewerOnce

-----------------------------------------------------------------------------
(* Once, step by step.                                                     *)

\* Nobody drains after the step, or the owner is about to read.
LEMMA Released ==
  ASSUME lock' = 0 \/ worker'[lock'].at = "read"
  PROVE  Held' = {} /\ InFlight' = {}
<1>1. "read" \notin Holding /\ "read" \notin {"acknowledge"}
  BY DEF Holding
<1> QED
  BY <1>1 DEF Held, InFlight, Holds

\* The steps that touch neither the queue nor a request.
LEMMA QuietHands ==
  ASSUME Inv, NEW w \in DOMAIN worker,
         \/ OpenDatabase(w) \/ StartRound(w) \/ Validate(w) \/ TakeDeferred(w)
         \/ Announce(w) \/ Lock(w) \/ ReportConnected(w) \/ Receive(w) \/ WaitForRetry(w)
  PROVE  Held' = Held /\ InFlight' = InFlight
<1>1. \E r : worker' = [worker EXCEPT ![w] = r]
  BY DEF OpenDatabase, StartRound, Validate, TakeDeferred, Announce, Lock,
         ReportConnected, Receive, WaitForRetry, Go, End, Offline, GoUnlessCancelled
<1>2. worker[w].at \notin Draining
  BY DEF OpenDatabase, StartRound, Validate, TakeDeferred, Announce, Lock,
         ReportConnected, Receive, WaitForRetry, At, Draining
<1>3. CASE Lock(w)
  <2>1. lock = 0 /\ lock' = w /\ w \in DOMAIN worker /\ worker \in Seq(Worker)
    BY <1>3 DEF Lock, Inv, Threads
  <2>2. worker[w] \in Worker /\ worker' = [worker EXCEPT ![w].at = "read"]
    BY <1>3, <2>1 DEF Lock, Go
  <2>3. worker'[w].at = "read"
    BY <2>1, <2>2 DEF Worker
  <2>4. Held' = {} /\ InFlight' = {}
    BY <2>1, <2>3, Released
  <2> QED
    BY <2>1, <2>4, NobodyHolds
<1>4. CASE ~Lock(w)
  <2>1. UNCHANGED lock
    BY <1>4 DEF OpenDatabase, StartRound, Validate, TakeDeferred, Announce,
         ReportConnected, Receive, WaitForRetry
  <2> QED
    BY <1>1, <1>2, <2>1, OtherHands
<1> QED
  BY <1>3, <1>4

LEMMA QuietOnce ==
  ASSUME Inv, Numbered, Once, NEW w \in DOMAIN worker,
         \/ OpenDatabase(w) \/ StartRound(w) \/ Validate(w) \/ TakeDeferred(w)
         \/ Announce(w) \/ Lock(w) \/ ReportConnected(w) \/ Receive(w) \/ WaitForRetry(w)
  PROVE  Numbered' /\ Once'
<1>1. UNCHANGED <<rows, heard, sent, unsure>>
  BY DEF OpenDatabase, StartRound, Validate, TakeDeferred, Announce, Lock,
         ReportConnected, Receive, WaitForRetry, Elsewhere, store, history
<1> QED
  BY <1>1, QuietHands, SameOnce

\* What a thread holds after its request was made ready, or after it left the drain.
LEMMA ReadHands ==
  ASSUME Inv, NEW w \in DOMAIN worker, ReadPending(w)
  PROVE  /\ InFlight' = {}
         /\ Held' = {} \/ (Held' = Pending /\ Pending \subseteq rows)
<1>1. worker[w].at = "read" /\ worker \in Seq(Worker) /\ worker[w] \in Worker
  BY DEF ReadPending, At, Inv, Threads
<1>2. lock = w /\ w # 0
  BY <1>1, OwnerHolds DEF Draining
<1>3. CASE lock' = 0
  BY <1>3, Released
<1>4. CASE /\ worker' = [worker EXCEPT ![w].at = "submit", ![w].batch = Pending]
           /\ UNCHANGED lock
  <2>1. worker'[lock].at = "submit" /\ worker'[lock].batch = Pending
    BY <1>1, <1>2, <1>4 DEF Worker
  <2> QED
    BY <1>2, <1>4, <2>1, PendingRows DEF Held, InFlight, Holds, Holding, Inv
<1> QED
  BY <1>3, <1>4 DEF ReadPending

LEMMA ReadPendingOnce ==
  ASSUME Inv, Numbered, Once, NEW w \in DOMAIN worker, ReadPending(w)
  PROVE  Numbered' /\ Once'
<1>1. UNCHANGED <<rows, heard, sent, unsure>> /\ unsure \in Nat
  BY HeldParts DEF ReadPending, Elsewhere, store, history
<1>2. InFlight = {}
  BY OwnerHolds DEF ReadPending, At
<1> QED
  BY <1>1, <1>2, ReadHands, FewerOnce

\* What a request makes of the history.
LEMMA SentCounts ==
  ASSUME Inv, NEW w \in DOMAIN worker, NEW l \in Listens
  PROVE  /\ l \in BatchListens(w) => Len(Sent(w)[l]) = Len(sent[l]) + 1
         /\ l \notin BatchListens(w) => Sent(w)[l] = sent[l]
         /\ Len(sent[l]) \in Nat
<1>1. sent[l] \in Seq(Nat) /\ w \in Nat
  BY HeldParts DEF Inv, Threads
<1> QED
  BY <1>1 DEF Sent

LEMMA SomethingSent ==
  ASSUME Inv, NEW w \in DOMAIN worker, NEW r \in worker[w].batch
  PROVE  /\ Cardinality(worker[w].batch) \in Nat
         /\ Cardinality(worker[w].batch) >= 1
<1>1. IsFiniteSet(worker[w].batch) /\ worker[w].batch # {}
  BY DEF Inv, Threads
<1> QED
  BY <1>1, FS_EmptySet, FS_CardinalityType

LEMMA SentOnce ==
  ASSUME Inv, Numbered, Once, NEW w \in DOMAIN worker, worker[w].at = "submit",
         UNCHANGED <<rows, heard>>, sent' = Sent(w),
         \/ Held' = Held /\ InFlight' = Held /\ UNCHANGED unsure
         \/ Held' = {} /\ InFlight' = {}
              /\ unsure' = unsure + Cardinality(worker[w].batch)
  PROVE  Numbered' /\ Once'
<1>1. Held = worker[w].batch /\ InFlight = {}
  BY OwnerHolds
<1>2. unsure \in Nat /\ unsure' \in Nat /\ unsure' >= unsure
  BY HeldParts, SentType DEF Inv
<1>3. Numbered'
  BY <1>1 DEF Numbered
<1>4. ASSUME NEW l \in BatchListens(w)
      PROVE  l \in 1..heard /\ l \in Listens /\ Len(sent[l]) <= unsure
  <2>1. PICK r \in worker[w].batch : r.listen = l
    BY <1>4 DEF BatchListens
  <2> QED
    BY <1>1, <2>1, HeldParts DEF Numbered, Once
<1>5. ASSUME NEW l \in Listens, l > heard PROVE sent'[l] = <<>>
  <2>1. l \notin BatchListens(w)
    BY <1>4, <1>5, HeldParts
  <2> QED
    BY <1>5, <2>1, SentCounts DEF Once
<1>6. ASSUME NEW l \in Listens PROVE Len(sent'[l]) <= 1 + unsure'
  <2>1. CASE l \in BatchListens(w)
    BY <1>2, <1>4, <1>6, <2>1, SentCounts
  <2>2. CASE l \notin BatchListens(w)
    BY <1>2, <1>6, <2>2, SentCounts DEF Once, SubmittedOnce
  <2> QED
    BY <2>1, <2>2
<1>7. ASSUME NEW r \in (rows' \cup Held') \ InFlight'
      PROVE  Len(sent'[r.listen]) <= unsure'
  <2>1. r \in rows \cup Held /\ r.listen \in Listens
    BY <1>7, HeldParts
  <2>2. CASE r.listen \in BatchListens(w)
    <3>1. PICK s \in worker[w].batch : s.listen = r.listen
      BY <2>2 DEF BatchListens
    <3>2. r = s
      BY <1>1, <2>1, <3>1 DEF Numbered
    <3>3. r \in worker[w].batch /\ unsure' = unsure + Cardinality(worker[w].batch)
      BY <1>1, <1>7, <3>2
    <3>4. Cardinality(worker[w].batch) \in Nat /\ Cardinality(worker[w].batch) >= 1
      BY <3>3, SomethingSent
    <3>5. Len(sent'[r.listen]) = Len(sent[r.listen]) + 1 /\ Len(sent[r.listen]) \in Nat
      BY <2>1, <2>2, SentCounts
    <3> QED
      BY <1>2, <1>4, <2>2, <3>3, <3>4, <3>5
  <2>3. CASE r.listen \notin BatchListens(w)
    <3>1. Len(sent[r.listen]) <= unsure
      BY <1>1, <2>1 DEF Once
    <3>2. sent'[r.listen] = sent[r.listen] /\ Len(sent[r.listen]) \in Nat
      BY <2>1, <2>3, SentCounts
    <3> QED
      BY <1>2, <3>1, <3>2
  <2> QED
    BY <2>2, <2>3
<1> QED
  BY <1>3, <1>5, <1>6, <1>7 DEF Once, SubmittedOnce

\* Where a request leads: the batch is in flight, or nobody holds anything.
LEMMA SubmitHands ==
  ASSUME Inv, NEW w \in DOMAIN worker, Submit(w)
  PROVE  /\ Held = worker[w].batch
         /\ \/ Held' = Held /\ InFlight' = Held /\ sent' = Sent(w) /\ UNCHANGED unsure
            \/ /\ Held' = {} /\ InFlight' = {}
               /\ \/ UNCHANGED <<sent, unsure>>
                  \/ /\ sent' = Sent(w)
                     /\ unsure' = unsure + Cardinality(worker[w].batch)
<1>1. worker[w].at = "submit" /\ worker \in Seq(Worker) /\ worker[w] \in Worker
  BY DEF Submit, At, Inv, Threads
<1>2. lock = w /\ w # 0 /\ Held = worker[w].batch
  BY <1>1, OwnerHolds DEF Draining
<1>3. CASE lock' = 0
  <2>1. Held' = {} /\ InFlight' = {}
    BY <1>3, Released
  <2> QED
    BY <1>2, <1>3, <2>1 DEF Submit
<1>4. CASE UNCHANGED <<lock, unsure>> /\ sent' = Sent(w) /\ Go(w, "acknowledge")
  <2>1. worker'[lock].at = "acknowledge" /\ worker'[lock].batch = worker[w].batch
    BY <1>1, <1>2, <1>4 DEF Go, Worker
  <2> QED
    BY <1>2, <1>4, <2>1 DEF Held, InFlight, Holds, Holding
<1> QED
  BY <1>2, <1>3, <1>4 DEF Submit

LEMMA SubmitOnce ==
  ASSUME Inv, Numbered, Once, NEW w \in DOMAIN worker, Submit(w)
  PROVE  Numbered' /\ Once'
<1>1. UNCHANGED <<rows, heard>> /\ worker[w].at = "submit"
  BY DEF Submit, store, At
<1>2. InFlight = {} /\ unsure \in Nat
  BY <1>1, OwnerHolds, HeldParts
<1>3. CASE UNCHANGED <<sent, unsure>> /\ Held' = {}
  BY <1>1, <1>2, <1>3, FewerOnce
<1>4. CASE sent' = Sent(w)
  BY <1>1, <1>3, <1>4, SubmitHands, SentOnce
<1> QED
  BY <1>3, <1>4, SubmitHands

LEMMA AcknowledgeHands ==
  ASSUME Inv, NEW w \in DOMAIN worker, Acknowledge(w)
  PROVE  /\ Held = worker[w].batch /\ InFlight = worker[w].batch
         /\ Held' = {} /\ InFlight' = {}
<1>1. worker[w].at = "acknowledge" /\ worker \in Seq(Worker) /\ worker[w] \in Worker
  BY DEF Acknowledge, At, Inv, Threads
<1>2. lock = w /\ w # 0
  BY <1>1, OwnerHolds DEF Draining
<1>3. Held' = {} /\ InFlight' = {}
  <2>1. CASE lock' = 0
    BY <2>1, Released
  <2>2. CASE /\ worker' = [worker EXCEPT ![w].at = "read", ![w].batch = {}]
             /\ UNCHANGED lock
    <3>1. worker'[lock].at = "read"
      BY <1>1, <1>2, <2>2 DEF Worker
    <3> QED
      BY <2>2, <3>1, Released
  <2> QED
    BY <2>1, <2>2 DEF Acknowledge
<1> QED
  BY <1>1, <1>3, OwnerHolds

LEMMA AcknowledgeOnce ==
  ASSUME Inv, Numbered, Once, NEW w \in DOMAIN worker, Acknowledge(w)
  PROVE  Numbered' /\ Once'
<1>1. UNCHANGED <<heard, sent>> /\ unsure \in Nat
  BY HeldParts DEF Acknowledge
<1>2. CASE Record(w) /\ UNCHANGED unsure
  <2>1. rows' \subseteq rows /\ \A r \in rows' : r \notin worker[w].batch
    BY <1>2 DEF Record, BatchIds
  <2> QED
    BY <1>1, <1>2, <2>1, AcknowledgeHands, FewerOnce
<1>3. CASE UNCHANGED store /\ unsure' = unsure + Cardinality(worker[w].batch)
  <2>1. unsure' \in Nat /\ unsure' >= unsure
    BY <1>1, <1>3, SentType DEF Inv
  <2>2. \A r \in worker[w].batch : unsure' >= unsure + 1
    BY <1>1, <1>3, SomethingSent
  <2>3. UNCHANGED rows
    BY <1>3 DEF store
  <2> QED
    BY <1>1, <2>1, <2>2, <2>3, AcknowledgeHands, FewerOnce
<1> QED
  BY <1>2, <1>3 DEF Acknowledge

LEMMA WorkOnce ==
  ASSUME Inv, Numbered, Once, NEW w \in DOMAIN worker, Work(w)
  PROVE  Numbered' /\ Once'
  BY QuietOnce, ReadPendingOnce, SubmitOnce, AcknowledgeOnce DEF Work

\* What a heard track adds to the queue.
LEMMA NewRow ==
  ASSUME Inv, Listen
  PROVE  \E row : /\ rows' = rows \cup {row} /\ row.listen = heard + 1
                  /\ row.id \in Nat /\ \A r \in rows : r.id < row.id
<1>1. heard' = heard + 1
  BY DEF Listen
<1>2. PICK id \in Listens :
        NextId(id) /\ rows' = rows \cup {[id |-> id, listen |-> heard + 1]}
  BY <1>1 DEF Listen
<1> DEFINE row == [id |-> id, listen |-> heard + 1]
<1>3. row.listen = heard + 1 /\ row.id \in Nat /\ \A r \in rows : r.id < row.id
  BY <1>2 DEF NextId, Listens
<1>4. rows' = rows \cup {row}
  BY <1>2
<1> HIDE DEF row
<1> QED
  BY <1>3, <1>4

LEMMA ListenOnce ==
  ASSUME Inv, Numbered, Once, Listen
  PROVE  Numbered' /\ Once'
<1>1. Held' = Held /\ InFlight' = InFlight
  <2>1. UNCHANGED lock /\ worker' = Mailed("flush") /\ "flush" \in Commands
    BY DEF Listen, Commands
  <2> QED
    BY <2>1, MailedAgrees, AgreedHands DEF Inv
<1>2. UNCHANGED <<sent, unsure>> /\ heard' = heard + 1 /\ heard \in Nat /\ unsure \in Nat
  BY HeldParts DEF Listen
<1>3. PICK row : rows' = rows \cup {row} /\ row.listen = heard + 1
  BY NewRow
<1>4. heard + 1 \in Listens
  BY <1>2, BoundsNatural DEF Listen, Listens
<1>5. \A r \in rows \cup Held : r.listen # row.listen
  BY <1>2, <1>3 DEF Numbered
<1>6. Numbered'
  <2>1. rows' \cup Held' = (rows \cup Held) \cup {row}
    BY <1>1, <1>3
  <2>2. ASSUME NEW r \in rows' \cup Held' PROVE r.listen \in 1..heard'
    BY <1>2, <1>3, <2>1, <2>2 DEF Numbered
  <2>3. ASSUME NEW r \in rows' \cup Held', NEW s \in rows' \cup Held',
               r.listen = s.listen
        PROVE  r = s
    BY <1>5, <2>1, <2>3 DEF Numbered
  <2> QED
    BY <2>2, <2>3 DEF Numbered
<1>7. ASSUME NEW r \in (rows' \cup Held') \ InFlight'
      PROVE  Len(sent'[r.listen]) <= unsure'
  <2>1. CASE r = row
    <3>1. sent[row.listen] = <<>>
      BY <1>2, <1>3, <1>4 DEF Once
    <3> QED
      BY <1>2, <2>1, <3>1
  <2>2. CASE r \in (rows \cup Held) \ InFlight
    BY <1>2, <2>2 DEF Once
  <2> QED
    BY <1>1, <1>3, <1>7, <2>1, <2>2
<1>8. (\A l \in Listens : l > heard' => sent'[l] = <<>>) /\ SubmittedOnce'
  BY <1>2 DEF Once, SubmittedOnce, Listens
<1> QED
  BY <1>6, <1>7, <1>8 DEF Once

LEMMA ExitOnce ==
  ASSUME Inv, Numbered, Once, Exit
  PROVE  Numbered' /\ Once'
<1>1. Held' = {} /\ InFlight' = {}
  BY Released DEF Exit
<1>2. UNCHANGED <<rows, heard, sent>> /\ unsure \in Nat
  BY HeldParts DEF Exit, store
<1>3. CASE lock # 0 /\ At(lock, "acknowledge")
  <2>1. lock \in DOMAIN worker /\ worker[lock].at = "acknowledge"
    BY <1>3 DEF At
  <2>2. InFlight = worker[lock].batch
    BY <2>1, OwnerHolds
  <2>3. unsure' = unsure + Cardinality(worker[lock].batch)
    BY <1>3 DEF Exit
  <2>4. unsure' \in Nat /\ unsure' >= unsure
    BY <1>2, <2>1, <2>3, SentType DEF Inv
  <2>5. \A r \in InFlight : unsure' >= unsure + 1
    BY <1>2, <2>1, <2>2, <2>3, SomethingSent
  <2> QED
    BY <1>1, <1>2, <2>4, <2>5, FewerOnce
<1>4. CASE ~(lock # 0 /\ At(lock, "acknowledge"))
  <2>1. InFlight = {}
    <3>1. lock # 0 => lock \in DOMAIN worker
      BY DEF Inv, Threads, DrainLock
    <3> QED
      BY <1>4, <3>1 DEF InFlight, Holds, At
  <2>2. UNCHANGED unsure
    BY <1>4 DEF Exit
  <2> QED
    BY <1>1, <1>2, <2>1, <2>2, FewerOnce
<1> QED
  BY <1>3, <1>4

LEMMA UserOnce ==
  ASSUME Inv, Numbered, Once, User
  PROVE  Numbered' /\ Once'
<1>1. CASE Listen
  BY <1>1, ListenOnce
<1>2. CASE Exit
  BY <1>2, ExitOnce
<1>3. CASE Enable
  BY <1>3, ConfiguredHands, SameOnce DEF Enable, store, history
<1>4. CASE SwitchOff
  <2>1. UNCHANGED lock /\ Agrees(worker')
    BY <1>4, StoppedAgrees DEF SwitchOff, Disable, Inv
  <2> QED
    BY <1>4, <2>1, AgreedHands, SameOnce DEF SwitchOff, store, history
<1>5. CASE Disconnect
  <2>1. UNCHANGED lock /\ Agrees(worker')
    BY <1>5, StoppedAgrees DEF Disconnect, Disable, Inv
  <2>2. Held' = Held /\ InFlight' = InFlight
    BY <2>1, AgreedHands
  <2>3. rows' \subseteq rows /\ UNCHANGED <<heard, sent, unsure>> /\ unsure \in Nat
    BY <1>5, HeldParts DEF Disconnect
  <2> QED
    BY <2>2, <2>3, FewerOnce
<1>6. CASE PlayingNow
  <2>1. UNCHANGED lock /\ worker' = Mailed("playing") /\ "playing" \in Commands
    BY <1>6 DEF PlayingNow, Commands
  <2>2. Agrees(worker')
    BY <2>1, MailedAgrees DEF Inv
  <2> QED
    BY <1>6, <2>1, <2>2, AgreedHands, SameOnce DEF PlayingNow, store, history
<1>7. CASE Launch
  <2>1. UNCHANGED <<rows, heard, sent, unsure, lock>>
    BY <1>7 DEF Launch, store, history
  <2>2. Held' = Held /\ InFlight' = InFlight
    <3>1. CASE UNCHANGED worker
      BY <2>1, <3>1, SameHands
    <3>2. CASE Configure
      BY <2>1, <3>2, ConfiguredHands
    <3> QED
      BY <1>7, <3>1, <3>2 DEF Launch
  <2> QED
    BY <2>1, <2>2, SameOnce
<1> QED
  BY <1>1, <1>2, <1>3, <1>4, <1>5, <1>6, <1>7 DEF User

LEMMA OnceInit ==
  ASSUME Init PROVE Numbered /\ Once
<1>1. Held = {} /\ InFlight = {}
  BY NobodyHolds DEF Init
<1>2. \A l \in Listens : sent[l] = <<>>
  BY DEF Init
<1> QED
  BY <1>1, <1>2 DEF Init, Numbered, Once, SubmittedOnce

LEMMA OnceNext == Inv /\ Numbered /\ Once /\ [Next]_vars => Numbered' /\ Once'
<1> SUFFICES ASSUME Inv, Numbered, Once, [Next]_vars PROVE Numbered' /\ Once'
  OBVIOUS
<1>1. CASE UNCHANGED vars
  BY <1>1, SameHands, SameOnce DEF vars, store, history
<1>2. CASE User
  BY <1>2, UserOnce
<1>3. CASE \E w \in DOMAIN worker : Work(w)
  BY <1>3, WorkOnce
<1> QED
  BY <1>1, <1>2, <1>3 DEF Next

LEMMA OnceAlways == Spec => [](Inv /\ Numbered /\ Once)
<1>1. Init => Numbered /\ Once
  BY OnceInit
<1> QED
  BY <1>1, OnceNext, InvAlways, PTL DEF Spec

\* A listen reaches the provider twice only when the success of a submission was
\* lost: not when two accounts' threads drain one queue, not after a crash, and not
\* when a disconnect frees row ids that a request in flight still names
\* (scrobble_runtime.rs run_worker, queue.rs acknowledge_for).
THEOREM NothingTwice == Spec => []SubmittedOnce
<1>1. Once => SubmittedOnce
  BY DEF Once
<1> QED
  BY <1>1, OnceAlways, PTL

-----------------------------------------------------------------------------
(* The counter.                                                            *)

Counted ==
  /\ IsFiniteSet(Submissions)
  /\ submitted + unsure + Cardinality(InFlight) = Cardinality(Submissions)

\* Only the owner of the lock records.
LEMMA UnrecordedInFlight == Inv => Unrecorded = InFlight
<1> SUFFICES ASSUME Inv PROVE Unrecorded = InFlight
  OBVIOUS
<1>1. \A v \in DOMAIN worker : worker[v].at = "acknowledge" => v = lock /\ lock # 0
  BY OwnerHolds DEF Draining
<1>2. lock # 0 => lock \in DOMAIN worker
  BY DEF Inv, Threads, DrainLock
<1>3. CASE lock # 0 /\ worker[lock].at = "acknowledge"
  <2>1. {v \in DOMAIN worker : worker[v].at = "acknowledge"} = {lock}
    BY <1>1, <1>2, <1>3
  <2> QED
    BY <1>3, <2>1 DEF Unrecorded, InFlight, Holds
<1>4. CASE ~(lock # 0 /\ worker[lock].at = "acknowledge")
  <2>1. {v \in DOMAIN worker : worker[v].at = "acknowledge"} = {}
    BY <1>1, <1>4
  <2> QED
    BY <1>4, <2>1 DEF Unrecorded, InFlight, Holds
<1> QED
  BY <1>3, <1>4

LEMMA CountTypes ==
  ASSUME Inv
  PROVE  /\ submitted \in Nat /\ unsure \in Nat
         /\ IsFiniteSet(InFlight) /\ Cardinality(InFlight) \in Nat
         /\ Cardinality({}) = 0
<1>1. IsFiniteSet(InFlight)
  <2>1. lock # 0 => lock \in DOMAIN worker
    BY DEF Inv, Threads, DrainLock
  <2> QED
    BY <2>1, FS_EmptySet DEF InFlight, Holds, Inv, Threads
<1> QED
  BY <1>1, FS_CardinalityType, FS_EmptySet DEF Inv, Records

\* Steps that only move what is known of a submission.
LEMMA SameCount ==
  ASSUME Counted, UNCHANGED sent,
         submitted' + unsure' + Cardinality(InFlight')
           = submitted + unsure + Cardinality(InFlight)
  PROVE  Counted'
<1>1. Submissions' = Submissions
  BY DEF Submissions
<1> QED
  BY <1>1 DEF Counted

\* A request adds one submission for each of its rows.
LEMMA NewSubmissions ==
  ASSUME Inv, Numbered, NEW w \in DOMAIN worker, worker[w].at = "submit",
         sent' = Sent(w), IsFiniteSet(Submissions)
  PROVE  /\ IsFiniteSet(Submissions')
         /\ Cardinality(Submissions')
              = Cardinality(Submissions) + Cardinality(worker[w].batch)
<1> DEFINE batch == worker[w].batch
           next(r) == <<r.listen, Len(sent[r.listen]) + 1>>
           new == {next(r) : r \in batch}
           f == [r \in batch |-> next(r)]
<1>1. /\ Held = batch /\ IsFiniteSet(batch)
      /\ \A r \in batch : r.listen \in Listens
      /\ \A r, s \in batch : r.listen = s.listen => r = s
  <2>1. Held = batch
    BY OwnerHolds
  <2> QED
    BY <2>1, HeldParts DEF Numbered, Inv, Threads
<1>2. f \in Bijection(batch, new)
  <2>1. f \in [batch -> new] /\ \A t \in new : \E s \in batch : f[s] = t
    OBVIOUS
  <2>2. \A r, s \in batch : f[r] = f[s] => r = s
    BY <1>1
  <2> HIDE DEF f, new, batch
  <2> QED
    BY <2>1, <2>2, Fun_IsBij
<1>3. IsFiniteSet(new) /\ Cardinality(new) = Cardinality(batch)
  <2>1. ExistsBijection(batch, new)
    BY <1>2, Fun_ExistsBij
  <2> HIDE DEF new, batch, f
  <2> QED
    BY <1>1, <2>1, FS_Bijection
<1>4. \A l \in Listens : sent[l] \in Seq(Nat) /\ Len(sent[l]) \in Nat
                         /\ DOMAIN sent[l] = 1..Len(sent[l])
  BY HeldParts
<1>5. \A l \in Listens :
        DOMAIN sent'[l] = IF l \in BatchListens(w) THEN 1..(Len(sent[l]) + 1) ELSE 1..Len(sent[l])
  <2> SUFFICES ASSUME NEW l \in Listens
               PROVE  DOMAIN sent'[l] = IF l \in BatchListens(w) THEN 1..(Len(sent[l]) + 1)
                                        ELSE 1..Len(sent[l])
    OBVIOUS
  <2>1. sent'[l] = IF l \in BatchListens(w) THEN Append(sent[l], w) ELSE sent[l]
    BY DEF Sent
  <2>2. w \in Nat
    BY DEF Inv, Threads
  <2> QED
    BY <1>4, <2>1, <2>2
<1>6. \A l \in BatchListens(w) : l \in Listens /\ <<l, Len(sent[l]) + 1>> \in new
  BY <1>1 DEF BatchListens
<1>7. \A p \in new : \E l \in BatchListens(w) : p = <<l, Len(sent[l]) + 1>>
  BY DEF BatchListens
<1> HIDE DEF f, new, batch
<1>8. Submissions \cap new = {}
  <2> SUFFICES ASSUME NEW p \in Submissions, p \in new PROVE FALSE
    OBVIOUS
  <2>1. PICK l \in BatchListens(w) : p = <<l, Len(sent[l]) + 1>>
    BY <1>7
  <2>2. PICK k \in Listens : p \in {k} \X DOMAIN sent[k]
    BY DEF Submissions
  <2>3. k = l /\ Len(sent[l]) + 1 \in DOMAIN sent[l]
    BY <2>1, <2>2
  <2> QED
    BY <1>4, <2>2, <2>3
<1>9. Submissions' = Submissions \cup new
  <2>1. ASSUME NEW p \in Submissions' PROVE p \in Submissions \cup new
    <3>1. PICK l \in Listens : p \in {l} \X DOMAIN sent'[l]
      BY <2>1 DEF Submissions
    <3>2. PICK n \in DOMAIN sent'[l] : p = <<l, n>>
      BY <3>1
    <3>3. CASE n \in DOMAIN sent[l]
      <4>1. p \in {l} \X DOMAIN sent[l]
        BY <3>2, <3>3
      <4> QED
        BY <4>1 DEF Submissions
    <3>4. CASE n \notin DOMAIN sent[l]
      <4>1. l \in BatchListens(w) /\ n = Len(sent[l]) + 1
        BY <1>4, <1>5, <3>2, <3>4
      <4> QED
        BY <1>6, <3>2, <4>1
    <3> QED
      BY <3>3, <3>4
  <2>2. ASSUME NEW p \in Submissions PROVE p \in Submissions'
    <3>1. PICK l \in Listens : p \in {l} \X DOMAIN sent[l]
      BY <2>2 DEF Submissions
    <3>2. DOMAIN sent[l] \subseteq DOMAIN sent'[l]
      BY <1>4, <1>5
    <3>3. p \in {l} \X DOMAIN sent'[l]
      BY <3>1, <3>2
    <3> QED
      BY <3>3 DEF Submissions
  <2>3. ASSUME NEW p \in new PROVE p \in Submissions'
    <3>1. PICK l \in BatchListens(w) : p = <<l, Len(sent[l]) + 1>>
      BY <1>7, <2>3
    <3>2. l \in Listens /\ Len(sent[l]) + 1 \in DOMAIN sent'[l]
      BY <1>4, <1>5, <1>6, <3>1
    <3>3. p \in {l} \X DOMAIN sent'[l]
      BY <3>1, <3>2
    <3> QED
      BY <3>2, <3>3 DEF Submissions
  <2> QED
    BY <2>1, <2>2, <2>3
<1>10. /\ IsFiniteSet(Submissions \cup new)
       /\ Cardinality(Submissions \cup new) = Cardinality(Submissions) + Cardinality(new)
  <2>1. Cardinality(Submissions) \in Nat /\ Cardinality(new) \in Nat /\ Cardinality({}) = 0
    BY <1>3, FS_CardinalityType, FS_EmptySet
  <2>2. /\ IsFiniteSet(Submissions \cup new)
        /\ Cardinality(Submissions \cup new)
             = Cardinality(Submissions) + Cardinality(new) - Cardinality(Submissions \cap new)
    BY <1>3, FS_Union
  <2>3. Cardinality(Submissions \cap new) = 0
    BY <1>8, <2>1
  <2> QED
    BY <2>1, <2>2, <2>3
<1> QED
  BY <1>3, <1>9, <1>10 DEF batch

LEMMA SubmitCount ==
  ASSUME Inv, Numbered, Counted, NEW w \in DOMAIN worker, Submit(w) PROVE Counted'
<1>1. worker[w].at = "submit" /\ UNCHANGED submitted
  BY DEF Submit, At, store
<1>2. InFlight = {} /\ Held = worker[w].batch
  BY <1>1, OwnerHolds
<1>3. CASE UNCHANGED <<sent, unsure>> /\ InFlight' = {}
  BY <1>1, <1>2, <1>3, SameCount
<1>4. CASE /\ sent' = Sent(w)
           /\ \/ InFlight' = Held /\ UNCHANGED unsure
              \/ InFlight' = {} /\ unsure' = unsure + Cardinality(worker[w].batch)
  <2>1. /\ IsFiniteSet(Submissions')
        /\ Cardinality(Submissions')
             = Cardinality(Submissions) + Cardinality(worker[w].batch)
    BY <1>1, <1>4, NewSubmissions DEF Counted
  <2>2. Cardinality(worker[w].batch) \in Nat
    BY SentType DEF Inv
  <2>3. submitted + unsure = Cardinality(Submissions)
    BY <1>2, CountTypes DEF Counted
  <2>4. submitted' + unsure' + Cardinality(InFlight') = Cardinality(Submissions')
    <3>1. CASE InFlight' = Held /\ UNCHANGED unsure
      BY <1>1, <1>2, <2>1, <2>2, <2>3, <3>1
    <3>2. CASE InFlight' = {} /\ unsure' = unsure + Cardinality(worker[w].batch)
      BY <1>1, <2>1, <2>2, <2>3, <3>2, CountTypes
    <3> QED
      BY <1>4, <3>1, <3>2
  <2> QED
    BY <2>1, <2>4 DEF Counted
<1> QED
  BY <1>3, <1>4, SubmitHands

LEMMA AcknowledgeCount ==
  ASSUME Inv, Counted, NEW w \in DOMAIN worker, Acknowledge(w) PROVE Counted'
<1>1. InFlight = worker[w].batch /\ InFlight' = {} /\ UNCHANGED sent
  BY AcknowledgeHands DEF Acknowledge
<1>2. \/ submitted' = submitted + Cardinality(worker[w].batch) /\ UNCHANGED unsure
      \/ unsure' = unsure + Cardinality(worker[w].batch) /\ UNCHANGED submitted
  BY DEF Acknowledge, Record, store
<1>3. submitted' + unsure' + Cardinality(InFlight')
        = submitted + unsure + Cardinality(InFlight)
  BY <1>1, <1>2, CountTypes
<1> QED
  BY <1>1, <1>3, SameCount

LEMMA WorkCount ==
  ASSUME Inv, Numbered, Counted, NEW w \in DOMAIN worker, Work(w) PROVE Counted'
<1>1. CASE ReadPending(w)
  <2>1. InFlight = {} /\ InFlight' = {}
    BY <1>1, OwnerHolds, ReadHands DEF ReadPending, At
  <2> QED
    BY <1>1, <2>1, SameCount DEF ReadPending, Elsewhere, store, history
<1>2. CASE Submit(w) \/ Acknowledge(w)
  BY <1>2, SubmitCount, AcknowledgeCount
<1>3. CASE \/ OpenDatabase(w) \/ StartRound(w) \/ Validate(w) \/ TakeDeferred(w)
           \/ Announce(w) \/ Lock(w) \/ ReportConnected(w) \/ Receive(w) \/ WaitForRetry(w)
  <2>1. UNCHANGED <<submitted, sent, unsure>>
    BY <1>3 DEF OpenDatabase, StartRound, Validate, TakeDeferred, Announce, Lock,
         ReportConnected, Receive, WaitForRetry, Elsewhere, store, history
  <2> QED
    BY <1>3, <2>1, QuietHands, SameCount
<1> QED
  BY <1>1, <1>2, <1>3 DEF Work

LEMMA ExitCount == ASSUME Inv, Counted, Exit PROVE Counted'
<1>1. InFlight' = {} /\ UNCHANGED <<submitted, sent>>
  BY Released DEF Exit, store
<1>2. unsure' = unsure + Cardinality(InFlight)
  <2>1. lock # 0 => lock \in DOMAIN worker
    BY DEF Inv, Threads, DrainLock
  <2>2. CASE lock # 0 /\ worker[lock].at = "acknowledge"
    BY <2>1, <2>2 DEF Exit, At, InFlight, Holds
  <2>3. CASE ~(lock # 0 /\ worker[lock].at = "acknowledge")
    <3>1. InFlight = {} /\ UNCHANGED unsure
      BY <2>3 DEF Exit, At, InFlight, Holds
    <3> QED
      BY <3>1, CountTypes
  <2> QED
    BY <2>2, <2>3
<1>3. submitted' + unsure' + Cardinality(InFlight')
        = submitted + unsure + Cardinality(InFlight)
  BY <1>1, <1>2, CountTypes
<1> QED
  BY <1>1, <1>3, SameCount

LEMMA UserCount == ASSUME Inv, Counted, User PROVE Counted'
<1>1. CASE Exit
  BY <1>1, ExitCount
<1>2. CASE ~Exit
  <2>1. UNCHANGED <<submitted, sent, unsure, lock>>
    BY <1>2 DEF User, Enable, SwitchOff, Disconnect, Listen, PlayingNow, Launch,
                store, history
  <2>2. UNCHANGED worker \/ Agrees(worker') \/ Configure
    <3>1. CASE Listen \/ PlayingNow
      <4>1. \E command \in {"flush", "playing"} : worker' = Mailed(command)
        BY <3>1 DEF Listen, PlayingNow
      <4>2. {"flush", "playing"} \subseteq Commands
        BY DEF Commands
      <4> QED
        BY <4>1, <4>2, MailedAgrees DEF Inv
    <3>2. CASE SwitchOff \/ Disconnect
      BY <3>2, StoppedAgrees DEF SwitchOff, Disconnect, Disable, Inv
    <3>3. CASE Enable \/ Launch
      BY <3>3 DEF Enable, Launch
    <3> QED
      BY <1>2, <3>1, <3>2, <3>3 DEF User
  <2>3. InFlight' = InFlight
    BY <2>1, <2>2, SameHands, AgreedHands, ConfiguredHands
  <2> QED
    BY <2>1, <2>3, SameCount
<1> QED
  BY <1>1, <1>2

LEMMA CountInit == ASSUME Init PROVE Counted
<1>1. InFlight = {}
  BY NobodyHolds DEF Init
<1>2. Submissions = {}
  <2>1. \A l \in Listens : DOMAIN sent[l] = {}
    BY DEF Init
  <2> QED
    BY <2>1 DEF Submissions
<1>3. submitted = 0 /\ unsure = 0 /\ Cardinality({}) = 0 /\ IsFiniteSet({})
  BY FS_EmptySet DEF Init
<1> QED
  BY <1>1, <1>2, <1>3 DEF Counted

LEMMA CountNext == Inv /\ Numbered /\ Counted /\ [Next]_vars => Counted'
<1> SUFFICES ASSUME Inv, Numbered, Counted, [Next]_vars PROVE Counted'
  OBVIOUS
<1>1. CASE UNCHANGED vars
  BY <1>1, SameHands, SameCount DEF vars, store, history
<1>2. CASE User
  BY <1>2, UserCount
<1>3. CASE \E w \in DOMAIN worker : Work(w)
  BY <1>3, WorkCount
<1> QED
  BY <1>1, <1>2, <1>3 DEF Next

\* The counter in the settings is the number of submissions whose success was
\* recorded: the rows go and the counter grows in one transaction, so that an end of
\* the program or of a thread in between miscounts nothing, and a request in flight
\* counts for itself whatever became of its rows meanwhile (queue.rs
\* acknowledge_for).
THEOREM NothingMiscounted == Spec => []CounterExact
<1>1. Init => Counted
  BY CountInit
<1>2. Inv /\ Counted => CounterExact
  BY UnrecordedInFlight DEF Counted, CounterExact
<1> QED
  BY <1>1, <1>2, CountNext, OnceAlways, PTL DEF Spec

-----------------------------------------------------------------------------
(* Order, when the user does not clear the queue.                          *)

\* Ids follow the order of listening, and a request takes the oldest rows.
Ordered ==
  /\ \A r, s \in rows : r.listen < s.listen => r.id < s.id
  /\ \A b \in Held, r \in rows : r.id < b.id => r \in Held
  /\ SubmittedInOrder

\* Nothing was submitted, and what is held was held or is the oldest of the queue.
LEMMA SameOrder ==
  ASSUME Ordered, rows' \subseteq rows, Held' = Held \/ Held' = {},
         UNCHANGED <<heard, sent, cleared>>
  PROVE  Ordered'
<1>1. SubmittedInOrder'
  BY DEF Ordered, SubmittedInOrder
<1> QED
  BY <1>1 DEF Ordered

\* pending_for takes a row only with all older ones.
LEMMA PendingOldest ==
  ASSUME Inv, NEW b \in Pending, NEW r \in rows, r.id < b.id
  PROVE  r \in Pending
<1> DEFINE older(s) == {q \in rows : q.id < s.id}
<1>1. IsFiniteSet(rows) /\ b \in rows /\ \A q \in rows : q.id \in Nat
  BY HeldParts DEF Pending, Inv, Records
<1>2. older(r) \subseteq older(b)
  BY <1>1
<1>3. IsFiniteSet(older(b))
  BY <1>1, FS_Subset
<1>4. /\ Cardinality(older(r)) <= Cardinality(older(b))
      /\ Cardinality(older(r)) \in Nat /\ Cardinality(older(b)) \in Nat
  <2>1. IsFiniteSet(older(r))
    BY <1>2, <1>3, FS_Subset
  <2> HIDE DEF older
  <2> QED
    BY <1>2, <1>3, <2>1, FS_Subset, FS_CardinalityType
<1>5. Cardinality(older(b)) < BatchLimit
  BY DEF Pending
<1>6. Cardinality(older(r)) < BatchLimit
  <2> HIDE DEF older
  <2> QED
    BY <1>4, <1>5, LimitPositive
<1> QED
  BY <1>6 DEF Pending

LEMMA ReadPendingOrder ==
  ASSUME Inv, Ordered, NEW w \in DOMAIN worker, ReadPending(w) PROVE Ordered'
<1>1. UNCHANGED <<rows, heard, sent, cleared>>
  BY DEF ReadPending, Elsewhere, store, history
<1>2. CASE Held' = {}
  BY <1>1, <1>2, SameOrder
<1>3. CASE Held' = Pending /\ Pending \subseteq rows
  <2>1. \A b \in Held', r \in rows' : r.id < b.id => r \in Held'
    BY <1>1, <1>3, PendingOldest
  <2>2. SubmittedInOrder'
    BY <1>1 DEF Ordered, SubmittedInOrder
  <2> QED
    BY <1>1, <2>1, <2>2 DEF Ordered
<1> QED
  BY <1>2, <1>3, ReadHands

\* A request of the oldest rows leaves no earlier listen behind.
LEMMA SentInOrder ==
  ASSUME Inv, Kept, Numbered, Ordered, NEW w \in DOMAIN worker, worker[w].at = "submit",
         UNCHANGED <<heard, cleared>>, sent' = Sent(w)
  PROVE  SubmittedInOrder'
<1>1. Held = worker[w].batch /\ Held \subseteq rows
  BY OwnerHolds DEF Kept, Holding
<1>2. 1..heard \subseteq Listens
  BY BoundsNatural DEF Inv, Rest, Listens
<1>3. ASSUME NEW l \in Listens, sent[l] # <<>> \/ l \in BatchListens(w)
      PROVE  sent'[l] # <<>>
  BY <1>3, SentGrows DEF Inv
<1> SUFFICES ASSUME NEW k \in 1..heard, NEW l \in 1..heard, k < l, sent'[l] # <<>>,
                    k \notin cleared
             PROVE  sent'[k] # <<>>
  BY DEF SubmittedInOrder
<1>4. k \in Listens /\ l \in Listens
  BY <1>2
<1>5. CASE sent[l] # <<>>
  <2>1. sent[k] # <<>>
    BY <1>5 DEF Ordered, SubmittedInOrder
  <2> QED
    BY <1>3, <1>4, <2>1
<1>6. CASE sent[l] = <<>>
  <2>1. l \in BatchListens(w)
    BY <1>4, <1>6, SentCounts
  <2>2. PICK b \in Held : b.listen = l
    BY <1>1, <2>1 DEF BatchListens
  <2>3. CASE sent[k] # <<>>
    BY <1>3, <1>4, <2>3
  <2>4. CASE \E r \in rows : r.listen = k
    <3>1. PICK r \in rows : r.listen = k
      BY <2>4
    <3>2. r.id < b.id
      BY <1>1, <2>2, <3>1 DEF Ordered
    <3>3. r \in Held
      BY <2>2, <3>1, <3>2 DEF Ordered
    <3>4. k \in BatchListens(w)
      BY <1>1, <3>1, <3>3 DEF BatchListens
    <3> QED
      BY <1>3, <1>4, <3>4
  <2> QED
    BY <2>3, <2>4 DEF Kept, ListensStay
<1> QED
  BY <1>5, <1>6

LEMMA SubmitOrder ==
  ASSUME Inv, Kept, Numbered, Ordered, NEW w \in DOMAIN worker, Submit(w) PROVE Ordered'
<1>1. UNCHANGED <<rows, heard, cleared>> /\ worker[w].at = "submit"
  BY DEF Submit, store, At
<1>2. Held' = Held \/ Held' = {}
  BY SubmitHands
<1>3. CASE UNCHANGED sent
  BY <1>1, <1>2, <1>3, SameOrder
<1>4. CASE sent' = Sent(w)
  <2>1. SubmittedInOrder'
    BY <1>1, <1>4, SentInOrder
  <2> QED
    BY <1>1, <1>2, <2>1 DEF Ordered
<1> QED
  BY <1>3, <1>4, SubmitHands

LEMMA WorkOrder ==
  ASSUME Inv, Kept, Numbered, Ordered, NEW w \in DOMAIN worker, Work(w) PROVE Ordered'
<1>1. CASE ReadPending(w)
  BY <1>1, ReadPendingOrder
<1>2. CASE Submit(w)
  BY <1>2, SubmitOrder
<1>3. CASE Acknowledge(w)
  <2>1. rows' \subseteq rows /\ UNCHANGED <<heard, sent, cleared>>
    BY <1>3 DEF Acknowledge, Record, store
  <2> QED
    BY <1>3, <2>1, AcknowledgeHands, SameOrder
<1>4. CASE \/ OpenDatabase(w) \/ StartRound(w) \/ Validate(w) \/ TakeDeferred(w)
           \/ Announce(w) \/ Lock(w) \/ ReportConnected(w) \/ Receive(w) \/ WaitForRetry(w)
  <2>1. UNCHANGED <<rows, heard, sent, cleared>>
    BY <1>4 DEF OpenDatabase, StartRound, Validate, TakeDeferred, Announce, Lock,
         ReportConnected, Receive, WaitForRetry, Elsewhere, store, history
  <2> QED
    BY <1>4, <2>1, QuietHands, SameOrder
<1> QED
  BY <1>1, <1>2, <1>3, <1>4 DEF Work

\* The listen that ends has the highest number and gets the highest id.
LEMMA ListenOrder ==
  ASSUME Inv, Kept, Numbered, Once, Ordered, Listen PROVE Ordered'
<1>1. Held' = Held
  <2>1. UNCHANGED lock /\ worker' = Mailed("flush") /\ "flush" \in Commands
    BY DEF Listen, Commands
  <2> QED
    BY <2>1, MailedAgrees, AgreedHands DEF Inv
<1>2. UNCHANGED <<sent, cleared>> /\ heard' = heard + 1 /\ heard \in Nat
  BY HeldParts DEF Listen
<1>3. PICK row : /\ rows' = rows \cup {row} /\ row.listen = heard + 1 /\ row.id \in Nat
                 /\ \A r \in rows : r.id < row.id
  BY NewRow
<1>4. \A r \in rows : r.listen \in 1..heard /\ r.id \in Nat
  BY HeldParts DEF Numbered
<1>5. \A b \in Held : b \in rows
  <2>1. CASE lock # 0 /\ worker[lock].at \in Holding
    <3>1. lock \in DOMAIN worker
      BY <2>1 DEF Inv, Threads, DrainLock
    <3> QED
      BY <2>1, <3>1 DEF Held, Holds, Kept
  <2> QED
    BY <2>1 DEF Held, Holds
<1>6. \A r, s \in rows' : r.listen < s.listen => r.id < s.id
  <2> SUFFICES ASSUME NEW r \in rows', NEW s \in rows', r.listen < s.listen
               PROVE  r.id < s.id
    OBVIOUS
  <2>1. CASE r = row
    BY <1>2, <1>3, <1>4, <2>1
  <2>2. CASE r \in rows /\ s \in rows
    BY <2>2 DEF Ordered
  <2> QED
    BY <1>3, <2>1, <2>2
<1>7. \A b \in Held', r \in rows' : r.id < b.id => r \in Held'
  <2> SUFFICES ASSUME NEW b \in Held, NEW r \in rows', r.id < b.id PROVE r \in Held
    BY <1>1
  <2>1. r # row
    BY <1>3, <1>4, <1>5
  <2> QED
    BY <1>3, <2>1 DEF Ordered
<1>8. SubmittedInOrder'
  <2> SUFFICES ASSUME NEW k \in 1..(heard + 1), NEW l \in 1..(heard + 1), k < l,
                      sent[l] # <<>>
               PROVE  sent[k] # <<>> \/ k \in cleared
    BY <1>2 DEF SubmittedInOrder
  <2>1. heard + 1 \in Listens /\ heard + 1 > heard
    BY <1>2, BoundsNatural DEF Listen, Listens
  <2>2. l # heard + 1
    BY <2>1 DEF Once
  <2>3. k \in 1..heard /\ l \in 1..heard
    BY <1>2, <2>2
  <2> QED
    BY <2>3 DEF Ordered, SubmittedInOrder
<1> QED
  BY <1>6, <1>7, <1>8 DEF Ordered

LEMMA UserOrder ==
  ASSUME Inv, Kept, Numbered, Once, Ordered, ~Disconnects, User PROVE Ordered'
<1>1. CASE Listen
  BY <1>1, ListenOrder
<1>2. CASE Exit
  <2>1. Held' = {}
    BY <1>2, Released DEF Exit
  <2> QED
    BY <1>2, <2>1, SameOrder DEF Exit, store
<1>3. CASE Enable
  BY <1>3, ConfiguredHands, SameOrder DEF Enable, store, history
<1>4. CASE SwitchOff
  <2>1. UNCHANGED lock /\ Agrees(worker')
    BY <1>4, StoppedAgrees DEF SwitchOff, Disable, Inv
  <2> QED
    BY <1>4, <2>1, AgreedHands, SameOrder DEF SwitchOff, store, history
<1>5. CASE PlayingNow
  <2>1. UNCHANGED lock /\ worker' = Mailed("playing") /\ "playing" \in Commands
    BY <1>5 DEF PlayingNow, Commands
  <2>2. Agrees(worker')
    BY <2>1, MailedAgrees DEF Inv
  <2> QED
    BY <1>5, <2>1, <2>2, AgreedHands, SameOrder DEF PlayingNow, store, history
<1>6. CASE Launch
  <2>1. UNCHANGED <<rows, heard, sent, cleared, lock>>
    BY <1>6 DEF Launch, store, history
  <2>2. Held' = Held
    <3>1. CASE UNCHANGED worker
      BY <2>1, <3>1, SameHands
    <3>2. CASE Configure
      BY <2>1, <3>2, ConfiguredHands
    <3> QED
      BY <1>6, <3>1, <3>2 DEF Launch
  <2> QED
    BY <2>1, <2>2, SameOrder
<1>7. ~Disconnect
  BY DEF Disconnect
<1> QED
  BY <1>1, <1>2, <1>3, <1>4, <1>5, <1>6, <1>7 DEF User

LEMMA OrderInit ==
  ASSUME Init PROVE Ordered
<1>1. Held = {} /\ rows = {} /\ heard = 0
  BY NobodyHolds DEF Init
<1> QED
  BY <1>1 DEF Ordered, SubmittedInOrder

LEMMA OrderNext ==
  ASSUME ~Disconnects
  PROVE  Inv /\ Kept /\ Numbered /\ Once /\ Ordered /\ [Next]_vars => Ordered'
<1> SUFFICES ASSUME Inv, Kept, Numbered, Once, Ordered, [Next]_vars PROVE Ordered'
  OBVIOUS
<1>1. CASE UNCHANGED vars
  BY <1>1, SameHands, SameOrder DEF vars, store, history
<1>2. CASE User
  BY <1>2, UserOrder
<1>3. CASE \E w \in DOMAIN worker : Work(w)
  BY <1>3, WorkOrder
<1> QED
  BY <1>1, <1>2, <1>3 DEF Next

\* As long as nobody disconnects, no listen is submitted before one that was heard
\* earlier, whichever threads drain and whatever fails: a request takes the oldest
\* rows, and nothing else leaves the queue (queue.rs pending_for).
THEOREM FirstHeardFirstSent ==
  ASSUME ~Disconnects PROVE Spec => []SubmittedInOrder
<1>1. Init => Ordered
  BY OrderInit
<1>2. Inv /\ Kept /\ Numbered /\ Once /\ Ordered /\ [Next]_vars => Ordered'
  BY OrderNext
<1>3. Inv /\ Kept /\ [Next]_vars => Kept'
  BY KeptNext
<1>4. Ordered => SubmittedInOrder
  BY DEF Ordered
<1> QED
  BY <1>1, <1>2, <1>3, <1>4, KeptInit, OnceAlways, PTL DEF Spec

=============================================================================
