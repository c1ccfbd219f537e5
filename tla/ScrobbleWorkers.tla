-------------------------- MODULE ScrobbleWorkers --------------------------
(***************************************************************************)
(* Submitting listens to one provider: the durable queue of                *)
(* crates/reprise-core/src/scrobbling/queue.rs, the runtime and its worker *)
(* threads in crates/reprise-gnome/src/ui/scrobbling/scrobble_runtime.rs   *)
(* and the account settings that start and stop them.                      *)
(*                                                                         *)
(* Listens are numbered as they are heard; workers as they are spawned,    *)
(* each with the credential it was spawned with.  `sent`, `cleared` and    *)
(* `unsure` are history.  The status shown to the user is left out.        *)
(***************************************************************************)
EXTENDS Naturals, Sequences, FiniteSets

CONSTANTS
  BatchLimit,    \* listens in one request
  Disconnects,   \* whether the user may disconnect the account
  MaxListens, MaxPlays, MaxWorkers, MaxFaults, MaxCrashes

ASSUME LimitPositive == BatchLimit \in Nat \ {0}
ASSUME BoundsNatural ==
  /\ Disconnects \in BOOLEAN
  /\ MaxListens \in Nat /\ MaxPlays \in Nat /\ MaxWorkers \in Nat
  /\ MaxFaults \in Nat /\ MaxCrashes \in Nat

VARIABLES
  rows,       \* the queue's table: [id, listen]
  submitted,  \* the counter in the settings
  enabled,    \* the setting that survives a restart
  running,    \* whether the program runs
  current,    \* the worker the runtime holds, 0 for none
  worker,     \* the threads spawned so far
  lock,       \* who drains, 0 for nobody
  heard, plays, faults, crashes,   \* how much has happened, for the bounds
  sent,       \* for each listen the workers that submitted it
  cleared,    \* listens the user cleared
  unsure      \* submissions whose success was never recorded

store == <<rows, submitted>>
runtime == <<enabled, running, current>>
history == <<sent, cleared, unsure>>
vars == <<store, runtime, worker, lock, heard, plays, faults, crashes, history>>

Listens == 1..MaxListens
Row == [id : Listens, listen : Listens]

Draining == {"read", "submit", "acknowledge"}
Stops == {"open", "top", "validate", "deferred", "announce", "lock",
          "connected", "idle", "wait", "over"} \cup Draining
Commands == {"playing", "flush", "stop"}
Worker == [at : Stops, cancelled : BOOLEAN, known : BOOLEAN, deferred : BOOLEAN,
           mail : Seq(Commands), batch : SUBSET Row]

NewWorker == [at |-> "open", cancelled |-> FALSE, known |-> FALSE,
              deferred |-> FALSE, mail |-> <<>>, batch |-> {}]
Over == [NewWorker EXCEPT !.at = "over"]

At(w, stop) == w \in DOMAIN worker /\ worker[w].at = stop
Fault == faults < MaxFaults /\ faults' = faults + 1

-----------------------------------------------------------------------------
(* The worker thread: run_worker.                                          *)

\* The thread of w goes on at a stop, or ends where its cancel flag is looked at.
Go(w, stop) == worker' = [worker EXCEPT ![w].at = stop]
End(w) == worker' = [worker EXCEPT ![w] = Over]
GoUnlessCancelled(w, stop) ==
  IF worker[w].cancelled THEN End(w) ELSE Go(w, stop)

Elsewhere == <<store, runtime, heard, plays, crashes, history>>

OpenDatabase(w) ==
  /\ At(w, "open")
  /\ \/ Go(w, "top") /\ UNCHANGED faults
     \/ End(w) /\ Fault
  /\ UNCHANGED <<lock, Elsewhere>>

StartRound(w) ==
  /\ At(w, "top")
  /\ GoUnlessCancelled(w, IF worker[w].known THEN "deferred" ELSE "validate")
  /\ UNCHANGED <<lock, faults, Elsewhere>>

\* An error the provider may get over: wait and start again by validating.
Offline(w) ==
  worker' = [worker EXCEPT ![w].at = "wait", ![w].known = FALSE, ![w].batch = {}]

Validate(w) ==
  /\ At(w, "validate")
  /\ \/ /\ IF worker[w].cancelled THEN End(w)
           ELSE worker' = [worker EXCEPT ![w].at = "deferred", ![w].known = TRUE]
        /\ UNCHANGED faults
     \/ (Offline(w) \/ End(w)) /\ Fault
  /\ UNCHANGED <<lock, Elsewhere>>

\* The announcement kept from a wait goes first.
TakeDeferred(w) ==
  /\ At(w, "deferred")
  /\ IF worker[w].deferred /\ ~worker[w].cancelled
     THEN worker' = [worker EXCEPT ![w].at = "announce", ![w].deferred = FALSE]
     ELSE GoUnlessCancelled(w, "lock")
  /\ UNCHANGED <<lock, faults, Elsewhere>>

Announce(w) ==
  /\ At(w, "announce")
  /\ \/ Go(w, "top") /\ UNCHANGED faults
     \/ (Offline(w) \/ End(w)) /\ Fault
  /\ UNCHANGED <<lock, Elsewhere>>

\* Mutant: the drain is not guarded.
LockUnguarded(w) ==
  /\ At(w, "lock")
  /\ lock' = w
  /\ Go(w, "read")
  /\ UNCHANGED <<faults, Elsewhere>>

Lock(w) ==
  /\ At(w, "lock") /\ lock = 0
  /\ lock' = w
  /\ Go(w, "read")
  /\ UNCHANGED <<faults, Elsewhere>>

\* Mutant: newest first.
PendingNewest ==
  {r \in rows : Cardinality({q \in rows : q.id > r.id}) < BatchLimit}

\* pending_for: the oldest rows, as many as fit a request.
Pending == {r \in rows : Cardinality({q \in rows : q.id < r.id}) < BatchLimit}

ReadPending(w) ==
  /\ At(w, "read")
  /\ \/ /\ IF Pending = {}
           THEN Go(w, "connected") /\ lock' = 0
           ELSE /\ worker' = [worker EXCEPT ![w].at = "submit", ![w].batch = Pending]
                /\ UNCHANGED lock
        /\ UNCHANGED faults
     \/ End(w) /\ lock' = 0 /\ Fault
  /\ UNCHANGED Elsewhere

BatchListens(w) == {r.listen : r \in worker[w].batch}
Sent(w) == [l \in Listens |-> IF l \in BatchListens(w) THEN Append(sent[l], w) ELSE sent[l]]

\* The request succeeds, fails, is refused, or succeeds and its answer is lost.
Submit(w) ==
  /\ At(w, "submit")
  /\ \/ /\ sent' = Sent(w) /\ Go(w, "acknowledge")
        /\ UNCHANGED <<lock, faults, unsure>>
     \/ /\ Offline(w) /\ lock' = 0 /\ Fault
        /\ \/ UNCHANGED <<sent, unsure>>
           \/ sent' = Sent(w) /\ unsure' = unsure + Cardinality(worker[w].batch)
     \/ End(w) /\ lock' = 0 /\ Fault /\ UNCHANGED <<sent, unsure>>
  /\ UNCHANGED <<store, runtime, heard, plays, crashes, cleared>>

BatchIds(w) == {r.id : r \in worker[w].batch}

\* Mutant: all that waits is taken as submitted.
RecordAll(w) ==
  /\ rows' = {}
  /\ submitted' = submitted + Cardinality(worker[w].batch)

\* Mutant: the rows that are deleted are counted.
RecordDeleted(w) ==
  /\ rows' = {r \in rows : r.id \notin BatchIds(w)}
  /\ submitted' = submitted + Cardinality({r \in rows : r.id \in BatchIds(w)})

\* Mutant: a request counts once.
RecordRequest(w) ==
  /\ rows' = {r \in rows : r.id \notin BatchIds(w)}
  /\ submitted' = submitted + 1

\* acknowledge_for: one transaction.
Record(w) ==
  /\ rows' = {r \in rows : r.id \notin BatchIds(w)}
  /\ submitted' = submitted + Cardinality(worker[w].batch)

\* Then the drain goes on, whether or not the worker was cancelled meanwhile.
Acknowledge(w) ==
  /\ At(w, "acknowledge")
  /\ \/ /\ Record(w)
        /\ worker' = [worker EXCEPT ![w].at = "read", ![w].batch = {}]
        /\ UNCHANGED <<lock, faults, unsure>>
     \/ /\ End(w) /\ lock' = 0 /\ Fault
        /\ unsure' = unsure + Cardinality(worker[w].batch)
        /\ UNCHANGED store
  /\ UNCHANGED <<runtime, heard, plays, crashes, sent, cleared>>

\* The queue was empty; the thread reports that before it waits for a command.
ReportConnected(w) ==
  /\ At(w, "connected")
  /\ Go(w, "idle")
  /\ UNCHANGED <<lock, faults, Elsewhere>>

Receive(w) ==
  /\ At(w, "idle") /\ worker[w].mail # <<>>
  /\ LET stop == CASE Head(worker[w].mail) = "flush" -> "top"
                   [] Head(worker[w].mail) = "playing" /\ ~worker[w].cancelled -> "announce"
                   [] OTHER -> "over"
     IN  IF stop = "over" THEN End(w)
         ELSE worker' = [worker EXCEPT ![w].at = stop, ![w].mail = Tail(@)]
  /\ UNCHANGED <<lock, faults, Elsewhere>>

\* wait_for_retry: the time passes or a command comes.
WaitForRetry(w) ==
  /\ At(w, "wait")
  /\ IF worker[w].mail = <<>> THEN Go(w, "top")
     ELSE IF Head(worker[w].mail) = "stop" THEN End(w)
     ELSE worker' = [worker EXCEPT ![w].at = "top", ![w].mail = Tail(@),
                       ![w].deferred = @ \/ Head(worker[w].mail) = "playing"]
  /\ UNCHANGED <<lock, faults, Elsewhere>>

Work(w) ==
  \/ OpenDatabase(w) \/ StartRound(w) \/ Validate(w) \/ TakeDeferred(w)
  \/ Announce(w) \/ Lock(w) \/ ReadPending(w) \/ Submit(w) \/ Acknowledge(w)
  \/ ReportConnected(w) \/ Receive(w) \/ WaitForRetry(w)

-----------------------------------------------------------------------------
(* The main thread: runtime, settings and playback.                        *)

\* Mutant: a busy worker is not woken.
MailedIfIdle(command) ==
  IF current = 0 \/ worker[current].at \notin {"idle", "wait"} THEN worker
  ELSE [worker EXCEPT ![current].mail = Append(@, command)]

\* A command reaches the worker's channel; one that ended has none.
Mailed(command) ==
  IF current = 0 \/ worker[current].at = "over" THEN worker
  ELSE [worker EXCEPT ![current].mail = Append(@, command)]

\* Mutant: only the flag is set.
StoppedByFlag ==
  IF current = 0 \/ worker[current].at = "over" THEN worker
  ELSE [worker EXCEPT ![current].cancelled = TRUE]

\* stop_worker.
Stopped ==
  IF current = 0 \/ worker[current].at = "over" THEN worker
  ELSE [worker EXCEPT ![current].cancelled = TRUE,
                      ![current].mail = Append(@, "stop")]

Configure ==
  /\ Len(worker) < MaxWorkers
  /\ worker' = Append(Stopped, NewWorker)
  /\ current' = Len(worker) + 1

Disable ==
  /\ worker' = Stopped
  /\ current' = 0

\* The switch goes on with the stored credential, or another account signs in.
Enable ==
  /\ running
  /\ enabled' = TRUE
  /\ Configure
  /\ UNCHANGED <<store, running, lock, heard, plays, faults, crashes, history>>

SwitchOff ==
  /\ running
  /\ enabled' = FALSE
  /\ Disable
  /\ UNCHANGED <<store, running, lock, heard, plays, faults, crashes, history>>

\* The credential is deleted, then the queue, unless the database fails.
Disconnect ==
  /\ Disconnects /\ running
  /\ \/ /\ rows' = {} /\ cleared' = cleared \cup {r.listen : r \in rows}
        /\ UNCHANGED faults
     \/ Fault /\ UNCHANGED <<rows, cleared>>
  /\ enabled' = FALSE
  /\ Disable
  /\ UNCHANGED <<submitted, running, lock, heard, plays, crashes, sent, unsure>>

\* SQLite gives the id after the highest in the table.
NextId(id) ==
  /\ \A r \in rows : r.id < id
  /\ id = 1 \/ \E r \in rows : r.id = id - 1

\* A track was heard for long enough: enqueue_scrobble.
Listen ==
  /\ running /\ current # 0 /\ heard < MaxListens
  /\ heard' = heard + 1
  /\ \E id \in Listens : NextId(id) /\ rows' = rows \cup {[id |-> id, listen |-> heard']}
  /\ worker' = Mailed("flush")
  /\ UNCHANGED <<submitted, runtime, lock, plays, faults, crashes, sent, cleared, unsure>>

\* A track starts.
PlayingNow ==
  /\ running /\ current # 0 /\ plays < MaxPlays
  /\ plays' = plays + 1
  /\ worker' = Mailed("playing")
  /\ UNCHANGED <<store, runtime, lock, heard, faults, crashes, history>>

\* The program quits or crashes; its threads go with it.
Exit ==
  /\ running /\ crashes < MaxCrashes
  /\ crashes' = crashes + 1
  /\ running' = FALSE /\ current' = 0 /\ lock' = 0
  /\ worker' = [w \in DOMAIN worker |-> Over]
  /\ unsure' = IF lock # 0 /\ At(lock, "acknowledge")
               THEN unsure + Cardinality(worker[lock].batch) ELSE unsure
  /\ UNCHANGED <<store, enabled, heard, plays, faults, sent, cleared>>

\* bootstrap.
Launch ==
  /\ ~running
  /\ running' = TRUE
  /\ IF enabled THEN Configure ELSE UNCHANGED <<worker, current>>
  /\ UNCHANGED <<store, enabled, lock, heard, plays, faults, crashes, history>>

-----------------------------------------------------------------------------
Init ==
  /\ rows = {} /\ submitted = 0
  /\ enabled = FALSE /\ running = TRUE /\ current = 0
  /\ worker = <<>> /\ lock = 0
  /\ heard = 0 /\ plays = 0 /\ faults = 0 /\ crashes = 0
  /\ sent = [l \in Listens |-> <<>>]
  /\ cleared = {} /\ unsure = 0

User == Enable \/ SwitchOff \/ Disconnect \/ Listen \/ PlayingNow \/ Exit \/ Launch

Next == User \/ \E w \in DOMAIN worker : Work(w)

\* Threads are scheduled, requests end, waits run out; users owe nothing.
Spec == Init /\ [][Next]_vars /\ \A w \in 1..MaxWorkers : WF_vars(Work(w))

-----------------------------------------------------------------------------
(* Properties.                                                             *)

\* The drain lock is held exactly by the thread that drains: never two, and never
\* by one that ended or waits.
DrainLock ==
  /\ lock # 0 => lock \in DOMAIN worker
  /\ \A w \in DOMAIN worker : worker[w].at \in Draining <=> lock = w

ScrobbleTypeOK ==
  /\ rows \subseteq Row /\ submitted \in Nat
  /\ enabled \in BOOLEAN /\ running \in BOOLEAN
  /\ worker \in Seq(Worker) /\ current \in 0..Len(worker)
  /\ lock \in Nat /\ DrainLock
  /\ heard \in 0..MaxListens /\ plays \in Nat /\ faults \in Nat /\ crashes \in Nat
  /\ sent \in [Listens -> Seq(Nat)]
  /\ cleared \subseteq Listens /\ unsure \in Nat

\* "durable ... FIFO for completed listens": a listen leaves the queue only when it
\* was submitted or the user cleared it, through errors, crashes and changes of
\* account.
ListensStay ==
  \A l \in 1..heard :
    (\E r \in rows : r.listen = l) \/ sent[l] # <<>> \/ l \in cleared

\* A listen is submitted again only when the success of a submission could not be
\* recorded: threads of two accounts never submit the same rows.
SubmittedOnce == \A l \in Listens : Len(sent[l]) <= 1 + unsure

\* "FIFO": no listen is submitted before one that was heard earlier.
SubmittedInOrder ==
  \A k, l \in 1..heard :
    k < l /\ sent[l] # <<>> => sent[k] # <<>> \/ k \in cleared

\* Every time a listen was submitted, and the rows whose success is about to be
\* recorded.
Submissions == UNION {{l} \X DOMAIN sent[l] : l \in Listens}
Unrecorded ==
  UNION {worker[w].batch : w \in {v \in DOMAIN worker : worker[v].at = "acknowledge"}}

\* "a crash between DELETE and increment cannot produce a miscount": the counter is
\* the number of submissions whose success was recorded.
CounterExact ==
  submitted + unsure + Cardinality(Unrecorded) = Cardinality(Submissions)

\* No stranded work: what waits is submitted as long as the runtime keeps its worker
\* and the worker does not give up.
Served(l) ==
  /\ \E r \in rows : r.listen = l
  /\ current # 0 /\ worker[current].at # "over"
ListensGetThrough == \A l \in Listens : Served(l) ~> ~Served(l)

\* A worker that was told to stop ends, whatever it was doing.
StoppedWorkersEnd ==
  \A w \in 1..MaxWorkers :
    (w \in DOMAIN worker /\ worker[w].cancelled)
      ~> (w \in DOMAIN worker /\ worker[w].at = "over")
=============================================================================
