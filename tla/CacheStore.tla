----------------------------- MODULE CacheStore -----------------------------
(***************************************************************************)
(* The resolver cache of one process and its file dnscache.json            *)
(* (data/data.go, data/cache_compact.go, the cache writers of              *)
(* resolver/resolver.go, the cache and record commands of                  *)
(* commandhandler/commandhandler.go, clearCacheHandler of api/server.go).  *)
(*                                                                         *)
(* Memory is changed under DNSResolverData.mu, but most operations are     *)
(* GetCacheRecords, change the copy, UpdateCacheRecords: two critical      *)
(* sections.  Changes that are to be kept send a signal on persistCh       *)
(* (capacity 1; a signal is dropped when one is waiting), and the          *)
(* cachePersistWorker writes a snapshot for every signal it receives.      *)
(* Close closes the channel and waits for the worker.  Initialize makes a  *)
(* new channel and a new worker each time it runs.                         *)
(*                                                                         *)
(* A cache row is its key.  Which rows have expired is the environment's   *)
(* choice.  Writing a file is two steps, os.Create (which truncates) and   *)
(* the single write of the encoder.                                        *)
(***************************************************************************)
EXTENDS Naturals, FiniteSets

CONSTANTS
    Key,        \* cache rows
    Goroutine,  \* query handlers, API handlers, TUI sessions, the compaction loop
    Ops,        \* the operations these goroutines perform
    FirstRows,  \* the rows in the file at start
    Stopping,   \* whether the process may be told to stop
    MaxOps,     \* bound: operations started in a behaviour
    MaxInit     \* bound: runs of Initialize, the one at start included

AllOps == {"answer", "apiClear", "compact",                  \* persisted
           "remove", "clear", "load", "save", "recordAdd"}   \* TUI commands

ASSUME CacheAssumption ==
    /\ Ops \subseteq AllOps
    /\ FirstRows \subseteq Key
    /\ Stopping \in BOOLEAN
    /\ MaxOps \in Nat
    /\ MaxInit \in Nat \ {0}

VARIABLES
    mem,      \* DNSResolverData.CacheRecords
    file,     \* dnscache.json
    gen,      \* which channel persistCh holds: the run of Initialize that made it
    sig,      \* sig[w]: channel w has a signal in its buffer
    closed,   \* closed[w]: channel w is closed
    worker,   \* the cachePersistWorker that each run of Initialize started
    task,     \* what each goroutine is doing
    shutdown, \* where Close is
    panicked, \* the process died of a send on a closed channel
    ops,      \* operations started
    gone,     \* rows removed and not put back since by an answer or read from the file
    dirty     \* memory was changed by a command that leaves the file alone, or
              \* by a request that came after Close

files   == <<mem, file>>
chans   == <<gen, sig, closed>>
history == <<gone, dirty>>
vars    == <<mem, file, gen, sig, closed, worker, task, shutdown, panicked, ops,
             gone, dirty>>

Chan  == 1 .. MaxInit
Rows  == [kind : {"rows"}, rows : SUBSET Key]
Blank == [kind |-> "blank"]     \* truncated, not written yet
Torn  == [kind |-> "torn"]      \* two writers' bytes mixed: not JSON

File(rows) == [kind |-> "rows", rows |-> rows]
Readable   == file \in Rows

\* Variant: the rows are written without the object around them.
AfterWriteBare(rows) == [kind |-> "list", rows |-> rows]

\* One write of the whole text at offset 0.  A file that another writer has
\* filled since this one's os.Create keeps the tail of the longer text.
AfterWrite(rows) ==
    IF Readable /\ Cardinality(rows) < Cardinality(file.rows) THEN Torn ELSE File(rows)

TaskPC   == {"idle", "update", "updateInMemory", "signal", "open", "write"}
Task     == [pc : TaskPC, op : AllOps \cup {"none"}, key : SUBSET Key,
             rows : SUBSET Key, ch : Nat]
WorkerPC == {"none", "wait", "snapshot", "open", "write", "exited"}
Worker   == [pc : WorkerPC, rows : SUBSET Key]

Idle == [pc |-> "idle", op |-> "none", key |-> {}, rows |-> {}, ch |-> 0]

Init ==
    /\ mem = FirstRows
    /\ file = File(FirstRows)
    /\ gen = 1
    /\ sig = [w \in Chan |-> FALSE]
    /\ closed = [w \in Chan |-> FALSE]
    /\ worker = [w \in Chan |-> [pc |-> IF w = 1 THEN "wait" ELSE "none", rows |-> {}]]
    /\ task = [g \in Goroutine |-> Idle]
    /\ shutdown = "running"
    /\ panicked = FALSE
    /\ ops = 0
    /\ gone = {}
    /\ dirty = FALSE

Running      == ~panicked /\ shutdown # "done"
At(g, pc)    == Running /\ task[g].pc = pc
Finish(g)    == task' = [task EXCEPT ![g] = Idle]
Start(g, op) == At(g, "idle") /\ op \in Ops /\ ops < MaxOps /\ ops' = ops + 1
\* The goroutine goes on at pc with these rows (its copy) for this operation.
Goes(g, pc, op, key, rows) ==
    task' = [task EXCEPT ![g] = [pc |-> pc, op |-> op, key |-> key, rows |-> rows,
                                  ch |-> gen]]

\* A non-blocking send on channel w.
Send(w) ==
    /\ panicked' = closed[w]
    /\ sig' = IF closed[w] THEN sig ELSE [sig EXCEPT ![w] = TRUE]
    /\ UNCHANGED <<gen, closed>>

----------------------------------------------------------------------------
(* Operations that persist.                                                *)

\* cacheDNSResponse, cacheSyntheticRRSetAnswer: read the rows, add one.
AnswerCached(g, k) ==
    /\ Start(g, "answer")
    /\ Goes(g, "update", "answer", {k}, mem \cup {k})
    /\ UNCHANGED <<files, chans, worker, shutdown, panicked, history>>

\* clearCacheHandler calls UpdateCacheRecords with no rows.
ClearCacheHandler(g) ==
    /\ Start(g, "apiClear")
    /\ Goes(g, "update", "apiClear", {}, {})
    /\ UNCHANGED <<files, chans, worker, shutdown, panicked, history>>

\* The rows an operation removes, and the rows it puts there.
Removed(t) == IF t.op = "remove" THEN t.key
              ELSE IF t.op \in {"apiClear", "clear"} THEN mem ELSE {}
Put(t)     == IF t.op = "answer" THEN t.key ELSE IF t.op = "load" THEN t.rows ELSE {}

\* storeCacheRecords, under the lock: the rows and the index.
StoreCacheRecords(g) ==
    /\ At(g, "update")
    /\ mem' = task[g].rows
    /\ gone' = (gone \cup Removed(task[g])) \ Put(task[g])
    /\ dirty' = FALSE
    /\ Goes(g, "signal", task[g].op, task[g].key, task[g].rows)
    /\ UNCHANGED <<file, chans, worker, shutdown, panicked, ops>>

\* Variant: the signal is sent only when the worker is waiting for it.
SignalIfWaiting(g) ==
    /\ At(g, "signal")
    /\ IF worker[gen].pc = "wait" THEN Send(gen) ELSE UNCHANGED <<chans, panicked>>
    /\ Finish(g)
    /\ UNCHANGED <<files, worker, shutdown, ops, history>>

\* The end of storeCacheRecords, after the unlock.  persistCh is read without the
\* lock, so a goroutine may still see a channel that Initialize has replaced.  The
\* HTTP server recovers the panic of an API handler: the request comes to nothing.
SignalPersist(g) ==
    /\ At(g, "signal")
    /\ \E w \in task[g].ch .. gen :
          IF closed[w] /\ task[g].op = "apiClear"
          THEN dirty' = TRUE /\ UNCHANGED <<chans, panicked>>
          ELSE Send(w) /\ UNCHANGED dirty
    /\ Finish(g)
    /\ UNCHANGED <<files, worker, shutdown, ops, gone>>

\* Variant: the rows are dropped but nothing is queued.
CompactWithoutSignal(g, expired) ==
    /\ Start(g, "compact")
    /\ expired # {}
    /\ mem' = mem \ expired
    /\ gone' = gone \cup expired
    /\ dirty' = FALSE
    /\ UNCHANGED <<file, chans, worker, task, shutdown, panicked>>

\* CompactExpiredCacheRecords, from the loop or the command: one critical section.
CompactExpiredCacheRecords(g, expired) ==
    /\ Start(g, "compact")
    /\ expired # {}
    /\ mem' = mem \ expired
    /\ gone' = gone \cup expired
    /\ dirty' = FALSE
    /\ Send(gen)
    /\ UNCHANGED <<file, worker, task, shutdown>>

----------------------------------------------------------------------------
(* TUI commands.                                                           *)

RunCacheRemove(g, k) ==
    /\ Start(g, "remove")
    /\ k \in mem
    /\ Goes(g, "updateInMemory", "remove", {k}, mem \ {k})
    /\ UNCHANGED <<files, chans, worker, shutdown, panicked, history>>

RunCacheClear(g) ==
    /\ Start(g, "clear")
    /\ Goes(g, "updateInMemory", "clear", {}, {})
    /\ UNCHANGED <<files, chans, worker, shutdown, panicked, history>>

\* A file that does not parse fails the command.
RunCacheLoad(g) ==
    /\ Start(g, "load")
    /\ IF Readable THEN Goes(g, "updateInMemory", "load", {}, file.rows)
                   ELSE UNCHANGED task
    /\ UNCHANGED <<files, chans, worker, shutdown, panicked, history>>

\* Variant: the rows on disk are merged into the ones in memory.
MergeCacheRecordsInMemory(g) ==
    /\ At(g, "updateInMemory")
    /\ mem' = mem \cup task[g].rows
    /\ gone' = (gone \cup Removed(task[g])) \ Put(task[g])
    /\ dirty' = TRUE
    /\ Finish(g)
    /\ UNCHANGED <<file, chans, worker, shutdown, panicked, ops>>

UpdateCacheRecordsInMemory(g) ==
    /\ At(g, "updateInMemory")
    /\ mem' = task[g].rows
    /\ gone' = (gone \cup Removed(task[g])) \ Put(task[g])
    /\ dirty' = TRUE
    /\ Finish(g)
    /\ UNCHANGED <<file, chans, worker, shutdown, panicked, ops>>

\* "cache save" writes the file itself, whatever the worker is doing.
RunCacheSave(g) ==
    /\ Start(g, "save")
    /\ Goes(g, "open", "save", {}, mem)
    /\ UNCHANGED <<files, chans, worker, shutdown, panicked, history>>

SaveOpens(g) ==
    /\ At(g, "open")
    /\ file' = Blank
    /\ Goes(g, "write", task[g].op, task[g].key, task[g].rows)
    /\ UNCHANGED <<mem, chans, worker, shutdown, panicked, ops, history>>

SaveWrites(g) ==
    /\ At(g, "write")
    /\ file' = AfterWrite(task[g].rows)
    /\ dirty' = (dirty /\ mem # task[g].rows)
    /\ Finish(g)
    /\ UNCHANGED <<mem, chans, worker, shutdown, panicked, ops, gone>>

\* Variant: the new channel gets no worker.
InitializeWithoutWorker(g) ==
    /\ Start(g, "recordAdd")
    /\ gen < MaxInit
    /\ IF Readable
       THEN /\ mem' = file.rows
            /\ gone' = gone \ file.rows
            /\ dirty' = FALSE
            /\ gen' = gen + 1
       ELSE UNCHANGED <<mem, history, gen>>
    /\ UNCHANGED <<file, sig, closed, worker, task, shutdown, panicked>>

\* "record add" first runs Initialize, under the lock: the rows in the file
\* replace the ones in memory, and a new channel and worker take over.
Initialize(g) ==
    /\ Start(g, "recordAdd")
    /\ gen < MaxInit
    /\ IF Readable
       THEN /\ mem' = file.rows
            /\ gone' = gone \ file.rows
            /\ dirty' = FALSE
            /\ gen' = gen + 1
            /\ worker' = [worker EXCEPT ![gen + 1].pc = "wait"]
       ELSE UNCHANGED <<mem, history, gen, worker>>
    /\ UNCHANGED <<file, sig, closed, task, shutdown, panicked>>

----------------------------------------------------------------------------
(* cachePersistWorker and Close.                                           *)

WorkerAt(w, pc)   == Running /\ worker[w].pc = pc
WorkerGoes(w, pc) == worker' = [worker EXCEPT ![w].pc = pc]

WorkerReceives(w) ==
    /\ WorkerAt(w, "wait")
    /\ sig[w]
    /\ sig' = [sig EXCEPT ![w] = FALSE]
    /\ WorkerGoes(w, "snapshot")
    /\ UNCHANGED <<files, gen, closed, task, shutdown, panicked, ops, history>>

WorkerSnapshots(w) ==
    /\ WorkerAt(w, "snapshot")
    /\ worker' = [worker EXCEPT ![w] = [pc |-> "open", rows |-> mem]]
    /\ UNCHANGED <<files, chans, task, shutdown, panicked, ops, history>>

WorkerOpens(w) ==
    /\ WorkerAt(w, "open")
    /\ file' = Blank
    /\ WorkerGoes(w, "write")
    /\ UNCHANGED <<mem, chans, task, shutdown, panicked, ops, history>>

\* Variant: the file stays empty when there are no rows to write.
WorkerWritesIfAny(w) ==
    /\ WorkerAt(w, "write")
    /\ file' = IF worker[w].rows = {} THEN file ELSE AfterWrite(worker[w].rows)
    /\ WorkerGoes(w, "wait")
    /\ UNCHANGED <<mem, chans, task, shutdown, panicked, ops, history>>

WorkerWrites(w) ==
    /\ WorkerAt(w, "write")
    /\ file' = AfterWrite(worker[w].rows)
    /\ WorkerGoes(w, "wait")
    /\ UNCHANGED <<mem, chans, task, shutdown, panicked, ops, history>>

\* Variant: the worker leaves at once when the channel is closed.
WorkerExitsAtOnce(w) ==
    /\ WorkerAt(w, "wait")
    /\ closed[w]
    /\ WorkerGoes(w, "exited")
    /\ UNCHANGED <<files, chans, task, shutdown, panicked, ops, history>>

\* A range over a closed channel ends once its buffer is empty.
WorkerExits(w) ==
    /\ WorkerAt(w, "wait")
    /\ closed[w] /\ ~sig[w]
    /\ WorkerGoes(w, "exited")
    /\ UNCHANGED <<files, chans, task, shutdown, panicked, ops, history>>

\* Variant: the channel is left open.
CloseWithoutChannel ==
    /\ Stopping /\ Running /\ shutdown = "running"
    /\ shutdown' = "waiting"
    /\ UNCHANGED <<files, chans, worker, task, panicked, ops, history>>

Close ==
    /\ Stopping /\ Running /\ shutdown = "running"
    /\ closed' = [closed EXCEPT ![gen] = TRUE]
    /\ shutdown' = "waiting"
    /\ UNCHANGED <<files, gen, sig, worker, task, panicked, ops, history>>

\* persistWg.Wait returns when every worker has exited; the process ends.
CloseReturns ==
    /\ Running /\ shutdown = "waiting"
    /\ \A w \in Chan : worker[w].pc \in {"none", "exited"}
    /\ shutdown' = "done"
    /\ UNCHANGED <<files, chans, worker, task, panicked, ops, history>>

----------------------------------------------------------------------------

Continue(g) ==
    \/ StoreCacheRecords(g)
    \/ SignalPersist(g)
    \/ UpdateCacheRecordsInMemory(g)
    \/ SaveOpens(g)
    \/ SaveWrites(g)

WorkerStep(w) ==
    \/ WorkerReceives(w)
    \/ WorkerSnapshots(w)
    \/ WorkerOpens(w)
    \/ WorkerWrites(w)
    \/ WorkerExits(w)

Next ==
    \/ \E g \in Goroutine :
          \/ \E k \in Key : AnswerCached(g, k) \/ RunCacheRemove(g, k)
          \/ ClearCacheHandler(g)
          \/ \E expired \in SUBSET mem : CompactExpiredCacheRecords(g, expired)
          \/ RunCacheClear(g)
          \/ RunCacheLoad(g)
          \/ RunCacheSave(g)
          \/ Initialize(g)
          \/ Continue(g)
    \/ \E w \in Chan : WorkerStep(w)
    \/ Close
    \/ CloseReturns

Spec == Init /\ [][Next]_vars

(***************************************************************************)
(* Fairness: the Go scheduler runs every goroutine that is ready.  No      *)
(* operation has to be started, and nobody has to stop the process.        *)
(***************************************************************************)
Fairness ==
    /\ \A g \in Goroutine : WF_vars(Continue(g))
    /\ \A w \in Chan : WF_vars(WorkerStep(w))
    /\ WF_vars(CloseReturns)

FairSpec == Spec /\ Fairness

----------------------------------------------------------------------------
(* Properties.                                                             *)

TypeOK ==
    /\ mem \in SUBSET Key
    /\ file \in Rows \cup {Blank, Torn}
    /\ gen \in Chan
    /\ sig \in [Chan -> BOOLEAN]
    /\ closed \in [Chan -> BOOLEAN]
    /\ worker \in [Chan -> Worker]
    /\ task \in [Goroutine -> Task]
    /\ shutdown \in {"running", "waiting", "done"}
    /\ panicked \in BOOLEAN
    /\ ops \in 0 .. MaxOps
    /\ gone \in SUBSET Key
    /\ dirty \in BOOLEAN

Writing == \/ \E g \in Goroutine : task[g].pc \in {"open", "write"}
           \/ \E w \in Chan : worker[w].pc \in {"open", "write"}
Queued  == \/ \E g \in Goroutine : task[g].pc = "signal"
           \/ \E w \in Chan : sig[w] \/ worker[w].pc = "snapshot"

\* "Handlers only update memory and signal": although signals are dropped, a
\* change that asks to be kept is either in the file or somebody is still going
\* to write it.
PersistPending ==
    dirty \/ panicked \/ Queued \/ Writing \/ file = File(mem)

\* The file can be parsed whenever nobody is in the middle of writing it, so that
\* the next start can load it.
FileReadable == Writing \/ Readable

\* "Call this on server shutdown so the cache file is flushed": when Close has
\* returned, the file holds the rows in memory.
FlushedOnClose ==
    shutdown = "done" /\ ~dirty /\ (\A g \in Goroutine : task[g].pc # "signal")
        => file = File(mem)

\* A row that was removed, cleared or compacted away by the only goroutine at work
\* stays away until an answer puts it back, or "cache load" or the reload of
\* "record add" reads it from the file.
RemovedStaysRemoved == gone \cap mem = {}

\* A signal that was sent is received, on whichever channel it was sent.
SignalsReceived == \A w \in Chan : sig[w] ~> (~sig[w] \/ panicked)

\* "Close stops the async cache persist worker and waits for any pending write to
\* finish": it returns.
CloseFinishes == (shutdown = "waiting") ~> (shutdown = "done" \/ panicked)

\* Once the operations stop, the file of a running process catches up with memory.
FileCatchesUp == <>[](dirty \/ ~Running \/ file = File(mem))
=============================================================================
