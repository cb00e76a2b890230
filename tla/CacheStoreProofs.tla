-------------------------- MODULE CacheStoreProofs --------------------------
(***************************************************************************)
(* Proofs about CacheStore: type correctness for every set of operations,  *)
(* and, when only the operations that persist are used (queries, the API   *)
(* and compaction), that no change is lost although signals are dropped,   *)
(* that the file is whole whenever nobody writes it, and that Close        *)
(* flushes it.                                                             *)
(***************************************************************************)
EXTENDS CacheStore, TLAPS

LEMMA ChanHasOne == 1 \in Chan /\ Chan \subseteq Nat
  BY CacheAssumption DEF Chan

LEMMA AfterWriteType ==
  ASSUME NEW rows \in SUBSET Key
  PROVE  AfterWrite(rows) \in Rows \cup {Blank, Torn}
  BY DEF AfterWrite, File, Rows

\* Going on at a program counter keeps the tasks well typed.
LEMMA GoesType ==
  ASSUME NEW g \in Goroutine, NEW pc \in TaskPC, NEW op \in AllOps \cup {"none"},
         NEW key \in SUBSET Key, NEW rows \in SUBSET Key, gen \in Chan,
         task \in [Goroutine -> Task], Goes(g, pc, op, key, rows)
  PROVE  task' \in [Goroutine -> Task]
  <1>1. gen \in Nat
    BY ChanHasOne
  <1>2. [pc |-> pc, op |-> op, key |-> key, rows |-> rows, ch |-> gen] \in Task
    BY <1>1 DEF Task
  <1> QED
    BY <1>2 DEF Goes

LEMMA FinishType ==
  ASSUME NEW g \in Goroutine, task \in [Goroutine -> Task], Finish(g)
  PROVE  task' \in [Goroutine -> Task]
  <1>1. Idle \in Task
    BY DEF Idle, Task, TaskPC
  <1> QED
    BY <1>1 DEF Finish

LEMMA StartType ==
  ASSUME NEW g, NEW op, ops \in 0 .. MaxOps, Start(g, op)
  PROVE  ops' \in 0 .. MaxOps
  BY CacheAssumption DEF Start

LEMMA SendType ==
  ASSUME NEW w \in Chan, TypeOK, Send(w)
  PROVE  /\ gen' \in Chan /\ sig' \in [Chan -> BOOLEAN] /\ closed' \in [Chan -> BOOLEAN]
         /\ panicked' \in BOOLEAN
  BY DEF TypeOK, Send

\* A goroutine that has seen a channel sends on one that exists.
LEMMA SeenChan ==
  ASSUME TypeOK, NEW g \in Goroutine, task[g].ch # 0, NEW w \in task[g].ch .. gen
  PROVE  w \in Chan
  BY CacheAssumption DEF TypeOK, Chan, Task

----------------------------------------------------------------------------
(* Type correctness.                                                       *)

SawChan == \A g \in Goroutine : task[g].pc = "signal" => task[g].ch \in Chan

TypeInv == TypeOK /\ SawChan

\* A goroutine that goes on, or finishes, has seen the current channel.
LEMMA GoesSaw ==
  ASSUME TypeInv, NEW g \in Goroutine, NEW pc \in TaskPC, NEW op, NEW key, NEW rows,
         Goes(g, pc, op, key, rows)
  PROVE  SawChan'
  BY DEF TypeInv, TypeOK, SawChan, Goes, Chan

LEMMA FinishSaw ==
  ASSUME TypeInv, NEW g \in Goroutine, Finish(g)
  PROVE  SawChan'
  BY DEF TypeInv, TypeOK, SawChan, Finish, Idle, Chan

LEMMA KeptSaw ==
  ASSUME TypeInv, UNCHANGED task
  PROVE  SawChan'
  BY DEF TypeInv, SawChan, Chan

\* Init establishes the type invariant, with the file of the start.
LEMMA TypeInit == Init => TypeInv
  <1> SUFFICES ASSUME Init PROVE TypeInv
    OBVIOUS
  <1>1. Idle \in Task
    BY DEF Idle, Task, TaskPC
  <1>2. file \in Rows \cup {Blank, Torn}
    BY CacheAssumption DEF Init, File, Rows
  <1>3. gen \in Chan
    BY ChanHasOne DEF Init
  <1>4. worker \in [Chan -> Worker]
    BY DEF Init, Worker, WorkerPC
  <1>5. ops \in 0 .. MaxOps
    BY CacheAssumption DEF Init
  <1>6. TypeOK
    BY ZenonT(30), <1>1, <1>2, <1>3, <1>4, <1>5, CacheAssumption DEF Init, TypeOK
  <1>7. SawChan
    BY DEF Init, SawChan, Idle
  <1> QED
    BY <1>6, <1>7 DEF TypeInv

\* Every step keeps the type invariant, one case for each operation.
LEMMA TypeNext == TypeInv /\ [Next]_vars => TypeInv'
  <1> SUFFICES ASSUME TypeInv, [Next]_vars PROVE TypeInv'
    OBVIOUS
  <1> USE DEF TypeInv
  <1>1. ASSUME NEW g \in Goroutine, NEW k \in Key, AnswerCached(g, k) PROVE TypeInv'
    <2>1. mem' \in SUBSET Key
      BY <1>1 DEF AnswerCached, TypeOK, files, chans, history
    <2>2. file' \in Rows \cup {Blank, Torn}
      BY <1>1 DEF AnswerCached, TypeOK, files, chans, history
    <2>3. gen' \in Chan /\ sig' \in [Chan -> BOOLEAN] /\ closed' \in [Chan -> BOOLEAN] /\ panicked' \in BOOLEAN
      BY <1>1 DEF AnswerCached, TypeOK, files, chans, history
    <2>4. worker' \in [Chan -> Worker]
      BY <1>1 DEF AnswerCached, TypeOK, files, chans, history
    <2>5. task' \in [Goroutine -> Task]
      <3>1. {k} \in SUBSET Key /\ mem \cup {k} \in SUBSET Key /\ gen \in Chan
        BY <1>1 DEF TypeOK
      <3>2. "answer" \in AllOps \cup {"none"} /\ "update" \in TaskPC
        BY DEF AllOps, TaskPC
      <3>3. Goes(g, "update", "answer", {k}, mem \cup {k}) /\ task \in [Goroutine -> Task]
        BY <1>1 DEF AnswerCached, TypeOK
      <3> HIDE DEF TypeInv
      <3> QED
        BY <3>1, <3>2, <3>3, GoesType
    <2>6. /\ ops' \in 0 .. MaxOps /\ gone' \in SUBSET Key /\ dirty' \in BOOLEAN
         /\ shutdown' \in {"running", "waiting", "done"}
      BY <1>1, StartType DEF AnswerCached, TypeOK, history
    <2>7. SawChan'
      BY <1>1, GoesSaw DEF AnswerCached, TypeOK, TaskPC
    <2> QED
      BY <2>1, <2>2, <2>3, <2>4, <2>5, <2>6, <2>7 DEF TypeOK
  <1>2. ASSUME NEW g \in Goroutine, ClearCacheHandler(g) PROVE TypeInv'
    <2>1. mem' \in SUBSET Key
      BY <1>2 DEF ClearCacheHandler, TypeOK, files, chans, history
    <2>2. file' \in Rows \cup {Blank, Torn}
      BY <1>2 DEF ClearCacheHandler, TypeOK, files, chans, history
    <2>3. gen' \in Chan /\ sig' \in [Chan -> BOOLEAN] /\ closed' \in [Chan -> BOOLEAN] /\ panicked' \in BOOLEAN
      BY <1>2 DEF ClearCacheHandler, TypeOK, files, chans, history
    <2>4. worker' \in [Chan -> Worker]
      BY <1>2 DEF ClearCacheHandler, TypeOK, files, chans, history
    <2>5. task' \in [Goroutine -> Task]
      BY <1>2, GoesType DEF ClearCacheHandler, TypeOK, AllOps, TaskPC
    <2>6. /\ ops' \in 0 .. MaxOps /\ gone' \in SUBSET Key /\ dirty' \in BOOLEAN
         /\ shutdown' \in {"running", "waiting", "done"}
      BY <1>2, StartType DEF ClearCacheHandler, TypeOK, history
    <2>7. SawChan'
      BY <1>2, GoesSaw DEF ClearCacheHandler, TypeOK, TaskPC
    <2> QED
      BY <2>1, <2>2, <2>3, <2>4, <2>5, <2>6, <2>7 DEF TypeOK
  <1>3. ASSUME NEW g \in Goroutine, StoreCacheRecords(g) PROVE TypeInv'
    <2>1. mem' \in SUBSET Key
      BY <1>3 DEF StoreCacheRecords, TypeOK, Task
    <2>2. file' \in Rows \cup {Blank, Torn}
      BY <1>3 DEF StoreCacheRecords, TypeOK, files, chans, history
    <2>3. gen' \in Chan /\ sig' \in [Chan -> BOOLEAN] /\ closed' \in [Chan -> BOOLEAN] /\ panicked' \in BOOLEAN
      BY <1>3 DEF StoreCacheRecords, TypeOK, files, chans, history
    <2>4. worker' \in [Chan -> Worker]
      BY <1>3 DEF StoreCacheRecords, TypeOK, files, chans, history
    <2>5. task' \in [Goroutine -> Task]
      BY ZenonT(30), <1>3, GoesType DEF StoreCacheRecords, TypeOK, AllOps, TaskPC, Task
    <2>6. /\ ops' \in 0 .. MaxOps /\ gone' \in SUBSET Key /\ dirty' \in BOOLEAN
         /\ shutdown' \in {"running", "waiting", "done"}
      BY ZenonT(30), <1>3 DEF StoreCacheRecords, TypeOK, Task, Removed, Put
    <2>7. SawChan'
      BY <1>3, GoesSaw DEF StoreCacheRecords, TypeOK, TaskPC, Task
    <2> QED
      BY <2>1, <2>2, <2>3, <2>4, <2>5, <2>6, <2>7 DEF TypeOK
  <1>4. ASSUME NEW g \in Goroutine, SignalPersist(g) PROVE TypeInv'
    <2>1. mem' \in SUBSET Key
      BY <1>4 DEF SignalPersist, TypeOK, files, chans, history
    <2>2. file' \in Rows \cup {Blank, Torn}
      BY <1>4 DEF SignalPersist, TypeOK, files, chans, history
    <2>3. gen' \in Chan /\ sig' \in [Chan -> BOOLEAN] /\ closed' \in [Chan -> BOOLEAN] /\ panicked' \in BOOLEAN
      <3>1. task[g].ch \in Chan
        BY <1>4 DEF SignalPersist, At, SawChan
      <3>2. PICK w \in task[g].ch .. gen : Send(w) \/ UNCHANGED <<chans, panicked>>
        BY <1>4 DEF SignalPersist
      <3>3. w \in Chan
        BY <3>1, SeenChan DEF Chan
      <3> QED
        BY <3>2, <3>3, SendType DEF chans, TypeOK
    <2>4. worker' \in [Chan -> Worker]
      BY <1>4 DEF SignalPersist, TypeOK, files, chans, history
    <2>5. task' \in [Goroutine -> Task]
      BY <1>4, FinishType DEF SignalPersist, TypeOK
    <2>6. /\ ops' \in 0 .. MaxOps /\ gone' \in SUBSET Key /\ dirty' \in BOOLEAN
         /\ shutdown' \in {"running", "waiting", "done"}
      BY ZenonT(30), <1>4 DEF SignalPersist, TypeOK, files, chans, history
    <2>7. SawChan'
      BY <1>4, FinishSaw DEF SignalPersist
    <2> QED
      BY <2>1, <2>2, <2>3, <2>4, <2>5, <2>6, <2>7 DEF TypeOK
  <1>5. ASSUME NEW g \in Goroutine, NEW expired \in SUBSET mem, CompactExpiredCacheRecords(g, expired) PROVE TypeInv'
    <2>1. mem' \in SUBSET Key
      BY <1>5 DEF CompactExpiredCacheRecords, TypeOK, files, chans, history
    <2>2. file' \in Rows \cup {Blank, Torn}
      BY <1>5 DEF CompactExpiredCacheRecords, TypeOK, files, chans, history
    <2>3. gen' \in Chan /\ sig' \in [Chan -> BOOLEAN] /\ closed' \in [Chan -> BOOLEAN] /\ panicked' \in BOOLEAN
      BY <1>5, SendType DEF CompactExpiredCacheRecords, TypeOK
    <2>4. worker' \in [Chan -> Worker]
      BY <1>5 DEF CompactExpiredCacheRecords, TypeOK, files, chans, history
    <2>5. task' \in [Goroutine -> Task]
      BY <1>5 DEF CompactExpiredCacheRecords, TypeOK, files, chans, history
    <2>6. /\ ops' \in 0 .. MaxOps /\ gone' \in SUBSET Key /\ dirty' \in BOOLEAN
         /\ shutdown' \in {"running", "waiting", "done"}
      BY ZenonT(30), <1>5, StartType DEF CompactExpiredCacheRecords, TypeOK, history
    <2>7. SawChan'
      BY <1>5, KeptSaw DEF CompactExpiredCacheRecords, files, chans, history
    <2> QED
      BY <2>1, <2>2, <2>3, <2>4, <2>5, <2>6, <2>7 DEF TypeOK
  <1>6. ASSUME NEW g \in Goroutine, NEW k \in Key, RunCacheRemove(g, k) PROVE TypeInv'
    <2>1. mem' \in SUBSET Key
      BY <1>6 DEF RunCacheRemove, TypeOK, files, chans, history
    <2>2. file' \in Rows \cup {Blank, Torn}
      BY <1>6 DEF RunCacheRemove, TypeOK, files, chans, history
    <2>3. gen' \in Chan /\ sig' \in [Chan -> BOOLEAN] /\ closed' \in [Chan -> BOOLEAN] /\ panicked' \in BOOLEAN
      BY <1>6 DEF RunCacheRemove, TypeOK, files, chans, history
    <2>4. worker' \in [Chan -> Worker]
      BY <1>6 DEF RunCacheRemove, TypeOK, files, chans, history
    <2>5. task' \in [Goroutine -> Task]
      <3>1. {k} \in SUBSET Key /\ mem \ {k} \in SUBSET Key /\ gen \in Chan
        BY <1>6 DEF TypeOK
      <3>2. "remove" \in AllOps \cup {"none"} /\ "updateInMemory" \in TaskPC
        BY DEF AllOps, TaskPC
      <3>3. Goes(g, "updateInMemory", "remove", {k}, mem \ {k}) /\ task \in [Goroutine -> Task]
        BY <1>6 DEF RunCacheRemove, TypeOK
      <3> HIDE DEF TypeInv
      <3> QED
        BY ZenonT(30), <3>1, <3>2, <3>3, GoesType
    <2>6. /\ ops' \in 0 .. MaxOps /\ gone' \in SUBSET Key /\ dirty' \in BOOLEAN
         /\ shutdown' \in {"running", "waiting", "done"}
      BY <1>6, StartType DEF RunCacheRemove, TypeOK, history
    <2>7. SawChan'
      BY <1>6, GoesSaw DEF RunCacheRemove, TypeOK, TaskPC
    <2> QED
      BY <2>1, <2>2, <2>3, <2>4, <2>5, <2>6, <2>7 DEF TypeOK
  <1>7. ASSUME NEW g \in Goroutine, RunCacheClear(g) PROVE TypeInv'
    <2>1. mem' \in SUBSET Key
      BY <1>7 DEF RunCacheClear, TypeOK, files, chans, history
    <2>2. file' \in Rows \cup {Blank, Torn}
      BY <1>7 DEF RunCacheClear, TypeOK, files, chans, history
    <2>3. gen' \in Chan /\ sig' \in [Chan -> BOOLEAN] /\ closed' \in [Chan -> BOOLEAN] /\ panicked' \in BOOLEAN
      BY <1>7 DEF RunCacheClear, TypeOK, files, chans, history
    <2>4. worker' \in [Chan -> Worker]
      BY <1>7 DEF RunCacheClear, TypeOK, files, chans, history
    <2>5. task' \in [Goroutine -> Task]
      BY <1>7, GoesType DEF RunCacheClear, TypeOK, AllOps, TaskPC
    <2>6. /\ ops' \in 0 .. MaxOps /\ gone' \in SUBSET Key /\ dirty' \in BOOLEAN
         /\ shutdown' \in {"running", "waiting", "done"}
      BY <1>7, StartType DEF RunCacheClear, TypeOK, history
    <2>7. SawChan'
      BY <1>7, GoesSaw DEF RunCacheClear, TypeOK, TaskPC
    <2> QED
      BY <2>1, <2>2, <2>3, <2>4, <2>5, <2>6, <2>7 DEF TypeOK
  <1>8. ASSUME NEW g \in Goroutine, RunCacheLoad(g) PROVE TypeInv'
    <2>1. mem' \in SUBSET Key
      BY <1>8 DEF RunCacheLoad, TypeOK, files, chans, history
    <2>2. file' \in Rows \cup {Blank, Torn}
      BY <1>8 DEF RunCacheLoad, TypeOK, files, chans, history
    <2>3. gen' \in Chan /\ sig' \in [Chan -> BOOLEAN] /\ closed' \in [Chan -> BOOLEAN] /\ panicked' \in BOOLEAN
      BY <1>8 DEF RunCacheLoad, TypeOK, files, chans, history
    <2>4. worker' \in [Chan -> Worker]
      BY <1>8 DEF RunCacheLoad, TypeOK, files, chans, history
    <2>5. task' \in [Goroutine -> Task]
      BY ZenonT(30), <1>8, GoesType DEF RunCacheLoad, Readable, Rows, TypeOK, AllOps, TaskPC
    <2>6. /\ ops' \in 0 .. MaxOps /\ gone' \in SUBSET Key /\ dirty' \in BOOLEAN
         /\ shutdown' \in {"running", "waiting", "done"}
      BY <1>8, StartType DEF RunCacheLoad, TypeOK, history
    <2>7. SawChan'
      BY <1>8, GoesSaw, KeptSaw DEF RunCacheLoad, TaskPC
    <2> QED
      BY <2>1, <2>2, <2>3, <2>4, <2>5, <2>6, <2>7 DEF TypeOK
  <1>9. ASSUME NEW g \in Goroutine, UpdateCacheRecordsInMemory(g) PROVE TypeInv'
    <2>1. mem' \in SUBSET Key
      BY <1>9 DEF UpdateCacheRecordsInMemory, TypeOK, Task
    <2>2. file' \in Rows \cup {Blank, Torn}
      BY <1>9 DEF UpdateCacheRecordsInMemory, TypeOK, files, chans, history
    <2>3. gen' \in Chan /\ sig' \in [Chan -> BOOLEAN] /\ closed' \in [Chan -> BOOLEAN] /\ panicked' \in BOOLEAN
      BY <1>9 DEF UpdateCacheRecordsInMemory, TypeOK, files, chans, history
    <2>4. worker' \in [Chan -> Worker]
      BY <1>9 DEF UpdateCacheRecordsInMemory, TypeOK, files, chans, history
    <2>5. task' \in [Goroutine -> Task]
      BY <1>9, FinishType DEF UpdateCacheRecordsInMemory, TypeOK
    <2>6. /\ ops' \in 0 .. MaxOps /\ gone' \in SUBSET Key /\ dirty' \in BOOLEAN
         /\ shutdown' \in {"running", "waiting", "done"}
      BY <1>9 DEF UpdateCacheRecordsInMemory, TypeOK, Task, Removed, Put
    <2>7. SawChan'
      BY <1>9, FinishSaw DEF UpdateCacheRecordsInMemory
    <2> QED
      BY <2>1, <2>2, <2>3, <2>4, <2>5, <2>6, <2>7 DEF TypeOK
  <1>10. ASSUME NEW g \in Goroutine, RunCacheSave(g) PROVE TypeInv'
    <2>1. mem' \in SUBSET Key
      BY <1>10 DEF RunCacheSave, TypeOK, files, chans, history
    <2>2. file' \in Rows \cup {Blank, Torn}
      BY <1>10 DEF RunCacheSave, TypeOK, files, chans, history
    <2>3. gen' \in Chan /\ sig' \in [Chan -> BOOLEAN] /\ closed' \in [Chan -> BOOLEAN] /\ panicked' \in BOOLEAN
      BY <1>10 DEF RunCacheSave, TypeOK, files, chans, history
    <2>4. worker' \in [Chan -> Worker]
      BY <1>10 DEF RunCacheSave, TypeOK, files, chans, history
    <2>5. task' \in [Goroutine -> Task]
      BY ZenonT(30), <1>10, GoesType DEF RunCacheSave, TypeOK, AllOps, TaskPC
    <2>6. /\ ops' \in 0 .. MaxOps /\ gone' \in SUBSET Key /\ dirty' \in BOOLEAN
         /\ shutdown' \in {"running", "waiting", "done"}
      BY <1>10, StartType DEF RunCacheSave, TypeOK, history
    <2>7. SawChan'
      BY <1>10, GoesSaw DEF RunCacheSave, TypeOK, TaskPC
    <2> QED
      BY <2>1, <2>2, <2>3, <2>4, <2>5, <2>6, <2>7 DEF TypeOK
  <1>11. ASSUME NEW g \in Goroutine, SaveOpens(g) PROVE TypeInv'
    <2>1. mem' \in SUBSET Key
      BY <1>11 DEF SaveOpens, TypeOK, files, chans, history
    <2>2. file' \in Rows \cup {Blank, Torn}
      BY <1>11 DEF SaveOpens, TypeOK, files, chans, history
    <2>3. gen' \in Chan /\ sig' \in [Chan -> BOOLEAN] /\ closed' \in [Chan -> BOOLEAN] /\ panicked' \in BOOLEAN
      BY <1>11 DEF SaveOpens, TypeOK, files, chans, history
    <2>4. worker' \in [Chan -> Worker]
      BY <1>11 DEF SaveOpens, TypeOK, files, chans, history
    <2>5. task' \in [Goroutine -> Task]
      BY ZenonT(30), <1>11, GoesType DEF SaveOpens, TypeOK, AllOps, TaskPC, Task
    <2>6. /\ ops' \in 0 .. MaxOps /\ gone' \in SUBSET Key /\ dirty' \in BOOLEAN
         /\ shutdown' \in {"running", "waiting", "done"}
      BY <1>11 DEF SaveOpens, TypeOK, files, chans, history
    <2>7. SawChan'
      BY <1>11, GoesSaw DEF SaveOpens, TypeOK, TaskPC, Task
    <2> QED
      BY <2>1, <2>2, <2>3, <2>4, <2>5, <2>6, <2>7 DEF TypeOK
  <1>12. ASSUME NEW g \in Goroutine, SaveWrites(g) PROVE TypeInv'
    <2>1. mem' \in SUBSET Key
      BY <1>12 DEF SaveWrites, TypeOK, files, chans, history
    <2>2. file' \in Rows \cup {Blank, Torn}
      BY <1>12, AfterWriteType DEF SaveWrites, TypeOK, Task
    <2>3. gen' \in Chan /\ sig' \in [Chan -> BOOLEAN] /\ closed' \in [Chan -> BOOLEAN] /\ panicked' \in BOOLEAN
      BY <1>12 DEF SaveWrites, TypeOK, files, chans, history
    <2>4. worker' \in [Chan -> Worker]
      BY <1>12 DEF SaveWrites, TypeOK, files, chans, history
    <2>5. task' \in [Goroutine -> Task]
      BY <1>12, FinishType DEF SaveWrites, TypeOK
    <2>6. /\ ops' \in 0 .. MaxOps /\ gone' \in SUBSET Key /\ dirty' \in BOOLEAN
         /\ shutdown' \in {"running", "waiting", "done"}
      BY <1>12 DEF SaveWrites, TypeOK, files, chans, history
    <2>7. SawChan'
      BY <1>12, FinishSaw DEF SaveWrites
    <2> QED
      BY <2>1, <2>2, <2>3, <2>4, <2>5, <2>6, <2>7 DEF TypeOK
  <1>13. ASSUME NEW g \in Goroutine, Initialize(g) PROVE TypeInv'
    <2>1. mem' \in SUBSET Key
      BY <1>13 DEF Initialize, TypeOK, Readable, Rows
    <2>2. file' \in Rows \cup {Blank, Torn}
      BY <1>13 DEF Initialize, TypeOK, files, chans, history
    <2>3. gen' \in Chan /\ sig' \in [Chan -> BOOLEAN] /\ closed' \in [Chan -> BOOLEAN] /\ panicked' \in BOOLEAN
      BY <1>13, CacheAssumption DEF Initialize, TypeOK, Chan
    <2>4. worker' \in [Chan -> Worker]
      BY <1>13 DEF Initialize, TypeOK, Worker, WorkerPC
    <2>5. task' \in [Goroutine -> Task]
      BY <1>13 DEF Initialize, TypeOK, files, chans, history
    <2>6. /\ ops' \in 0 .. MaxOps /\ gone' \in SUBSET Key /\ dirty' \in BOOLEAN
         /\ shutdown' \in {"running", "waiting", "done"}
      BY ZenonT(30), <1>13, StartType DEF Initialize, TypeOK, history
    <2>7. SawChan'
      BY <1>13, KeptSaw DEF Initialize, files, chans, history
    <2> QED
      BY <2>1, <2>2, <2>3, <2>4, <2>5, <2>6, <2>7 DEF TypeOK
  <1>14. ASSUME NEW w \in Chan, WorkerReceives(w) PROVE TypeInv'
    <2>1. mem' \in SUBSET Key
      BY <1>14 DEF WorkerReceives, TypeOK, files, chans, history
    <2>2. file' \in Rows \cup {Blank, Torn}
      BY <1>14 DEF WorkerReceives, TypeOK, files, chans, history
    <2>3. gen' \in Chan /\ sig' \in [Chan -> BOOLEAN] /\ closed' \in [Chan -> BOOLEAN] /\ panicked' \in BOOLEAN
      BY <1>14 DEF WorkerReceives, TypeOK, files, chans, history
    <2>4. worker' \in [Chan -> Worker]
      BY <1>14 DEF WorkerReceives, WorkerGoes, TypeOK, Worker, WorkerPC
    <2>5. task' \in [Goroutine -> Task]
      BY <1>14 DEF WorkerReceives, TypeOK, files, chans, history
    <2>6. /\ ops' \in 0 .. MaxOps /\ gone' \in SUBSET Key /\ dirty' \in BOOLEAN
         /\ shutdown' \in {"running", "waiting", "done"}
      BY <1>14 DEF WorkerReceives, TypeOK, files, chans, history
    <2>7. SawChan'
      BY <1>14, KeptSaw DEF WorkerReceives, files, chans, history
    <2> QED
      BY <2>1, <2>2, <2>3, <2>4, <2>5, <2>6, <2>7 DEF TypeOK
  <1>15. ASSUME NEW w \in Chan, WorkerSnapshots(w) PROVE TypeInv'
    <2>1. mem' \in SUBSET Key
      BY <1>15 DEF WorkerSnapshots, TypeOK, files, chans, history
    <2>2. file' \in Rows \cup {Blank, Torn}
      BY <1>15 DEF WorkerSnapshots, TypeOK, files, chans, history
    <2>3. gen' \in Chan /\ sig' \in [Chan -> BOOLEAN] /\ closed' \in [Chan -> BOOLEAN] /\ panicked' \in BOOLEAN
      BY <1>15 DEF WorkerSnapshots, TypeOK, files, chans, history
    <2>4. worker' \in [Chan -> Worker]
      BY <1>15 DEF WorkerSnapshots, WorkerGoes, TypeOK, Worker, WorkerPC
    <2>5. task' \in [Goroutine -> Task]
      BY <1>15 DEF WorkerSnapshots, TypeOK, files, chans, history
    <2>6. /\ ops' \in 0 .. MaxOps /\ gone' \in SUBSET Key /\ dirty' \in BOOLEAN
         /\ shutdown' \in {"running", "waiting", "done"}
      BY <1>15 DEF WorkerSnapshots, TypeOK, files, chans, history
    <2>7. SawChan'
      BY <1>15, KeptSaw DEF WorkerSnapshots, files, chans, history
    <2> QED
      BY <2>1, <2>2, <2>3, <2>4, <2>5, <2>6, <2>7 DEF TypeOK
  <1>16. ASSUME NEW w \in Chan, WorkerOpens(w) PROVE TypeInv'
    <2>1. mem' \in SUBSET Key
      BY <1>16 DEF WorkerOpens, TypeOK, files, chans, history
    <2>2. file' \in Rows \cup {Blank, Torn}
      BY <1>16 DEF WorkerOpens, TypeOK, files, chans, history
    <2>3. gen' \in Chan /\ sig' \in [Chan -> BOOLEAN] /\ closed' \in [Chan -> BOOLEAN] /\ panicked' \in BOOLEAN
      BY <1>16 DEF WorkerOpens, TypeOK, files, chans, history
    <2>4. worker' \in [Chan -> Worker]
      BY <1>16 DEF WorkerOpens, WorkerGoes, TypeOK, Worker, WorkerPC
    <2>5. task' \in [Goroutine -> Task]
      BY <1>16 DEF WorkerOpens, TypeOK, files, chans, history
    <2>6. /\ ops' \in 0 .. MaxOps /\ gone' \in SUBSET Key /\ dirty' \in BOOLEAN
         /\ shutdown' \in {"running", "waiting", "done"}
      BY <1>16 DEF WorkerOpens, TypeOK, files, chans, history
    <2>7. SawChan'
      BY <1>16, KeptSaw DEF WorkerOpens, files, chans, history
    <2> QED
      BY <2>1, <2>2, <2>3, <2>4, <2>5, <2>6, <2>7 DEF TypeOK
  <1>17. ASSUME NEW w \in Chan, WorkerWrites(w) PROVE TypeInv'
    <2>1. mem' \in SUBSET Key
      BY <1>17 DEF WorkerWrites, TypeOK, files, chans, history
    <2>2. file' \in Rows \cup {Blank, Torn}
      BY <1>17, AfterWriteType DEF WorkerWrites, TypeOK, Worker
    <2>3. gen' \in Chan /\ sig' \in [Chan -> BOOLEAN] /\ closed' \in [Chan -> BOOLEAN] /\ panicked' \in BOOLEAN
      BY <1>17 DEF WorkerWrites, TypeOK, files, chans, history
    <2>4. worker' \in [Chan -> Worker]
      BY <1>17 DEF WorkerWrites, WorkerGoes, TypeOK, Worker, WorkerPC
    <2>5. task' \in [Goroutine -> Task]
      BY <1>17 DEF WorkerWrites, TypeOK, files, chans, history
    <2>6. /\ ops' \in 0 .. MaxOps /\ gone' \in SUBSET Key /\ dirty' \in BOOLEAN
         /\ shutdown' \in {"running", "waiting", "done"}
      BY <1>17 DEF WorkerWrites, TypeOK, files, chans, history
    <2>7. SawChan'
      BY <1>17, KeptSaw DEF WorkerWrites, files, chans, history
    <2> QED
      BY <2>1, <2>2, <2>3, <2>4, <2>5, <2>6, <2>7 DEF TypeOK
  <1>18. ASSUME NEW w \in Chan, WorkerExits(w) PROVE TypeInv'
    <2>1. mem' \in SUBSET Key
      BY <1>18 DEF WorkerExits, TypeOK, files, chans, history
    <2>2. file' \in Rows \cup {Blank, Torn}
      BY <1>18 DEF WorkerExits, TypeOK, files, chans, history
    <2>3. gen' \in Chan /\ sig' \in [Chan -> BOOLEAN] /\ closed' \in [Chan -> BOOLEAN] /\ panicked' \in BOOLEAN
      BY <1>18 DEF WorkerExits, TypeOK, files, chans, history
    <2>4. worker' \in [Chan -> Worker]
      BY <1>18 DEF WorkerExits, WorkerGoes, TypeOK, Worker, WorkerPC
    <2>5. task' \in [Goroutine -> Task]
      BY <1>18 DEF WorkerExits, TypeOK, files, chans, history
    <2>6. /\ ops' \in 0 .. MaxOps /\ gone' \in SUBSET Key /\ dirty' \in BOOLEAN
         /\ shutdown' \in {"running", "waiting", "done"}
      BY <1>18 DEF WorkerExits, TypeOK, files, chans, history
    <2>7. SawChan'
      BY <1>18, KeptSaw DEF WorkerExits, files, chans, history
    <2> QED
      BY <2>1, <2>2, <2>3, <2>4, <2>5, <2>6, <2>7 DEF TypeOK
  <1>19. ASSUME Close PROVE TypeInv'
    <2>1. mem' \in SUBSET Key
      BY <1>19 DEF Close, TypeOK, files, chans, history
    <2>2. file' \in Rows \cup {Blank, Torn}
      BY <1>19 DEF Close, TypeOK, files, chans, history
    <2>3. gen' \in Chan /\ sig' \in [Chan -> BOOLEAN] /\ closed' \in [Chan -> BOOLEAN] /\ panicked' \in BOOLEAN
      BY <1>19 DEF Close, TypeOK, files, chans, history
    <2>4. worker' \in [Chan -> Worker]
      BY <1>19 DEF Close, TypeOK, files, chans, history
    <2>5. task' \in [Goroutine -> Task]
      BY <1>19 DEF Close, TypeOK, files, chans, history
    <2>6. /\ ops' \in 0 .. MaxOps /\ gone' \in SUBSET Key /\ dirty' \in BOOLEAN
         /\ shutdown' \in {"running", "waiting", "done"}
      BY <1>19 DEF Close, TypeOK, files, chans, history
    <2>7. SawChan'
      BY <1>19, KeptSaw DEF Close, files, chans, history
    <2> QED
      BY <2>1, <2>2, <2>3, <2>4, <2>5, <2>6, <2>7 DEF TypeOK
  <1>20. ASSUME CloseReturns PROVE TypeInv'
    <2>1. mem' \in SUBSET Key
      BY <1>20 DEF CloseReturns, TypeOK, files, chans, history
    <2>2. file' \in Rows \cup {Blank, Torn}
      BY <1>20 DEF CloseReturns, TypeOK, files, chans, history
    <2>3. gen' \in Chan /\ sig' \in [Chan -> BOOLEAN] /\ closed' \in [Chan -> BOOLEAN] /\ panicked' \in BOOLEAN
      BY <1>20 DEF CloseReturns, TypeOK, files, chans, history
    <2>4. worker' \in [Chan -> Worker]
      BY <1>20 DEF CloseReturns, TypeOK, files, chans, history
    <2>5. task' \in [Goroutine -> Task]
      BY <1>20 DEF CloseReturns, TypeOK, files, chans, history
    <2>6. /\ ops' \in 0 .. MaxOps /\ gone' \in SUBSET Key /\ dirty' \in BOOLEAN
         /\ shutdown' \in {"running", "waiting", "done"}
      BY <1>20 DEF CloseReturns, TypeOK, files, chans, history
    <2>7. SawChan'
      BY <1>20, KeptSaw DEF CloseReturns, files, chans, history
    <2> QED
      BY <2>1, <2>2, <2>3, <2>4, <2>5, <2>6, <2>7 DEF TypeOK
  <1>21. ASSUME UNCHANGED vars PROVE TypeInv'
    <2>1. mem' \in SUBSET Key
      BY <1>21 DEF vars, TypeOK, files, chans, history
    <2>2. file' \in Rows \cup {Blank, Torn}
      BY <1>21 DEF vars, TypeOK, files, chans, history
    <2>3. gen' \in Chan /\ sig' \in [Chan -> BOOLEAN] /\ closed' \in [Chan -> BOOLEAN] /\ panicked' \in BOOLEAN
      BY <1>21 DEF vars, TypeOK, files, chans, history
    <2>4. worker' \in [Chan -> Worker]
      BY <1>21 DEF vars, TypeOK, files, chans, history
    <2>5. task' \in [Goroutine -> Task]
      BY <1>21 DEF vars, TypeOK, files, chans, history
    <2>6. /\ ops' \in 0 .. MaxOps /\ gone' \in SUBSET Key /\ dirty' \in BOOLEAN
         /\ shutdown' \in {"running", "waiting", "done"}
      BY <1>21 DEF vars, TypeOK, files, chans, history
    <2>7. SawChan'
      BY <1>21, KeptSaw DEF vars, files, chans, history
    <2> QED
      BY <2>1, <2>2, <2>3, <2>4, <2>5, <2>6, <2>7 DEF TypeOK
  <1> QED
    BY <1>1, <1>2, <1>3, <1>4, <1>5, <1>6, <1>7, <1>8, <1>9, <1>10, <1>11, <1>12, <1>13, <1>14, <1>15, <1>16, <1>17, <1>18, <1>19, <1>20, <1>21 DEF Next, Continue, WorkerStep

\* The variables keep their types: in particular the channel a goroutine signals
\* on always exists, although it may be one that Initialize has replaced.
THEOREM TypeCorrect == Spec => []TypeOK
  <1>1. TypeInv => TypeOK
    BY DEF TypeInv
  <1> QED
    BY <1>1, TypeInit, TypeNext, PTL DEF Spec

----------------------------------------------------------------------------
(* Only operations that persist.                                           *)

Persisting == Ops \subseteq {"answer", "apiClear", "compact"}

\* Nothing has replaced the first channel, and no command writes the file.
OneWorker ==
    /\ gen = 1
    /\ \A w \in Chan \ {1} : worker[w].pc = "none" /\ ~sig[w]
    /\ \A g \in Goroutine : /\ task[g].pc \in {"idle", "update", "signal"}
                            /\ task[g].pc = "signal" => task[g].ch = 1

Signalling == \E g \in Goroutine : task[g].pc = "signal"
Asked      == dirty \/ panicked \/ sig[1] \/ Signalling

\* A snapshot that memory has left behind will be followed by another one.
SnapshotOK == worker[1].pc \in {"open", "write"} /\ worker[1].rows # mem => Asked
FileOK     == file # File(mem) => Asked \/ worker[1].pc \in {"snapshot", "open", "write"}
WriterOK   == /\ worker[1].pc = "write" => file = Blank
              /\ worker[1].pc # "write" => Readable
ExitOK     == /\ worker[1].pc # "none"
              /\ worker[1].pc = "exited" => closed[1] /\ ~sig[1]
              /\ shutdown = "done" => ~panicked /\ worker[1].pc = "exited"

PersistInv == TypeInv /\ OneWorker /\ SnapshotOK /\ FileOK /\ WriterOK /\ ExitOK

\* The start of the process: nothing to save, nobody saving.
LEMMA PersistInit == Init => PersistInv
  <1> SUFFICES ASSUME Init PROVE PersistInv
    OBVIOUS
  <1>1. worker[1] = [pc |-> "wait", rows |-> {}]
    BY ChanHasOne DEF Init
  <1>2. OneWorker
    BY DEF Init, OneWorker, Idle
  <1>3. Readable
    BY CacheAssumption DEF Init, Readable, File, Rows
  <1> QED
    BY <1>1, <1>2, <1>3, TypeInit DEF Init, PersistInv, SnapshotOK, FileOK, WriterOK, ExitOK

\* What the operations that only start something leave alone.
LEMMA PersistFrame ==
  ASSUME PersistInv, UNCHANGED <<files, chans, worker, shutdown, panicked, history>>,
         TypeInv', NEW g \in Goroutine, task[g].pc = "idle",
         NEW op, NEW key, NEW rows, Goes(g, "update", op, key, rows)
  PROVE  PersistInv'
  <1> USE DEF PersistInv, TypeInv, TypeOK
  <1>1. OneWorker'
    BY DEF OneWorker, Goes, chans
  <1>2. Signalling' <=> Signalling
    BY DEF Signalling, Goes
  <1>3. SnapshotOK' /\ FileOK'
    BY <1>2 DEF SnapshotOK, FileOK, Asked, files, chans, history, File
  <1>4. WriterOK' /\ ExitOK'
    BY DEF WriterOK, ExitOK, Readable, files, chans, Rows, Blank
  <1> QED
    BY <1>1, <1>3, <1>4

\* A send on the only channel leaves a signal there, or the process panics.
LEMMA SendAsks ==
  ASSUME PersistInv, Send(1)
  PROVE  /\ gen' = 1 /\ closed' = closed
         /\ sig'[1] \/ panicked'
         /\ \A w \in Chan \ {1} : sig'[w] = sig[w]
         /\ closed[1] => sig' = sig
  BY ChanHasOne DEF PersistInv, TypeInv, TypeOK, Send, OneWorker

\* Every step of a process that only uses operations that persist keeps it.
LEMMA PersistNext ==
  ASSUME Persisting
  PROVE  PersistInv /\ [Next]_vars => PersistInv'
  <1> SUFFICES ASSUME PersistInv, [Next]_vars PROVE PersistInv'
    OBVIOUS
  <1>0. TypeInv'
    BY TypeNext DEF PersistInv
  <1>1. ASSUME NEW g \in Goroutine, NEW k \in Key, AnswerCached(g, k) PROVE PersistInv'
    BY <1>0, <1>1, PersistFrame DEF AnswerCached, Start, At
  <1>2. ASSUME NEW g \in Goroutine, ClearCacheHandler(g) PROVE PersistInv'
    BY <1>0, <1>2, PersistFrame DEF ClearCacheHandler, Start, At
  <1>3. ASSUME NEW g \in Goroutine, StoreCacheRecords(g) PROVE PersistInv'
    <2> USE DEF PersistInv, TypeInv, TypeOK
    <2>1. task'[g].pc = "signal" /\ task'[g].ch = gen
      BY <1>3 DEF StoreCacheRecords, Goes
    <2>2. OneWorker'
      BY <1>3, <2>1 DEF OneWorker, StoreCacheRecords, Goes, chans
    <2>3. Signalling'
      BY <2>1 DEF Signalling
    <2>4. WriterOK' /\ ExitOK'
      BY <1>3 DEF StoreCacheRecords, WriterOK, ExitOK, Readable, chans, Rows, Blank
    <2> QED
      BY <1>0, <2>2, <2>3, <2>4 DEF SnapshotOK, FileOK, Asked
  <1>4. ASSUME NEW g \in Goroutine, SignalPersist(g) PROVE PersistInv'
    <2> USE DEF PersistInv, TypeInv, TypeOK
    <2>1. task[g].ch = 1 /\ gen = 1
      BY <1>4 DEF SignalPersist, At, OneWorker
    <2>2. \/ closed[1] /\ dirty' = TRUE /\ UNCHANGED <<chans, panicked>>
          \/ Send(1) /\ UNCHANGED dirty
      BY <1>4, <2>1 DEF SignalPersist
    <2>3. Asked' /\ gen' = 1 /\ (\A w \in Chan \ {1} : sig'[w] = sig[w])
      BY <2>1, <2>2, SendAsks DEF Asked, chans
    <2>4. OneWorker'
      BY <1>4, <2>3 DEF OneWorker, SignalPersist, Finish, Idle
    <2>5. ExitOK'
      BY <1>4, <2>2, SendAsks DEF ExitOK, SignalPersist, At, Running, chans
    <2>6. WriterOK'
      BY <1>4 DEF WriterOK, SignalPersist, Readable, Rows, Blank, files
    <2> QED
      BY <1>0, <2>3, <2>4, <2>5, <2>6 DEF SnapshotOK, FileOK
  <1>5. ASSUME NEW g \in Goroutine, NEW expired \in SUBSET mem,
               CompactExpiredCacheRecords(g, expired)
        PROVE  PersistInv'
    <2> USE DEF PersistInv, TypeInv, TypeOK
    <2>1. Send(1) /\ Running
      BY <1>5 DEF CompactExpiredCacheRecords, OneWorker, Start, At
    <2>2. Asked'
      BY <2>1, SendAsks DEF Asked
    <2>3. OneWorker'
      BY <1>5, <2>1, SendAsks DEF OneWorker, CompactExpiredCacheRecords
    <2>4. ExitOK'
      BY <1>5, <2>1, SendAsks DEF ExitOK, CompactExpiredCacheRecords, Running
    <2>5. WriterOK'
      BY <1>5 DEF WriterOK, CompactExpiredCacheRecords, Readable, Rows, Blank
    <2> QED
      BY <1>0, <2>2, <2>3, <2>4, <2>5 DEF SnapshotOK, FileOK
  <1>6. ASSUME NEW g \in Goroutine,
               \/ \E k \in Key : RunCacheRemove(g, k)
               \/ RunCacheClear(g) \/ RunCacheLoad(g) \/ RunCacheSave(g) \/ Initialize(g)
        PROVE  FALSE
    BY ZenonT(30), <1>6 DEF Persisting, RunCacheRemove, RunCacheClear, RunCacheLoad, RunCacheSave,
       Initialize, Start
  <1>7. ASSUME NEW g \in Goroutine,
               UpdateCacheRecordsInMemory(g) \/ SaveOpens(g) \/ SaveWrites(g)
        PROVE  FALSE
    BY <1>7 DEF PersistInv, OneWorker, UpdateCacheRecordsInMemory, SaveOpens, SaveWrites, At
  <1>8. ASSUME NEW w \in Chan, WorkerStep(w) PROVE w = 1
    BY <1>8 DEF PersistInv, OneWorker, WorkerStep, WorkerReceives, WorkerSnapshots,
       WorkerOpens, WorkerWrites, WorkerExits, WorkerAt
  <1>9. ASSUME WorkerStep(1) PROVE PersistInv'
    <2> USE DEF PersistInv, TypeInv, TypeOK
    <2>0. /\ UNCHANGED <<mem, gen, closed, task, shutdown, panicked, ops, history>>
          /\ Running /\ 1 \in Chan
      BY <1>9, ChanHasOne DEF WorkerStep, WorkerReceives, WorkerSnapshots, WorkerOpens,
         WorkerWrites, WorkerExits, WorkerAt, files, chans
    <2>1. OneWorker'
      BY <1>9, <2>0 DEF OneWorker, WorkerStep, WorkerReceives, WorkerSnapshots, WorkerOpens,
         WorkerWrites, WorkerExits, WorkerGoes, chans
    <2>2. Signalling' <=> Signalling
      BY <2>0 DEF Signalling
    <2>3. CASE WorkerReceives(1)
      <3>1. worker'[1].pc = "snapshot" /\ UNCHANGED files
        BY <2>0, <2>3 DEF WorkerReceives, WorkerGoes
      <3>2. worker[1].pc = "wait"
        BY <2>3 DEF WorkerReceives, WorkerAt
      <3> QED
        BY <1>0, <2>0, <2>1, <3>1, <3>2 DEF SnapshotOK, FileOK, WriterOK, ExitOK, Running,
           files, Readable
    <2>4. CASE WorkerSnapshots(1)
      <3>1. worker'[1] = [pc |-> "open", rows |-> mem] /\ UNCHANGED <<files, chans>>
        BY <2>0, <2>4 DEF WorkerSnapshots
      <3>2. worker[1].pc = "snapshot"
        BY <2>4 DEF WorkerSnapshots, WorkerAt
      <3> QED
        BY <1>0, <2>0, <2>1, <3>1, <3>2 DEF SnapshotOK, FileOK, WriterOK, ExitOK, Running,
           files, Readable
    <2>5. CASE WorkerOpens(1)
      <3>1. /\ worker'[1].pc = "write" /\ worker'[1].rows = worker[1].rows
            /\ file' = Blank /\ UNCHANGED chans
        BY <2>0, <2>5 DEF WorkerOpens, WorkerGoes
      <3>2. worker[1].pc = "open"
        BY <2>5 DEF WorkerOpens, WorkerAt
      <3>3. SnapshotOK'
        BY ZenonT(30), <2>0, <2>2, <3>1, <3>2 DEF SnapshotOK, Asked, chans, history
      <3> QED
        BY <1>0, <2>0, <2>1, <3>1, <3>3 DEF FileOK, WriterOK, ExitOK, Running
    <2>6. CASE WorkerWrites(1)
      <3>1. worker'[1].pc = "wait" /\ UNCHANGED chans /\ file' = AfterWrite(worker[1].rows)
        BY <2>0, <2>6 DEF WorkerWrites, WorkerGoes
      <3>2. worker[1].pc = "write" /\ file = Blank
        BY <2>6 DEF WorkerWrites, WorkerAt, WriterOK
      <3>3. file' = File(worker[1].rows)
        BY ZenonT(30), <3>1, <3>2 DEF AfterWrite, Readable, Rows, Blank
      <3>4. FileOK'
        BY <2>0, <2>2, <3>1, <3>2, <3>3 DEF SnapshotOK, FileOK, Asked, chans, history, File
      <3>5. Readable'
        BY <3>3, <2>0 DEF Readable, File, Rows, Worker
      <3> QED
        BY ZenonT(30), <1>0, <2>0, <2>1, <3>1, <3>4, <3>5 DEF SnapshotOK, WriterOK, ExitOK, Running
    <2>7. CASE WorkerExits(1)
      <3>1. worker'[1].pc = "exited" /\ UNCHANGED <<files, chans>> /\ closed[1] /\ ~sig[1]
        BY <2>0, <2>7 DEF WorkerExits, WorkerGoes
      <3>2. worker[1].pc = "wait"
        BY <2>7 DEF WorkerExits, WorkerAt
      <3>3. FileOK'
        BY <2>0, <2>2, <3>1, <3>2 DEF FileOK, Asked, files, chans, history, File
      <3> QED
        BY <1>0, <2>0, <2>1, <3>1, <3>2, <3>3 DEF SnapshotOK, WriterOK, ExitOK, Running,
           files, chans, Readable
    <2> QED
      BY <1>9, <2>3, <2>4, <2>5, <2>6, <2>7 DEF WorkerStep
  <1>10. ASSUME Close \/ CloseReturns \/ UNCHANGED vars PROVE PersistInv'
    <2> USE DEF PersistInv, TypeInv, TypeOK
    <2>1. UNCHANGED <<files, gen, sig, worker, task, panicked, ops, history>>
      BY <1>10 DEF Close, CloseReturns, vars, files, chans, history
    <2>2. OneWorker' /\ WriterOK' /\ (Signalling' <=> Signalling)
      BY <2>1 DEF OneWorker, WriterOK, Signalling, Readable, files
    <2>3. SnapshotOK' /\ FileOK'
      BY <2>1, <2>2 DEF SnapshotOK, FileOK, Asked, files, history, File
    <2>4. ExitOK'
      BY <1>10, <2>1, ChanHasOne DEF ExitOK, Close, CloseReturns, Running, vars, chans
    <2> QED
      BY <1>0, <2>2, <2>3, <2>4
  <1> QED
    BY <1>1, <1>2, <1>3, <1>4, <1>5, <1>6, <1>7, <1>8, <1>9, <1>10 DEF Next, Continue

\* "Handlers only update memory and signal": with the operations that persist, a
\* change in memory is in the file or will be written, for any number of rows,
\* goroutines and operations.
THEOREM PersistPendingHolds ==
  ASSUME Persisting
  PROVE  Spec => []PersistPending
  <1>1. PersistInv => PersistPending
    BY ChanHasOne DEF PersistInv, FileOK, Asked, Signalling, PersistPending, Queued, Writing
  <1> QED
    BY <1>1, PersistInit, PersistNext, PTL DEF Spec

\* The worker being the only writer, its file parses whenever it is not writing.
THEOREM FileReadableHolds ==
  ASSUME Persisting
  PROVE  Spec => []FileReadable
  <1>1. PersistInv => FileReadable
    BY ChanHasOne DEF PersistInv, WriterOK, FileReadable, Writing
  <1> QED
    BY <1>1, PersistInit, PersistNext, PTL DEF Spec

\* Close returns only after the last signal was served, so the file is flushed.
THEOREM FlushedOnCloseHolds ==
  ASSUME Persisting
  PROVE  Spec => []FlushedOnClose
  <1>1. PersistInv => FlushedOnClose
    BY DEF PersistInv, FileOK, ExitOK, Asked, Signalling, FlushedOnClose
  <1> QED
    BY <1>1, PersistInit, PersistNext, PTL DEF Spec
=============================================================================
