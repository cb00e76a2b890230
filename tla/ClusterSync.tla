---------------------------- MODULE ClusterSync ----------------------------
(***************************************************************************)
(* Replication of the local DNS records between dnsplane nodes             *)
(* (cluster/cluster.go, cluster/state.go, cluster/policy.go and the record *)
(* store of data/data.go).                                                 *)
(*                                                                         *)
(* Every node keeps one full record set in memory and in its records file. *)
(* A local edit replaces both and starts a push goroutine, which takes the *)
(* next local sequence number and sends the records to every peer.  A pull *)
(* asks a peer for its records under its current sequence number.  Both    *)
(* arrive as a records_full message and go through the same steps: the     *)
(* duplicate test, the sync policy, the apply, the commit of the sequence. *)
(*                                                                         *)
(* No step holds a lock over more than one of these, so each is an action  *)
(* of its own.  A node runs its goroutines in slots; Slot bounds how many  *)
(* run at once.  A record set is named by the node that edited it and a    *)
(* global edit number, so that "older" and "newer" have a meaning; number  *)
(* 0 is the file a node starts with.                                       *)
(***************************************************************************)
EXTENDS Naturals, FiniteSets

CONSTANTS
    Node,           \* node ids; numbers, because global_lww orders them
    Slot,           \* goroutines that may run at once on one node
    Serial,         \* nodes on which no two goroutines happen to overlap
    Writer,         \* nodes that get local edits (not cluster_reject_local_writes)
    Peers,          \* [Node -> SUBSET Node]: cluster_peers merged with SRV targets
    Pulling,        \* nodes that pull from their peers (the ticker or ForcePull)
    Operator,       \* nodes where "cluster push records" is used
    ReplicaOnly,    \* nodes with cluster_replica_only
    Policy,         \* [Node -> Policies]: cluster_sync_policy
    AllowedWriters, \* cluster_allowed_writer_node_ids
    Crashing,       \* nodes that may crash and restart
    Lossy,          \* a dial or a write of a frame may fail
    SaveMayFail,    \* SaveDNSRecords may return an error
    MaxWrites,      \* bound: local edits in a behaviour
    MaxSeq,         \* bound: sequence numbers a node issues
    MaxNet,         \* bound: a snapshot is sent while fewer messages are under way
    MaxTime         \* bound: the clock

Policies == {"lww_per_node", "primary_writer", "global_lww"}

ASSUME ClusterAssumption ==
    /\ Node \subseteq Nat \ {0}
    /\ Serial \subseteq Node
    /\ Writer \subseteq Node
    /\ Operator \subseteq Node
    /\ Peers \in [Node -> SUBSET Node]
    /\ Pulling \subseteq Node
    /\ ReplicaOnly \subseteq Node
    /\ Policy \in [Node -> Policies]
    /\ AllowedWriters \subseteq Node
    /\ Crashing \subseteq Node
    /\ Lossy \in BOOLEAN
    /\ SaveMayFail \in BOOLEAN
    /\ MaxWrites \in Nat /\ MaxSeq \in Nat /\ MaxNet \in Nat /\ MaxTime \in Nat

VARIABLES
    mem,      \* DNSResolverData.DNSRecords
    disk,     \* the records file
    localSeq, \* stateManager.localSeq (memory and cluster_state.json)
    peerSeq,  \* stateManager.peerSeq (memory and cluster_state.json)
    lww,      \* stateManager.lastGlobalLWWUnix / lastGlobalLWWNodeID
    skip,     \* clusterSkipNotify
    pushes,   \* push goroutines started that have no sequence number yet
    task,     \* what each slot of each node is doing
    net,      \* records_full messages under way
    writes,   \* number of local edits so far, over all nodes
    now       \* the clock the nodes share

store == <<mem, disk, skip>>
state == <<localSeq, peerSeq, lww>>
env   == <<writes, now>>
vars  == <<mem, disk, localSeq, peerSeq, lww, skip, pushes, task, net, writes, now>>

Rec   == [org : Node, ver : Nat]
Stamp == [ts : Nat, id : Nat]
Msg   == [to : Node, id : Node, seq : Nat, ts : Nat, rec : Rec, pull : BOOLEAN]

\* Where a goroutine is: between which two steps of its function.
PC == {"idle",
       "save", "notify",                         \* UpdateRecords
       "collect",                                \* push, or answer to a pull
       "judge", "apply", "applySave", "applyNotify", "commit", "commitLWW"}

Task == [pc : PC, msg : Msg, dst : SUBSET Node]

FirstRec(n) == [org |-> n, ver |-> 0]
NoMsg(n)    == [to |-> n, id |-> n, seq |-> 0, ts |-> 0, rec |-> FirstRec(n),
                 pull |-> FALSE]
Idle(n)     == [pc |-> "idle", msg |-> NoMsg(n), dst |-> {}]
NoStamp     == [ts |-> 0, id |-> 0]

Init ==
    /\ mem = [n \in Node |-> FirstRec(n)]
    /\ disk = [n \in Node |-> FirstRec(n)]
    /\ localSeq = [n \in Node |-> 0]
    /\ peerSeq = [n \in Node |-> [m \in Node |-> 0]]
    /\ lww = [n \in Node |-> NoStamp]
    /\ skip = [n \in Node |-> FALSE]
    /\ pushes = [n \in Node |-> 0]
    /\ task = [n \in Node |-> [s \in Slot |-> Idle(n)]]
    /\ net = {}
    /\ writes = 0
    /\ now = 1

At(n, s, pc)    == task[n][s].pc = pc
Goto(n, s, pc)  == task' = [task EXCEPT ![n][s].pc = pc]
Finish(n, s)    == task' = [task EXCEPT ![n][s] = Idle(n)]
Free(n, s)      == /\ At(n, s, "idle")
                   /\ n \in Serial => \A r \in Slot : At(n, r, "idle")
Begin(n, s, t)  == Free(n, s) /\ task' = [task EXCEPT ![n][s] = t]

----------------------------------------------------------------------------
(* Sequence numbers and stamps (cluster/state.go).                         *)

\* Sequence 0, sent by a node that never pushed, counts as 1.
NormSeq(seq) == IF seq = 0 THEN 1 ELSE seq

\* Variant: the bound is off by one.
IsDuplicateOffByOne(n, m) == NormSeq(m.seq) <= peerSeq[n][m.id] + 1

IsDuplicate(n, m) == NormSeq(m.seq) <= peerSeq[n][m.id]

\* Variant: an older stamp of a greater node id wins.
AcceptByIdOnly(n, m) == lww[n] = NoStamp \/ m.id > lww[n].id

ShouldAcceptGlobalLWW(n, m) ==
    \/ lww[n] = NoStamp
    \/ m.ts > lww[n].ts
    \/ m.ts = lww[n].ts /\ m.id > lww[n].id

\* Variant: the allowlist is not consulted.
ApplyFromAnyone(n, m) == Policy[n] = "global_lww" => ShouldAcceptGlobalLWW(n, m)

ShouldApplySnapshot(n, m) ==
    /\ Policy[n] = "primary_writer" => m.id \in AllowedWriters
    /\ Policy[n] = "global_lww" => ShouldAcceptGlobalLWW(n, m)

\* Variant: the number is stored without comparing it.
CommitAnySeq(n, m) == peerSeq' = [peerSeq EXCEPT ![n][m.id] = NormSeq(m.seq)]

CommitPeerSeq(n, m) ==
    peerSeq' = IF NormSeq(m.seq) > peerSeq[n][m.id]
               THEN [peerSeq EXCEPT ![n][m.id] = NormSeq(m.seq)]
               ELSE peerSeq

----------------------------------------------------------------------------
(* A local edit: UpdateRecords and storeRecords with persist set.          *)

\* The records in memory are replaced under the lock.
UpdateRecords(n, s) ==
    /\ n \in Writer
    /\ writes < MaxWrites
    /\ LET r == [org |-> n, ver |-> writes + 1]
       IN  /\ mem' = [mem EXCEPT ![n] = r]
           /\ Begin(n, s, [pc |-> "save", msg |-> [NoMsg(n) EXCEPT !.rec = r], dst |-> {}])
    /\ writes' = writes + 1
    /\ UNCHANGED <<disk, skip, state, pushes, net, now>>

\* Variant: the edit is saved and nobody is told.
SaveWithoutNotify(n, s) ==
    /\ At(n, s, "save")
    /\ disk' = [disk EXCEPT ![n] = task[n][s].msg.rec]
    /\ Finish(n, s)
    /\ UNCHANGED <<mem, skip, state, pushes, net, env>>

\* The file is written outside the lock, so two edits may save in either order.
SaveRecords(n, s) ==
    /\ At(n, s, "save")
    /\ disk' = [disk EXCEPT ![n] = task[n][s].msg.rec]
    /\ Goto(n, s, "notify")
    /\ UNCHANGED <<mem, skip, state, pushes, net, env>>

\* A failed save is logged; there is no push and memory keeps the edit.
SaveRecordsFails(n, s) ==
    /\ SaveMayFail
    /\ At(n, s, "save")
    /\ Finish(n, s)
    /\ UNCHANGED <<store, state, pushes, net, env>>

\* NotifyLocalRecordsChanged starts a push unless there is nobody to push to.
NotifyStarts(n) == Peers[n] # {} /\ n \notin ReplicaOnly

Notified(n) ==
    pushes' = IF ~skip[n] /\ NotifyStarts(n)
              THEN [pushes EXCEPT ![n] = @ + 1]
              ELSE pushes

NotifyLocalRecordsChanged(n, s) ==
    /\ At(n, s, "notify")
    /\ Notified(n)
    /\ Finish(n, s)
    /\ UNCHANGED <<store, state, net, env>>

----------------------------------------------------------------------------
(* Sending a snapshot.                                                     *)

Collecting(n, seq, dst, pull) ==
    [pc |-> "collect", msg |-> [NoMsg(n) EXCEPT !.seq = seq, !.pull = pull], dst |-> dst]

\* Variant: a push that no edit asked for.
PushUnasked(n, s) ==
    /\ localSeq[n] < MaxSeq
    /\ pushes' = [pushes EXCEPT ![n] = @ - 1]
    /\ localSeq' = [localSeq EXCEPT ![n] = @ + 1]
    /\ Begin(n, s, Collecting(n, localSeq[n] + 1, Peers[n], FALSE))
    /\ UNCHANGED <<store, peerSeq, lww, net, env>>

\* pushToAllPeers takes the sequence number before it reads the records.
PushToAllPeers(n, s) ==
    /\ pushes[n] > 0
    /\ localSeq[n] < MaxSeq
    /\ pushes' = [pushes EXCEPT ![n] = @ - 1]
    /\ localSeq' = [localSeq EXCEPT ![n] = @ + 1]
    /\ Begin(n, s, Collecting(n, localSeq[n] + 1, Peers[n], FALSE))
    /\ UNCHANGED <<store, peerSeq, lww, net, env>>

\* PushRecordsToPeer, the operator's "cluster push records".
PushRecordsToPeer(n, s, p) ==
    /\ n \in Operator \ ReplicaOnly
    /\ localSeq[n] < MaxSeq
    /\ localSeq' = [localSeq EXCEPT ![n] = @ + 1]
    /\ Begin(n, s, Collecting(n, localSeq[n] + 1, {p}, FALSE))
    /\ UNCHANGED <<store, peerSeq, lww, pushes, net, env>>

\* Node p pulls from n: serveConn on n answers with sendCurrentSnapshot,
\* which reads the current sequence number and issues no new one.
SendCurrentSnapshot(n, s, p) ==
    /\ p \in Pulling /\ n \in Peers[p]
    /\ Begin(n, s, Collecting(n, localSeq[n], {p}, TRUE))
    /\ UNCHANGED <<store, state, pushes, net, env>>

\* GetRecords, the time stamp, and one frame per destination.
SendRecords(n, s) ==
    /\ At(n, s, "collect")
    /\ Cardinality(net) < MaxNet
    /\ net' = net \cup {[to |-> p, id |-> n, seq |-> task[n][s].msg.seq,
                         ts |-> now, rec |-> mem[n],
                         pull |-> task[n][s].msg.pull] : p \in task[n][s].dst}
    /\ Finish(n, s)
    /\ UNCHANGED <<store, state, pushes, env>>

\* A push or a pull that fails on the way is logged and not retried.
LoseMessage(m) ==
    /\ Lossy
    /\ net' = net \ {m}
    /\ UNCHANGED <<store, state, pushes, task, env>>

----------------------------------------------------------------------------
(* Receiving a snapshot: serveConn for a push, pullOnce for a pull.        *)

ReceiveRecords(m, s) ==
    /\ net' = net \ {m}
    /\ \/ /\ IsDuplicate(m.to, m)
          /\ Free(m.to, s)
          /\ UNCHANGED task
       \/ /\ ~IsDuplicate(m.to, m)
          /\ Begin(m.to, s, [pc |-> "judge", msg |-> m, dst |-> {}])
    /\ UNCHANGED <<store, state, pushes, env>>

\* A refused snapshot still advances the peer's sequence number.
JudgeRefuses(n, s) ==
    /\ At(n, s, "judge")
    /\ ~ShouldApplySnapshot(n, task[n][s].msg)
    /\ CommitPeerSeq(n, task[n][s].msg)
    /\ Finish(n, s)
    /\ UNCHANGED <<store, localSeq, lww, pushes, net, env>>

\* Variant: the sequence number is committed before the records are applied.
JudgeCommitsFirst(n, s) ==
    /\ At(n, s, "judge")
    /\ ShouldApplySnapshot(n, task[n][s].msg)
    /\ CommitPeerSeq(n, task[n][s].msg)
    /\ Goto(n, s, "apply")
    /\ UNCHANGED <<store, localSeq, lww, pushes, net, env>>

JudgeAccepts(n, s) ==
    /\ At(n, s, "judge")
    /\ ShouldApplySnapshot(n, task[n][s].msg)
    /\ Goto(n, s, "apply")
    /\ UNCHANGED <<store, state, pushes, net, env>>

\* Variant: the flag is not raised.
ApplyWithoutFlag(n, s) ==
    /\ At(n, s, "apply")
    /\ mem' = [mem EXCEPT ![n] = task[n][s].msg.rec]
    /\ Goto(n, s, "applySave")
    /\ UNCHANGED <<disk, skip, state, pushes, net, env>>

\* ApplyClusterRecords raises the flag, then storeRecords replaces memory ...
ApplyClusterRecords(n, s) ==
    /\ At(n, s, "apply")
    /\ skip' = [skip EXCEPT ![n] = TRUE]
    /\ mem' = [mem EXCEPT ![n] = task[n][s].msg.rec]
    /\ Goto(n, s, "applySave")
    /\ UNCHANGED <<disk, state, pushes, net, env>>

\* ... saves the file ...
ApplySave(n, s) ==
    /\ At(n, s, "applySave")
    /\ disk' = [disk EXCEPT ![n] = task[n][s].msg.rec]
    /\ Goto(n, s, "applyNotify")
    /\ UNCHANGED <<mem, skip, state, pushes, net, env>>

\* ... (an error is only logged: ApplyClusterRecords still reports success) ...
ApplySaveFails(n, s) ==
    /\ SaveMayFail
    /\ At(n, s, "applySave")
    /\ skip' = [skip EXCEPT ![n] = FALSE]
    /\ Goto(n, s, "commit")
    /\ UNCHANGED <<mem, disk, state, pushes, net, env>>

\* ... tests the flag, which another apply may have lowered, and lowers it.
ApplyNotify(n, s) ==
    /\ At(n, s, "applyNotify")
    /\ Notified(n)
    /\ skip' = [skip EXCEPT ![n] = FALSE]
    /\ Goto(n, s, "commit")
    /\ UNCHANGED <<mem, disk, state, net, env>>

CommitSeq(n, s) ==
    /\ At(n, s, "commit")
    /\ CommitPeerSeq(n, task[n][s].msg)
    /\ IF Policy[n] = "global_lww" THEN Goto(n, s, "commitLWW") ELSE Finish(n, s)
    /\ UNCHANGED <<store, localSeq, lww, pushes, net, env>>

\* commitGlobalLWW stores the stamp without comparing it again.
CommitGlobalLWW(n, s) ==
    /\ At(n, s, "commitLWW")
    /\ lww' = [lww EXCEPT ![n] = [ts |-> task[n][s].msg.ts, id |-> task[n][s].msg.id]]
    /\ Finish(n, s)
    /\ UNCHANGED <<store, localSeq, peerSeq, pushes, net, env>>

----------------------------------------------------------------------------
(* Faults and time.                                                        *)

\* Variant: the local sequence number is not kept on disk.
RestartForgetsSeq(n) ==
    /\ n \in Crashing
    /\ mem' = [mem EXCEPT ![n] = disk[n]]
    /\ localSeq' = [localSeq EXCEPT ![n] = 0]
    /\ skip' = [skip EXCEPT ![n] = FALSE]
    /\ pushes' = [pushes EXCEPT ![n] = 0]
    /\ task' = [task EXCEPT ![n] = [s \in Slot |-> Idle(n)]]
    /\ UNCHANGED <<disk, peerSeq, lww, net, env>>

\* The process dies between two file writes: goroutines and memory are lost; the
\* records file and cluster_state.json are read back (Initialize, load).  Its
\* pulls break off, and so may the pushes and answers it was sending.
CrashAndRestart(n) ==
    /\ n \in Crashing
    /\ mem' = [mem EXCEPT ![n] = disk[n]]
    /\ skip' = [skip EXCEPT ![n] = FALSE]
    /\ pushes' = [pushes EXCEPT ![n] = 0]
    /\ task' = [task EXCEPT ![n] = [s \in Slot |-> Idle(n)]]
    /\ \E lost \in SUBSET {m \in net : m.id = n} :
          net' = {m \in net \ lost : ~(m.pull /\ m.to = n)}
    /\ UNCHANGED <<disk, state, env>>

Tick ==
    /\ now < MaxTime
    /\ now' = now + 1
    /\ UNCHANGED <<store, state, pushes, task, net, writes>>

----------------------------------------------------------------------------

LocalEdit(n, s) ==
    \/ SaveRecords(n, s)
    \/ SaveRecordsFails(n, s)
    \/ NotifyLocalRecordsChanged(n, s)

Apply(n, s) ==
    \/ JudgeRefuses(n, s)
    \/ JudgeAccepts(n, s)
    \/ ApplyClusterRecords(n, s)
    \/ ApplySave(n, s)
    \/ ApplySaveFails(n, s)
    \/ ApplyNotify(n, s)
    \/ CommitSeq(n, s)
    \/ CommitGlobalLWW(n, s)

Next ==
    \/ \E n \in Node, s \in Slot :
          \/ UpdateRecords(n, s)
          \/ LocalEdit(n, s)
          \/ PushToAllPeers(n, s)
          \/ \E p \in Peers[n] : PushRecordsToPeer(n, s, p)
          \/ \E p \in Node : SendCurrentSnapshot(n, s, p)
          \/ SendRecords(n, s)
          \/ Apply(n, s)
    \/ \E m \in net, s \in Slot : ReceiveRecords(m, s)
    \/ \E m \in net : LoseMessage(m)
    \/ \E n \in Node : CrashAndRestart(n)
    \/ Tick

Spec == Init /\ [][Next]_vars

(***************************************************************************)
(* Fairness: the Go scheduler runs every goroutine that is ready, and a    *)
(* connection that is up delivers its frames.  Edits, operator pushes,     *)
(* losses and crashes are never forced.  The pull ticker is: PullFromPeers *)
(* runs at every interval.                                                 *)
(***************************************************************************)
Fairness ==
    /\ \A n \in Node, s \in Slot : WF_vars(LocalEdit(n, s) \/ SendRecords(n, s) \/ Apply(n, s))
    /\ \A n \in Node : WF_vars(\E s \in Slot : PushToAllPeers(n, s))
    /\ \A n \in Node : WF_vars(\E m \in net, s \in Slot : m.to = n /\ ReceiveRecords(m, s))
    /\ \A n, p \in Node : WF_vars(\E s \in Slot : SendCurrentSnapshot(n, s, p))

FairSpec == Spec /\ Fairness

----------------------------------------------------------------------------
(* Properties.                                                             *)

TypeOK ==
    /\ mem \in [Node -> Rec]
    /\ disk \in [Node -> Rec]
    /\ localSeq \in [Node -> Nat]
    /\ peerSeq \in [Node -> [Node -> Nat]]
    /\ lww \in [Node -> Stamp]
    /\ skip \in [Node -> BOOLEAN]
    /\ pushes \in [Node -> Nat]
    /\ task \in [Node -> [Slot -> Task]]
    /\ net \in SUBSET Msg
    /\ writes \in Nat
    /\ now \in Nat

Quiet(n) == pushes[n] = 0 /\ \A s \in Slot : At(n, s, "idle")
Settled  == net = {} /\ \A n \in Node : Quiet(n)

\* A node never marks a sequence number as seen that its peer has not issued,
\* through losses, reordering and restarts: otherwise that peer's next push
\* would be dropped by IsDuplicate.  (Sequence 0 counts as 1.)
SeqIssued == \A n, p \in Node : peerSeq[n][p] <= NormSeq(localSeq[p])

\* Handlers that overlap on one node never move a peer's last seen sequence
\* number back, so a snapshot already replaced is not accepted again.
PeerSeqMonotone ==
    [][\A n, p \in Node : peerSeq'[n][p] >= peerSeq[n][p]]_peerSeq

Primary == {n \in Node : Policy[n] = "primary_writer"}

\* A node under primary_writer serves only records edited on an allowed writer or
\* on the node itself, whatever route they took to get there, if the allowed
\* writers are under primary_writer too.
PrimaryWriterOnly ==
    AllowedWriters \subseteq Primary =>
        \A n \in Primary : {mem[n].org, disk[n].org} \subseteq AllowedWriters \cup {n}

\* With one writer: once the writer is at rest and a peer has committed the
\* writer's last sequence number, the peer's file holds the writer's records,
\* even if the peer crashed in the middle of an apply (save before commit).
\* The first sequence number is left out: see FirstPushArrives.
AckedIsDurable ==
    \A w, n \in Node :
        /\ Writer = {w}
        /\ Quiet(w)
        /\ localSeq[w] >= 2
        /\ peerSeq[n][w] = localSeq[w]
        => disk[n] = mem[w]

\* The same for the first push: "IsDuplicate returns true if this peer seq was
\* already applied", so committing sequence 1 means holding its records.
FirstPushArrives ==
    \A w, n \in Node :
        /\ Writer = {w}
        /\ Quiet(w)
        /\ localSeq[w] = 1
        /\ peerSeq[n][w] = 1
        => disk[n] = mem[w]

\* clusterSkipNotify "avoids push loops": a node that is not edited, and from
\* which no operator pushes, never issues a sequence number.
NoPushLoop ==
    \A n \in Node \ (Writer \cup Operator) : localSeq[n] = 0

\* At rest, a node whose records are its own edit has pushed since it started.
EditIsPushed ==
    \A n \in Node :
        Settled /\ mem[n].org = n /\ mem[n].ver > 0 /\ NotifyStarts(n) => localSeq[n] > 0

StampLE(a, b) == a.ts < b.ts \/ (a.ts = b.ts /\ a.id <= b.id)

\* Under global_lww the winning stamp a node remembers never gets older, across
\* restarts too.
WinnerNeverOlder ==
    [][\A n \in Node : StampLE(lww[n], lww'[n])]_lww

\* Once the edits stop, every node ends up with the records of the writer.
EditsReachPeers ==
    <>[](writes > 0 => \A n, p \in Node : mem[n] = mem[p])
=============================================================================
