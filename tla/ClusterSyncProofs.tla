------------------------- MODULE ClusterSyncProofs -------------------------
(***************************************************************************)
(* Theorems about ClusterSync that hold for every set of nodes, topology,  *)
(* policy and bound: type correctness, SeqIssued, PeerSeqMonotone and      *)
(* PrimaryWriterOnly.                                                      *)
(***************************************************************************)
EXTENDS ClusterSync, TLAPS

----------------------------------------------------------------------------
(* The values the actions put into a task are tasks.                       *)

\* An idle slot, and the task with an empty message, are well typed.
LEMMA IdleType ==
    ASSUME NEW n \in Node
    PROVE  /\ FirstRec(n) \in Rec
           /\ NoMsg(n) \in Msg
           /\ NoMsg(n).id = n /\ NoMsg(n).seq = 0 /\ NoMsg(n).rec = FirstRec(n)
           /\ FirstRec(n).org = n
           /\ Idle(n) \in Task
           /\ Idle(n).pc = "idle" /\ Idle(n).msg = NoMsg(n)
BY DEF FirstRec, NoMsg, Idle, Rec, Msg, Task, PC

\* So is the task of a goroutine that is about to read the records.
LEMMA CollectingType ==
    ASSUME NEW n \in Node, NEW q \in Nat, NEW d \in SUBSET Node, NEW b \in BOOLEAN
    PROVE  /\ Collecting(n, q, d, b) \in Task
           /\ Collecting(n, q, d, b).pc = "collect"
           /\ Collecting(n, q, d, b).msg.id = n
           /\ Collecting(n, q, d, b).msg.seq = q
           /\ Collecting(n, q, d, b).msg.rec = FirstRec(n)
BY ZenonT(30), IdleType DEF Collecting, NoMsg, FirstRec, Msg, Task, PC, Rec

\* The task of every slot but one is the same after a step.
OthersKept(n, s) ==
    \A k \in Node, r \in Slot : k # n \/ r # s => task'[k][r] = task[k][r]

\* A goroutine that begins touches its own slot only.
LEMMA BeginTask ==
    ASSUME TypeOK, NEW n \in Node, NEW s \in Slot, NEW t \in Task, Begin(n, s, t)
    PROVE  task' \in [Node -> [Slot -> Task]] /\ task'[n][s] = t /\ OthersKept(n, s)
BY DEF TypeOK, Begin, OthersKept

\* So does one that returns.
LEMMA FinishTask ==
    ASSUME TypeOK, NEW n \in Node, NEW s \in Slot, Finish(n, s)
    PROVE  task' \in [Node -> [Slot -> Task]] /\ task'[n][s] = Idle(n) /\ OthersKept(n, s)
BY IdleType DEF TypeOK, Finish, OthersKept

\* One that moves to its next step keeps its message.
LEMMA GotoTask ==
    ASSUME TypeOK, NEW n \in Node, NEW s \in Slot, NEW pc \in PC, Goto(n, s, pc)
    PROVE  /\ task' \in [Node -> [Slot -> Task]]
           /\ task'[n][s].pc = pc
           /\ task'[n][s].msg = task[n][s].msg
           /\ OthersKept(n, s)
<1> DEFINE t == [task[n][s] EXCEPT !.pc = pc]
<1>0. task[n][s] \in Task
  BY DEF TypeOK
<1>1. t \in Task /\ t.pc = pc /\ t.msg = task[n][s].msg
  BY <1>0 DEF Task
<1>2. task' = [task EXCEPT ![n][s] = t]
  BY DEF TypeOK, Goto
<1> HIDE DEF t
<1>3. task'[n][s] = t /\ task' \in [Node -> [Slot -> Task]] /\ OthersKept(n, s)
  BY <1>1, <1>2 DEF TypeOK, OthersKept
<1> QED
  BY <1>1, <1>3

----------------------------------------------------------------------------
(* Type correctness.                                                       *)

LEMMA InitType == Init => TypeOK
BY ClusterAssumption, IdleType DEF Init, TypeOK, NoStamp, Stamp

LEMMA NormSeqType == \A q \in Nat : NormSeq(q) \in Nat /\ NormSeq(q) >= q
BY DEF NormSeq

\* CommitPeerSeq writes a sequence number of the message and nothing else.
LEMMA CommitType ==
    ASSUME TypeOK, NEW n \in Node, NEW m \in Msg, CommitPeerSeq(n, m)
    PROVE  peerSeq' \in [Node -> [Node -> Nat]]
BY NormSeqType DEF TypeOK, CommitPeerSeq, Msg

LEMMA NotifiedType ==
    ASSUME TypeOK, NEW n \in Node, Notified(n)
    PROVE  pushes' \in [Node -> Nat]
BY DEF TypeOK, Notified

LEMMA TaskType ==
    ASSUME TypeOK, NEW n \in Node, NEW s \in Slot
    PROVE  /\ task[n][s] \in Task
           /\ task[n][s].msg \in Msg /\ task[n][s].dst \in SUBSET Node
           /\ task[n][s].msg.rec \in Rec
BY DEF TypeOK, Task, Msg

LEMMA StepType == TypeOK /\ [Next]_vars => TypeOK'
<1> SUFFICES ASSUME TypeOK, Next PROVE TypeOK'
  BY DEF TypeOK, vars
<1> USE ClusterAssumption
<1>1. ASSUME NEW n \in Node, NEW s \in Slot, UpdateRecords(n, s) PROVE TypeOK'
  <2>1. [org |-> n, ver |-> writes + 1] \in Rec
    BY DEF TypeOK, Rec
  <2>2. \A r \in Rec : [pc |-> "save", msg |-> [NoMsg(n) EXCEPT !.rec = r], dst |-> {}] \in Task
    BY IdleType DEF Task, Msg, PC
  <2>3. task' \in [Node -> [Slot -> Task]]
    BY <1>1, <2>1, <2>2, BeginTask DEF UpdateRecords
  <2>4. mem' \in [Node -> Rec] /\ writes' \in Nat
    BY <1>1, <2>1 DEF TypeOK, UpdateRecords
  <2> QED
    BY <1>1, <2>3, <2>4 DEF TypeOK, UpdateRecords, store, state, env
<1>2. ASSUME NEW n \in Node, NEW s \in Slot, SaveRecords(n, s) PROVE TypeOK'
  <2>1. task' \in [Node -> [Slot -> Task]]
    BY ZenonT(30), <1>2, GotoTask DEF SaveRecords, PC
  <2> QED
    BY ZenonT(30), <1>2, <2>1, TaskType DEF TypeOK, SaveRecords, store, state, env
<1>3. ASSUME NEW n \in Node, NEW s \in Slot, SaveRecordsFails(n, s) PROVE TypeOK'
  <2>1. task' \in [Node -> [Slot -> Task]]
    BY <1>3, FinishTask DEF SaveRecordsFails
  <2> QED
    BY <1>3, <2>1 DEF TypeOK, SaveRecordsFails, store, state, env
<1>4. ASSUME NEW n \in Node, NEW s \in Slot, NotifyLocalRecordsChanged(n, s) PROVE TypeOK'
  <2>1. task' \in [Node -> [Slot -> Task]]
    BY <1>4, FinishTask DEF NotifyLocalRecordsChanged
  <2> QED
    BY <1>4, <2>1, NotifiedType DEF TypeOK, NotifyLocalRecordsChanged, store, state, env
<1>5. ASSUME NEW n \in Node, NEW s \in Slot, PushToAllPeers(n, s) PROVE TypeOK'
  <2>1. localSeq[n] \in Nat /\ localSeq[n] + 1 \in Nat /\ Peers[n] \in SUBSET Node
    BY DEF TypeOK
  <2>2. task' \in [Node -> [Slot -> Task]]
    BY ZenonT(30), <1>5, <2>1, CollectingType, BeginTask DEF PushToAllPeers
  <2>3. pushes' \in [Node -> Nat]
    BY <1>5 DEF TypeOK, PushToAllPeers
  <2> QED
    BY <1>5, <2>1, <2>2, <2>3 DEF TypeOK, PushToAllPeers, store, state, env
<1>6. ASSUME NEW n \in Node, NEW s \in Slot, NEW p \in Node, PushRecordsToPeer(n, s, p) PROVE TypeOK'
  <2>1. localSeq[n] \in Nat /\ localSeq[n] + 1 \in Nat /\ {p} \in SUBSET Node
    BY DEF TypeOK
  <2>2. Collecting(n, localSeq[n] + 1, {p}, FALSE) \in Task
    BY ZenonT(30), <2>1, CollectingType
  <2>3. task' \in [Node -> [Slot -> Task]]
    BY ZenonT(30), <1>6, <2>2, BeginTask DEF PushRecordsToPeer
  <2> QED
    BY ZenonT(30), <1>6, <2>1, <2>3 DEF TypeOK, PushRecordsToPeer, store, state, env
<1>7. ASSUME NEW n \in Node, NEW s \in Slot, NEW p \in Node, SendCurrentSnapshot(n, s, p) PROVE TypeOK'
  <2>1. localSeq[n] \in Nat /\ localSeq[n] + 1 \in Nat /\ {p} \in SUBSET Node
    BY DEF TypeOK
  <2>2. Collecting(n, localSeq[n], {p}, TRUE) \in Task
    BY ZenonT(30), <2>1, CollectingType
  <2>3. task' \in [Node -> [Slot -> Task]]
    BY ZenonT(30), <1>7, <2>2, BeginTask DEF SendCurrentSnapshot
  <2> QED
    BY <1>7, <2>1, <2>3 DEF TypeOK, SendCurrentSnapshot, store, state, env
<1>8. ASSUME NEW n \in Node, NEW s \in Slot, SendRecords(n, s) PROVE TypeOK'
  <2>1. task' \in [Node -> [Slot -> Task]]
    BY ZenonT(30), <1>8, FinishTask DEF SendRecords
  <2>2. ASSUME NEW p \in task[n][s].dst
        PROVE  [to |-> p, id |-> n, seq |-> task[n][s].msg.seq, ts |-> now, rec |-> mem[n],
                pull |-> task[n][s].msg.pull] \in Msg
    <3>1. p \in Node /\ task[n][s].msg.seq \in Nat /\ task[n][s].msg.pull \in BOOLEAN
      BY TaskType DEF TypeOK, Msg
    <3> QED
      BY ZenonT(30), <3>1 DEF TypeOK, Msg
  <2>3. net' \in SUBSET Msg
    BY <1>8, <2>2 DEF TypeOK, SendRecords
  <2> QED
    BY <1>8, <2>1, <2>3 DEF TypeOK, SendRecords, store, state, env
<1>9. ASSUME NEW m \in net, LoseMessage(m) PROVE TypeOK'
  BY <1>9 DEF TypeOK, LoseMessage, store, state, env
<1>10. ASSUME NEW m \in net, NEW s \in Slot, ReceiveRecords(m, s) PROVE TypeOK'
  <2>1. m \in Msg /\ m.to \in Node
    BY DEF TypeOK, Msg
  <2>2. [pc |-> "judge", msg |-> m, dst |-> {}] \in Task
    BY <2>1 DEF Task, PC
  <2>3. task' \in [Node -> [Slot -> Task]]
    BY ZenonT(30), <1>10, <2>1, <2>2, BeginTask DEF TypeOK, ReceiveRecords
  <2> QED
    BY <1>10, <2>3 DEF TypeOK, ReceiveRecords, store, state, env
<1>11. ASSUME NEW n \in Node, NEW s \in Slot, JudgeRefuses(n, s) PROVE TypeOK'
  <2>1. task' \in [Node -> [Slot -> Task]]
    BY <1>11, FinishTask DEF JudgeRefuses
  <2> QED
    BY <1>11, <2>1, TaskType, CommitType DEF TypeOK, JudgeRefuses, store, state, env
<1>12. ASSUME NEW n \in Node, NEW s \in Slot, JudgeAccepts(n, s) PROVE TypeOK'
  <2>1. task' \in [Node -> [Slot -> Task]]
    BY ZenonT(30), <1>12, GotoTask DEF JudgeAccepts, PC
  <2> QED
    BY <1>12, <2>1 DEF TypeOK, JudgeAccepts, store, state, env
<1>13. ASSUME NEW n \in Node, NEW s \in Slot, ApplyClusterRecords(n, s) PROVE TypeOK'
  <2>1. task' \in [Node -> [Slot -> Task]]
    BY ZenonT(30), <1>13, GotoTask DEF ApplyClusterRecords, PC
  <2> QED
    BY ZenonT(30), <1>13, <2>1, TaskType DEF TypeOK, ApplyClusterRecords, store, state, env
<1>14. ASSUME NEW n \in Node, NEW s \in Slot, ApplySave(n, s) PROVE TypeOK'
  <2>1. task' \in [Node -> [Slot -> Task]]
    BY ZenonT(30), <1>14, GotoTask DEF ApplySave, PC
  <2> QED
    BY ZenonT(30), <1>14, <2>1, TaskType DEF TypeOK, ApplySave, store, state, env
<1>15. ASSUME NEW n \in Node, NEW s \in Slot, ApplySaveFails(n, s) PROVE TypeOK'
  <2>1. task' \in [Node -> [Slot -> Task]]
    BY ZenonT(30), <1>15, GotoTask DEF ApplySaveFails, PC
  <2> QED
    BY ZenonT(30), <1>15, <2>1 DEF TypeOK, ApplySaveFails, store, state, env
<1>16. ASSUME NEW n \in Node, NEW s \in Slot, ApplyNotify(n, s) PROVE TypeOK'
  <2>1. task' \in [Node -> [Slot -> Task]]
    BY ZenonT(30), <1>16, GotoTask DEF ApplyNotify, PC
  <2> QED
    BY ZenonT(30), <1>16, <2>1, NotifiedType DEF TypeOK, ApplyNotify, store, state, env
<1>17. ASSUME NEW n \in Node, NEW s \in Slot, CommitSeq(n, s) PROVE TypeOK'
  <2>1. task' \in [Node -> [Slot -> Task]]
    BY ZenonT(30), <1>17, FinishTask, GotoTask DEF CommitSeq, PC
  <2> QED
    BY ZenonT(30), <1>17, <2>1, TaskType, CommitType DEF TypeOK, CommitSeq, store, state, env
<1>18. ASSUME NEW n \in Node, NEW s \in Slot, CommitGlobalLWW(n, s) PROVE TypeOK'
  <2>1. task' \in [Node -> [Slot -> Task]]
    BY <1>18, FinishTask DEF CommitGlobalLWW
  <2>2. [ts |-> task[n][s].msg.ts, id |-> task[n][s].msg.id] \in Stamp
    BY ZenonT(30), TaskType DEF Msg, Stamp
  <2> QED
    BY ZenonT(30), <1>18, <2>1, <2>2 DEF TypeOK, CommitGlobalLWW, store, state, env
<1>19. ASSUME NEW n \in Node, CrashAndRestart(n) PROVE TypeOK'
  BY <1>19, IdleType DEF TypeOK, CrashAndRestart, store, state, env
<1>20. ASSUME Tick PROVE TypeOK'
  BY <1>20 DEF TypeOK, Tick, store, state, env
<1> QED
  BY <1>1, <1>2, <1>3, <1>4, <1>5, <1>6, <1>7, <1>8, <1>9, <1>10,
     <1>11, <1>12, <1>13, <1>14, <1>15, <1>16, <1>17, <1>18, <1>19, <1>20 DEF Next, LocalEdit, Apply

\* Every reachable state is well typed: memory and files hold record sets, the
\* sequence numbers and the count of waiting pushes never go below zero, and
\* what is under way on the network is a message between nodes.
THEOREM TypeCorrect == Spec => []TypeOK
BY InitType, StepType, PTL DEF Spec

----------------------------------------------------------------------------
(* SeqIssued.  By itself it is not inductive: a commit takes its sequence  *)
(* number from a message, so the messages under way and those already in   *)
(* the hands of a goroutine must carry issued numbers too, and a goroutine *)
(* about to send must do so in its own node's name.                        *)

SlotSeqOK(n, s) ==
    /\ task[n][s].msg.seq <= localSeq[task[n][s].msg.id]
    /\ At(n, s, "collect") => task[n][s].msg.id = n

NetSeqOK == \A m \in net : m.seq <= localSeq[m.id]

SeqInv ==
    /\ NetSeqOK
    /\ \A n \in Node, s \in Slot : SlotSeqOK(n, s)
    /\ SeqIssued

SeqGrows == \A n \in Node : localSeq'[n] >= localSeq[n]

LEMMA InitSeq == Init => SeqInv
BY IdleType DEF Init, SeqInv, NetSeqOK, SlotSeqOK, SeqIssued, NormSeq, At

\* Sequence numbers are only issued, never taken back; a restart reads them
\* from cluster_state.json.
LEMMA StepSeqGrows == TypeOK /\ [Next]_vars => SeqGrows
<1> SUFFICES ASSUME TypeOK, [Next]_vars PROVE SeqGrows
  OBVIOUS
<1>1. ASSUME NEW n \in Node, localSeq' = [localSeq EXCEPT ![n] = @ + 1] PROVE SeqGrows
  BY <1>1 DEF TypeOK, SeqGrows
<1>2. ASSUME localSeq' = localSeq PROVE SeqGrows
  BY <1>2 DEF TypeOK, SeqGrows
<1>3. ASSUME NEW n \in Node, NEW s \in Slot, LocalEdit(n, s) \/ Apply(n, s)
      PROVE  localSeq' = localSeq
  BY <1>3 DEF state, LocalEdit, SaveRecords, SaveRecordsFails, NotifyLocalRecordsChanged,
     Apply, JudgeRefuses, JudgeAccepts, ApplyClusterRecords, ApplySave, ApplySaveFails,
     ApplyNotify, CommitSeq, CommitGlobalLWW
<1>4. ASSUME NEW n \in Node, NEW s \in Slot, NEW p \in Node,
             PushToAllPeers(n, s) \/ PushRecordsToPeer(n, s, p)
      PROVE  localSeq' = [localSeq EXCEPT ![n] = @ + 1]
  BY ZenonT(30), <1>4 DEF PushToAllPeers, PushRecordsToPeer
<1>5. ASSUME NEW n, NEW s, NEW p,
             \/ UpdateRecords(n, s) \/ SendCurrentSnapshot(n, s, p) \/ SendRecords(n, s)
             \/ ReceiveRecords(n, s)
      PROVE  localSeq' = localSeq
  BY ZenonT(30), <1>5 DEF state, UpdateRecords, SendCurrentSnapshot, SendRecords, ReceiveRecords
<1>6. CASE (\E m \in net : LoseMessage(m)) \/ (\E n \in Node : CrashAndRestart(n)) \/ Tick
  BY <1>2, <1>6 DEF state, LoseMessage, CrashAndRestart, Tick
<1>7. CASE UNCHANGED vars
  BY <1>2, <1>7 DEF vars
<1>8. ASSUME NEW n \in Node PROVE Peers[n] \subseteq Node
  BY ClusterAssumption
<1> QED
  BY <1>1, <1>2, <1>3, <1>4, <1>5, <1>6, <1>7, <1>8 DEF Next

\* A number issued before a step is issued after it.
LEMMA StillIssued ==
    ASSUME TypeOK, TypeOK', SeqGrows, NEW q \in Nat, NEW p \in Node, q <= localSeq[p]
    PROVE  q <= localSeq'[p] /\ NormSeq(q) <= NormSeq(localSeq'[p])
BY DEF TypeOK, SeqGrows, NormSeq

LEMMA IssuedKept ==
    ASSUME TypeOK, TypeOK', SeqGrows, SeqIssued, peerSeq' = peerSeq
    PROVE  SeqIssued'
<1> SUFFICES ASSUME NEW n \in Node, NEW p \in Node
             PROVE  peerSeq[n][p] <= NormSeq(localSeq'[p])
  BY DEF SeqIssued
<1>1. peerSeq[n][p] \in Nat /\ localSeq[p] \in Nat /\ localSeq'[p] \in Nat
  BY DEF TypeOK
<1>2. peerSeq[n][p] <= NormSeq(localSeq[p]) /\ localSeq'[p] >= localSeq[p]
  BY DEF SeqIssued, SeqGrows
<1> QED
  BY <1>1, <1>2 DEF NormSeq

\* What a commit stores was issued, because the message carried it.
LEMMA CommitIssued ==
    ASSUME TypeOK, TypeOK', SeqGrows, SeqIssued, NEW n \in Node, NEW m \in Msg,
           m.seq <= localSeq[m.id], CommitPeerSeq(n, m)
    PROVE  SeqIssued'
<1>1. m.seq \in Nat /\ m.id \in Node
  BY DEF Msg
<1>2. NormSeq(m.seq) <= NormSeq(localSeq'[m.id])
  BY <1>1, StillIssued
<1>3. CASE peerSeq' = peerSeq
  BY <1>3, IssuedKept
<1>4. CASE peerSeq' = [peerSeq EXCEPT ![n][m.id] = NormSeq(m.seq)]
  <2> SUFFICES ASSUME NEW k \in Node, NEW p \in Node
               PROVE  peerSeq'[k][p] <= NormSeq(localSeq'[p])
    BY DEF SeqIssued
  <2>1. CASE k = n /\ p = m.id
    BY <1>1, <1>2, <1>4, <2>1 DEF TypeOK
  <2>2. CASE ~(k = n /\ p = m.id)
    <3>1. peerSeq'[k][p] = peerSeq[k][p]
      BY <1>1, <1>4, <2>2 DEF TypeOK
    <3>2. peerSeq[k][p] \in Nat /\ localSeq[p] \in Nat /\ localSeq'[p] \in Nat
      BY DEF TypeOK
    <3>3. peerSeq[k][p] <= NormSeq(localSeq[p]) /\ localSeq'[p] >= localSeq[p]
      BY DEF SeqIssued, SeqGrows
    <3> QED
      BY <3>1, <3>2, <3>3 DEF NormSeq
  <2> QED
    BY <2>1, <2>2
<1> QED
  BY <1>3, <1>4 DEF CommitPeerSeq

LEMMA SlotKept ==
    ASSUME TypeOK, TypeOK', SeqGrows, NEW n \in Node, NEW s \in Slot,
           SlotSeqOK(n, s), task'[n][s] = task[n][s]
    PROVE  SlotSeqOK(n, s)'
<1>1. task[n][s].msg.seq \in Nat /\ task[n][s].msg.id \in Node
  BY TaskType DEF Msg
<1> QED
  BY <1>1, StillIssued DEF SlotSeqOK, At

\* A step of one goroutine that sends nothing keeps SeqInv if its own slot and
\* the committed numbers are in order afterwards.
LEMMA SeqFrame ==
    ASSUME TypeOK, TypeOK', SeqInv, SeqGrows, NEW n \in Node, NEW s \in Slot,
           OthersKept(n, s), SlotSeqOK(n, s)', SeqIssued', net' \subseteq net
    PROVE  SeqInv'
<1>1. \A k \in Node, r \in Slot : SlotSeqOK(k, r)'
  BY SlotKept DEF SeqInv, OthersKept
<1>2. NetSeqOK'
  <2> SUFFICES ASSUME NEW m \in net' PROVE m.seq <= localSeq'[m.id]
    BY DEF NetSeqOK
  <2>1. m \in net /\ m.seq \in Nat /\ m.id \in Node
    BY DEF TypeOK, Msg
  <2> QED
    BY <2>1, StillIssued DEF SeqInv, NetSeqOK
<1> QED
  BY <1>1, <1>2 DEF SeqInv

\* A slot whose goroutine returned or never sent anything is in order.
LEMMA IdleSlot ==
    ASSUME TypeOK', NEW n \in Node, NEW s \in Slot, task'[n][s] = Idle(n)
    PROVE  SlotSeqOK(n, s)'
BY IdleType DEF TypeOK, SlotSeqOK, At

\* So is one that went on with the message it had.
LEMMA MovedSlot ==
    ASSUME TypeOK, TypeOK', SeqGrows, NEW n \in Node, NEW s \in Slot, SlotSeqOK(n, s),
           task'[n][s].msg = task[n][s].msg, task'[n][s].pc # "collect"
    PROVE  SlotSeqOK(n, s)'
<1>1. task[n][s].msg.seq \in Nat /\ task[n][s].msg.id \in Node
  BY TaskType DEF Msg
<1> QED
  BY <1>1, StillIssued DEF SlotSeqOK, At

LEMMA StepSeq == TypeOK /\ TypeOK' /\ SeqInv /\ [Next]_vars => SeqInv'
<1> SUFFICES ASSUME TypeOK, TypeOK', SeqInv, SeqGrows, Next PROVE SeqInv'
  <2>1. ASSUME SeqInv, UNCHANGED vars PROVE SeqInv'
    BY <2>1 DEF SeqInv, NetSeqOK, SlotSeqOK, SeqIssued, At, vars
  <2> QED
    BY <2>1, StepSeqGrows
<1> USE ClusterAssumption
<1>1. ASSUME NEW n \in Node, NEW s \in Slot, UpdateRecords(n, s) PROVE SeqInv'
  <2>1. [org |-> n, ver |-> writes + 1] \in Rec
    BY DEF TypeOK, Rec
  <2>2. \A r \in Rec : [pc |-> "save", msg |-> [NoMsg(n) EXCEPT !.rec = r], dst |-> {}] \in Task
    BY IdleType DEF Task, Msg, PC
  <2>3. PICK r \in Rec :
           /\ task'[n][s] = [pc |-> "save", msg |-> [NoMsg(n) EXCEPT !.rec = r], dst |-> {}]
           /\ OthersKept(n, s)
    BY ZenonT(30), <1>1, <2>1, <2>2, BeginTask DEF UpdateRecords
  <2>4. task'[n][s].msg.id = n /\ task'[n][s].msg.seq = 0
    BY <2>3, IdleType DEF Msg
  <2>5. localSeq'[n] \in Nat /\ task'[n][s].pc = "save"
    BY <2>3 DEF TypeOK
  <2>6. SlotSeqOK(n, s)'
    BY <2>4, <2>5 DEF SlotSeqOK, At
  <2> QED
    BY <1>1, <2>3, <2>6, SeqFrame, IssuedKept DEF SeqInv, UpdateRecords, state
<1>2. ASSUME NEW n \in Node, NEW s \in Slot, SaveRecords(n, s) PROVE SeqInv'
  <2>1. task'[n][s].msg = task[n][s].msg /\ task'[n][s].pc # "collect" /\ OthersKept(n, s)
    BY <1>2, GotoTask DEF SaveRecords, PC
  <2>2. SlotSeqOK(n, s)'
    BY ZenonT(30), <2>1, MovedSlot DEF SeqInv
  <2> QED
    BY <1>2, <2>1, <2>2, SeqFrame, IssuedKept DEF SeqInv, SaveRecords, state
<1>3. ASSUME NEW n \in Node, NEW s \in Slot, SaveRecordsFails(n, s) PROVE SeqInv'
  <2>1. task'[n][s] = Idle(n) /\ OthersKept(n, s)
    BY <1>3, FinishTask DEF SaveRecordsFails
  <2> QED
    BY <1>3, <2>1, IdleSlot, SeqFrame, IssuedKept DEF SeqInv, SaveRecordsFails, state
<1>4. ASSUME NEW n \in Node, NEW s \in Slot, NotifyLocalRecordsChanged(n, s) PROVE SeqInv'
  <2>1. task'[n][s] = Idle(n) /\ OthersKept(n, s)
    BY <1>4, FinishTask DEF NotifyLocalRecordsChanged
  <2> QED
    BY <1>4, <2>1, IdleSlot, SeqFrame, IssuedKept DEF SeqInv, NotifyLocalRecordsChanged, state
<1>5. ASSUME NEW n \in Node, NEW s \in Slot, PushToAllPeers(n, s) PROVE SeqInv'
  <2>1. localSeq[n] \in Nat /\ localSeq[n] + 1 \in Nat /\ Peers[n] \in SUBSET Node
    BY DEF TypeOK
  <2>2. Collecting(n, localSeq[n] + 1, Peers[n], FALSE) \in Task
    BY ZenonT(30), <2>1, CollectingType
  <2>3. task'[n][s] = Collecting(n, localSeq[n] + 1, Peers[n], FALSE) /\ OthersKept(n, s)
    BY ZenonT(30), <1>5, <2>2, BeginTask DEF PushToAllPeers
  <2>4. localSeq'[n] = localSeq[n] + 1 /\ peerSeq' = peerSeq /\ net' = net
    BY <1>5 DEF TypeOK, PushToAllPeers, state
  <2>5. task'[n][s].msg.id = n /\ task'[n][s].msg.seq = localSeq[n] + 1
    <3>1. /\ Collecting(n, localSeq[n] + 1, Peers[n], FALSE).msg.id = n
          /\ Collecting(n, localSeq[n] + 1, Peers[n], FALSE).msg.seq = localSeq[n] + 1
      BY ZenonT(30), <2>1, IdleType DEF Collecting, NoMsg, FirstRec
    <3> QED
      BY ZenonT(30), <2>3, <3>1
  <2>6. SlotSeqOK(n, s)'
    BY <2>1, <2>4, <2>5 DEF SlotSeqOK, At
  <2> QED
    BY <2>3, <2>4, <2>6, SeqFrame, IssuedKept DEF SeqInv
<1>6. ASSUME NEW n \in Node, NEW s \in Slot, NEW p \in Node, PushRecordsToPeer(n, s, p) PROVE SeqInv'
  <2>1. localSeq[n] \in Nat /\ localSeq[n] + 1 \in Nat /\ {p} \in SUBSET Node
    BY DEF TypeOK
  <2>2. Collecting(n, localSeq[n] + 1, {p}, FALSE) \in Task
    BY ZenonT(30), <2>1, CollectingType
  <2>3. task'[n][s] = Collecting(n, localSeq[n] + 1, {p}, FALSE) /\ OthersKept(n, s)
    BY ZenonT(30), <1>6, <2>2, BeginTask DEF PushRecordsToPeer
  <2>4. localSeq'[n] = localSeq[n] + 1 /\ peerSeq' = peerSeq /\ net' = net
    BY <1>6 DEF TypeOK, PushRecordsToPeer, state
  <2>5. task'[n][s].msg.id = n /\ task'[n][s].msg.seq = localSeq[n] + 1
    <3>1. /\ Collecting(n, localSeq[n] + 1, {p}, FALSE).msg.id = n
          /\ Collecting(n, localSeq[n] + 1, {p}, FALSE).msg.seq = localSeq[n] + 1
      BY ZenonT(30), <2>1, IdleType DEF Collecting, NoMsg, FirstRec
    <3> QED
      BY ZenonT(30), <2>3, <3>1
  <2>6. SlotSeqOK(n, s)'
    BY <2>1, <2>4, <2>5 DEF SlotSeqOK, At
  <2> QED
    BY <2>3, <2>4, <2>6, SeqFrame, IssuedKept DEF SeqInv
<1>7. ASSUME NEW n \in Node, NEW s \in Slot, NEW p \in Node, SendCurrentSnapshot(n, s, p) PROVE SeqInv'
  <2>1. localSeq[n] \in Nat /\ localSeq[n] + 1 \in Nat /\ {p} \in SUBSET Node
    BY DEF TypeOK
  <2>2. Collecting(n, localSeq[n], {p}, TRUE) \in Task
    BY ZenonT(30), <2>1, CollectingType
  <2>3. task'[n][s] = Collecting(n, localSeq[n], {p}, TRUE) /\ OthersKept(n, s)
    BY ZenonT(30), <1>7, <2>2, BeginTask DEF SendCurrentSnapshot
  <2>4. localSeq'[n] = localSeq[n] /\ peerSeq' = peerSeq /\ net' = net
    BY <1>7 DEF TypeOK, SendCurrentSnapshot, state
  <2>5. task'[n][s].msg.id = n /\ task'[n][s].msg.seq = localSeq[n]
    <3>1. /\ Collecting(n, localSeq[n], {p}, TRUE).msg.id = n
          /\ Collecting(n, localSeq[n], {p}, TRUE).msg.seq = localSeq[n]
      BY ZenonT(30), <2>1, IdleType DEF Collecting, NoMsg, FirstRec
    <3> QED
      BY ZenonT(30), <2>3, <3>1
  <2>6. SlotSeqOK(n, s)'
    BY <2>1, <2>4, <2>5 DEF SlotSeqOK, At
  <2> QED
    BY ZenonT(30), <2>3, <2>4, <2>6, SeqFrame, IssuedKept DEF SeqInv
<1>8. ASSUME NEW n \in Node, NEW s \in Slot, SendRecords(n, s) PROVE SeqInv'
  <2>1. task'[n][s] = Idle(n) /\ OthersKept(n, s) /\ localSeq' = localSeq /\ peerSeq' = peerSeq
    BY <1>8, FinishTask DEF SendRecords, state
  <2>2. \A k \in Node, r \in Slot : SlotSeqOK(k, r)'
    BY <2>1, IdleSlot, SlotKept DEF SeqInv, OthersKept
  <2>3. task[n][s].msg.seq <= localSeq[n]
    BY <1>8 DEF SeqInv, SlotSeqOK, SendRecords
  <2>4. \A m \in net' : m \in net \/ (m.id = n /\ m.seq = task[n][s].msg.seq)
    <3> SUFFICES ASSUME NEW m \in net', m \notin net PROVE m.id = n /\ m.seq = task[n][s].msg.seq
      OBVIOUS
    <3>1. PICK p \in task[n][s].dst :
             m = [to |-> p, id |-> n, seq |-> task[n][s].msg.seq, ts |-> now, rec |-> mem[n],
                  pull |-> task[n][s].msg.pull]
      BY <1>8 DEF SendRecords
    <3> QED
      BY <3>1
  <2>5. NetSeqOK'
    BY <2>1, <2>3, <2>4 DEF SeqInv, NetSeqOK
  <2> QED
    BY <2>1, <2>2, <2>5, IssuedKept DEF SeqInv
<1>9. ASSUME NEW m \in net, LoseMessage(m) PROVE SeqInv'
  <2>1. task' = task /\ localSeq' = localSeq /\ peerSeq' = peerSeq /\ net' \subseteq net
    BY <1>9 DEF LoseMessage, state
  <2>2. NetSeqOK'
    BY <2>1 DEF SeqInv, NetSeqOK
  <2> QED
    BY <2>1, <2>2, SlotKept, IssuedKept DEF SeqInv
<1>10. ASSUME NEW m \in net, NEW s \in Slot, ReceiveRecords(m, s) PROVE SeqInv'
  <2>1. m \in Msg /\ m.to \in Node /\ m.seq \in Nat /\ m.id \in Node
    BY DEF TypeOK, Msg
  <2>2. localSeq' = localSeq /\ peerSeq' = peerSeq /\ net' \subseteq net
    BY <1>10 DEF ReceiveRecords, state
  <2>3. [pc |-> "judge", msg |-> m, dst |-> {}] \in Task
    BY <2>1 DEF Task, PC
  <2>4. m.seq <= localSeq[m.id]
    BY DEF SeqInv, NetSeqOK
  <2>5. ASSUME task' = task PROVE SeqInv'
    BY ZenonT(30), <2>1, <2>2, <2>5, SlotKept, SeqFrame, IssuedKept DEF SeqInv, OthersKept
  <2>6. ASSUME Begin(m.to, s, [pc |-> "judge", msg |-> m, dst |-> {}]) PROVE SeqInv'
    <3> DEFINE t == [pc |-> "judge", msg |-> m, dst |-> {}]
    <3>0. t \in Task /\ Begin(m.to, s, t)
      BY <2>3, <2>6
    <3> HIDE DEF t
    <3>1. task'[m.to][s] = t /\ OthersKept(m.to, s)
      BY ZenonT(30), <2>1, <3>0, BeginTask
    <3>3. t.msg = m /\ t.pc # "collect"
      BY DEF t
    <3>2. SlotSeqOK(m.to, s)'
      BY <2>2, <2>4, <3>1, <3>3 DEF SlotSeqOK, At
    <3> QED
      BY ZenonT(30), <2>1, <2>2, <3>1, <3>2, SeqFrame, IssuedKept DEF SeqInv
  <2> QED
    BY <1>10, <2>5, <2>6 DEF ReceiveRecords
<1>11. ASSUME NEW n \in Node, NEW s \in Slot, JudgeRefuses(n, s) PROVE SeqInv'
  <2>1. task'[n][s] = Idle(n) /\ OthersKept(n, s)
    BY <1>11, FinishTask DEF JudgeRefuses
  <2>2. SeqIssued'
    BY <1>11, TaskType, CommitIssued DEF SeqInv, SlotSeqOK, JudgeRefuses
  <2> QED
    BY ZenonT(30), <1>11, <2>1, <2>2, IdleSlot, SeqFrame DEF JudgeRefuses
<1>12. ASSUME NEW n \in Node, NEW s \in Slot, JudgeAccepts(n, s) PROVE SeqInv'
  <2>1. task'[n][s].msg = task[n][s].msg /\ task'[n][s].pc # "collect" /\ OthersKept(n, s)
    BY <1>12, GotoTask DEF JudgeAccepts, PC
  <2>2. SlotSeqOK(n, s)'
    BY ZenonT(30), <2>1, MovedSlot DEF SeqInv
  <2> QED
    BY ZenonT(30), <1>12, <2>1, <2>2, SeqFrame, IssuedKept DEF SeqInv, JudgeAccepts, state
<1>13. ASSUME NEW n \in Node, NEW s \in Slot, ApplyClusterRecords(n, s) PROVE SeqInv'
  <2>1. task'[n][s].msg = task[n][s].msg /\ task'[n][s].pc # "collect" /\ OthersKept(n, s)
    BY ZenonT(30), <1>13, GotoTask DEF ApplyClusterRecords, PC
  <2>2. SlotSeqOK(n, s)'
    BY ZenonT(30), <2>1, MovedSlot DEF SeqInv
  <2> QED
    BY <1>13, <2>1, <2>2, SeqFrame, IssuedKept DEF SeqInv, ApplyClusterRecords, state
<1>14. ASSUME NEW n \in Node, NEW s \in Slot, ApplySave(n, s) PROVE SeqInv'
  <2>1. task'[n][s].msg = task[n][s].msg /\ task'[n][s].pc # "collect" /\ OthersKept(n, s)
    BY <1>14, GotoTask DEF ApplySave, PC
  <2>2. SlotSeqOK(n, s)'
    BY ZenonT(30), <2>1, MovedSlot DEF SeqInv
  <2> QED
    BY <1>14, <2>1, <2>2, SeqFrame, IssuedKept DEF SeqInv, ApplySave, state
<1>15. ASSUME NEW n \in Node, NEW s \in Slot, ApplySaveFails(n, s) PROVE SeqInv'
  <2>1. task'[n][s].msg = task[n][s].msg /\ task'[n][s].pc # "collect" /\ OthersKept(n, s)
    BY <1>15, GotoTask DEF ApplySaveFails, PC
  <2>2. SlotSeqOK(n, s)'
    BY ZenonT(30), <2>1, MovedSlot DEF SeqInv
  <2> QED
    BY <1>15, <2>1, <2>2, SeqFrame, IssuedKept DEF SeqInv, ApplySaveFails, state
<1>16. ASSUME NEW n \in Node, NEW s \in Slot, ApplyNotify(n, s) PROVE SeqInv'
  <2>1. task'[n][s].msg = task[n][s].msg /\ task'[n][s].pc # "collect" /\ OthersKept(n, s)
    BY <1>16, GotoTask DEF ApplyNotify, PC
  <2>2. SlotSeqOK(n, s)'
    BY ZenonT(30), <2>1, MovedSlot DEF SeqInv
  <2> QED
    BY <1>16, <2>1, <2>2, SeqFrame, IssuedKept DEF SeqInv, ApplyNotify, state
<1>17. ASSUME NEW n \in Node, NEW s \in Slot, CommitSeq(n, s) PROVE SeqInv'
  <2>1. OthersKept(n, s)
    BY <1>17, FinishTask, GotoTask DEF CommitSeq, PC
  <2>2. SlotSeqOK(n, s)'
    BY <1>17, FinishTask, GotoTask, IdleSlot, MovedSlot DEF SeqInv, CommitSeq, PC
  <2>3. SeqIssued'
    BY <1>17, TaskType, CommitIssued DEF SeqInv, SlotSeqOK, CommitSeq
  <2> QED
    BY <1>17, <2>1, <2>2, <2>3, SeqFrame DEF CommitSeq
<1>18. ASSUME NEW n \in Node, NEW s \in Slot, CommitGlobalLWW(n, s) PROVE SeqInv'
  <2>1. task'[n][s] = Idle(n) /\ OthersKept(n, s)
    BY <1>18, FinishTask DEF CommitGlobalLWW
  <2> QED
    BY ZenonT(30), <1>18, <2>1, IdleSlot, SeqFrame, IssuedKept DEF SeqInv, CommitGlobalLWW, state
<1>19. ASSUME NEW n \in Node, CrashAndRestart(n) PROVE SeqInv'
  <2>1. localSeq' = localSeq /\ peerSeq' = peerSeq /\ net' \subseteq net
    BY <1>19 DEF CrashAndRestart, state
  <2>2. \A k \in Node, r \in Slot : task'[k][r] = task[k][r] \/ task'[k][r] = Idle(k)
    BY <1>19 DEF TypeOK, CrashAndRestart
  <2>3. \A k \in Node, r \in Slot : SlotSeqOK(k, r)'
    BY ZenonT(30), <2>2, SlotKept, IdleSlot DEF SeqInv
  <2>4. NetSeqOK'
    BY <2>1 DEF SeqInv, NetSeqOK
  <2> QED
    BY <2>1, <2>3, <2>4, IssuedKept DEF SeqInv
<1>20. ASSUME Tick PROVE SeqInv'
  <2>1. task' = task /\ localSeq' = localSeq /\ peerSeq' = peerSeq /\ net' = net
    BY <1>20 DEF Tick, state
  <2>2. NetSeqOK'
    BY <2>1 DEF SeqInv, NetSeqOK
  <2> QED
    BY <2>1, <2>2, SlotKept, IssuedKept DEF SeqInv
<1> QED
  BY <1>1, <1>2, <1>3, <1>4, <1>5, <1>6, <1>7, <1>8, <1>9, <1>10,
     <1>11, <1>12, <1>13, <1>14, <1>15, <1>16, <1>17, <1>18, <1>19, <1>20 DEF Next, LocalEdit, Apply

\* No node ever marks a sequence number of a peer as seen that the peer has not
\* issued, whatever is lost, reordered or restarted.
THEOREM SeqIssuedHolds == Spec => []SeqIssued
<1>1. SeqInv => SeqIssued
  BY DEF SeqInv
<1> QED
  BY InitType, StepType, InitSeq, StepSeq, <1>1, PTL DEF Spec

\* However the handlers of a node interleave, its last seen sequence number of a
\* peer never goes back.
THEOREM PeerSeqMonotoneHolds == Spec => PeerSeqMonotone
<1>1. ASSUME TypeOK, [Next]_vars, NEW n \in Node, NEW p \in Node
      PROVE  peerSeq'[n][p] >= peerSeq[n][p]
  <2> DEFINE Moves == \/ peerSeq' = peerSeq
                   \/ \E k \in Node, r \in Slot : CommitPeerSeq(k, task[k][r].msg)
  <2>0. ASSUME NEW k \in Node, NEW r \in Slot, Apply(k, r) PROVE Moves
    BY ZenonT(30), <2>0 DEF state, Apply, JudgeRefuses, JudgeAccepts, ApplyClusterRecords, ApplySave,
       ApplySaveFails, ApplyNotify, CommitSeq, CommitGlobalLWW
  <2>a. ASSUME NEW k \in Node, NEW r \in Slot, NEW q, LocalEdit(k, r) \/ UpdateRecords(k, r)
             \/ PushToAllPeers(k, r) \/ PushRecordsToPeer(k, r, q)
        PROVE peerSeq' = peerSeq
    BY ZenonT(30), <2>a DEF state, LocalEdit, SaveRecords, SaveRecordsFails, NotifyLocalRecordsChanged,
       UpdateRecords, PushToAllPeers, PushRecordsToPeer
  <2>b. ASSUME NEW k, NEW r, NEW q, SendCurrentSnapshot(k, r, q) \/ SendRecords(k, r)
             \/ ReceiveRecords(k, r) \/ LoseMessage(k) \/ CrashAndRestart(k) \/ Tick
        PROVE peerSeq' = peerSeq
    BY ZenonT(30), <2>b DEF state, SendCurrentSnapshot, SendRecords, ReceiveRecords, LoseMessage,
       CrashAndRestart, Tick
  <2>c. ASSUME UNCHANGED vars PROVE peerSeq' = peerSeq
    BY <2>c DEF vars
  <2> HIDE DEF Moves
  <2>d. Moves
    <3>1. peerSeq' = peerSeq => Moves
      BY DEF Moves
    <3> QED
      BY ZenonT(30), <1>1, <2>0, <2>a, <2>b, <2>c, <3>1 DEF Next
  <2>1. \/ peerSeq' = peerSeq
        \/ \E k \in Node, r \in Slot : CommitPeerSeq(k, task[k][r].msg)
    BY <2>d DEF Moves
  <2>2. CASE peerSeq' = peerSeq
    BY <1>1, <2>2 DEF TypeOK
  <2>3. ASSUME NEW k \in Node, NEW m \in Msg, CommitPeerSeq(k, m)
        PROVE  peerSeq'[n][p] >= peerSeq[n][p]
    <3>1. m.seq \in Nat /\ m.id \in Node
      BY DEF Msg
    <3> QED
      BY <1>1, <2>3, <3>1, NormSeqType DEF TypeOK, CommitPeerSeq
  <2> QED
    BY <1>1, <2>1, <2>2, <2>3, TaskType
<1>2. TypeOK /\ [Next]_vars => [\A n, p \in Node : peerSeq'[n][p] >= peerSeq[n][p]]_peerSeq
  BY ZenonT(30), <1>1
<1> QED
  BY <1>2, TypeCorrect, PTL DEF Spec, PeerSeqMonotone

----------------------------------------------------------------------------
(* PrimaryWriterOnly.  A node applies what an allowed writer sends, so the *)
(* invariant must say that an allowed writer never sends records of a node *)
(* that is not allowed: what it has in memory, in its messages and in the  *)
(* hands of its goroutines comes from allowed writers only.  That is why   *)
(* the allowed writers have to be under primary_writer themselves.         *)

Honest(m) == m.id \in AllowedWriters => m.rec.org \in AllowedWriters

StoreAllowed ==
    \A n \in Primary : mem[n].org \in AllowedWriters \cup {n} /\ disk[n].org \in AllowedWriters \cup {n}

SlotAllowed(n, s) ==
    /\ Honest(task[n][s].msg)
    /\ At(n, s, "save") => task[n][s].msg.rec.org = n
    /\ n \in Primary /\ (At(n, s, "apply") \/ At(n, s, "applySave"))
          => task[n][s].msg.id \in AllowedWriters

PrimaryInv ==
    /\ StoreAllowed
    /\ \A m \in net : Honest(m)
    /\ \A n \in Node, s \in Slot : SlotAllowed(n, s)

LEMMA InitPrimary == Init => PrimaryInv
BY IdleType DEF Init, PrimaryInv, StoreAllowed, SlotAllowed, Honest, At, Primary

\* A step of one goroutine that sends nothing keeps PrimaryInv if its own slot
\* and the stores are in order afterwards.
LEMMA PrimaryFrame ==
    ASSUME PrimaryInv, NEW n \in Node, NEW s \in Slot,
           OthersKept(n, s), SlotAllowed(n, s)', StoreAllowed', net' \subseteq net
    PROVE  PrimaryInv'
<1>1. ASSUME NEW k \in Node, NEW r \in Slot PROVE SlotAllowed(k, r)'
  <2>1. CASE task'[k][r] = task[k][r]
    BY ZenonT(30), <2>1 DEF PrimaryInv, SlotAllowed, At
  <2> QED
    BY <2>1 DEF OthersKept
<1> QED
  BY <1>1 DEF PrimaryInv

LEMMA IdleAllowed ==
    ASSUME NEW n \in Node, NEW s \in Slot, task'[n][s] = Idle(n)
    PROVE  SlotAllowed(n, s)'
BY IdleType DEF SlotAllowed, Honest, At

LEMMA StoreKept == ASSUME PrimaryInv, mem' = mem, disk' = disk PROVE StoreAllowed'
BY ZenonT(30) DEF PrimaryInv, StoreAllowed

\* A node may store records of an allowed writer or of its own.
LEMMA MemSet ==
    ASSUME NEW n \in Node, NEW r, mem \in [Node -> Rec], PrimaryInv,
           mem' = [mem EXCEPT ![n] = r], disk' = disk,
           n \in Primary => r.org \in AllowedWriters \cup {n}
    PROVE  StoreAllowed'
BY DEF PrimaryInv, StoreAllowed, Primary

LEMMA DiskSet ==
    ASSUME NEW n \in Node, NEW r, disk \in [Node -> Rec], PrimaryInv,
           disk' = [disk EXCEPT ![n] = r], mem' = mem,
           n \in Primary => r.org \in AllowedWriters \cup {n}
    PROVE  StoreAllowed'
BY DEF PrimaryInv, StoreAllowed, Primary

LEMMA StutterPrimary ==
    ASSUME PrimaryInv, UNCHANGED <<mem, disk, task, net>>
    PROVE  PrimaryInv'
<1>1. \A n \in Node, s \in Slot : SlotAllowed(n, s)'
  BY DEF PrimaryInv, SlotAllowed, Honest, At
<1>2. \A m \in net' : Honest(m)'
  BY DEF PrimaryInv, Honest
<1> QED
  BY <1>1, <1>2, StoreKept DEF PrimaryInv

LEMMA StepPrimary ==
    ASSUME AllowedWriters \subseteq Primary
    PROVE  TypeOK /\ PrimaryInv /\ [Next]_vars => PrimaryInv'
<1> SUFFICES ASSUME TypeOK, PrimaryInv, Next PROVE PrimaryInv'
  BY StutterPrimary DEF vars
<1> USE ClusterAssumption
<1>1. ASSUME NEW n \in Node, NEW s \in Slot, UpdateRecords(n, s) PROVE PrimaryInv'
  <2>1. [org |-> n, ver |-> writes + 1] \in Rec
    BY DEF TypeOK, Rec
  <2>2. \A r \in Rec : [pc |-> "save", msg |-> [NoMsg(n) EXCEPT !.rec = r], dst |-> {}] \in Task
    BY IdleType DEF Task, Msg, PC
  <2>3. PICK r \in Rec : /\ r.org = n /\ mem' = [mem EXCEPT ![n] = r] /\ OthersKept(n, s)
                      /\ task'[n][s] = [pc |-> "save", msg |-> [NoMsg(n) EXCEPT !.rec = r], dst |-> {}]
    BY ZenonT(30), <1>1, <2>1, <2>2, BeginTask DEF UpdateRecords
  <2>4. SlotAllowed(n, s)'
    BY <2>3, IdleType DEF SlotAllowed, Honest, At, Msg
  <2>5. StoreAllowed'
    BY <1>1, <2>3 DEF TypeOK, PrimaryInv, StoreAllowed, UpdateRecords
  <2> QED
    BY <1>1, <2>3, <2>4, <2>5, PrimaryFrame DEF UpdateRecords
<1>2. ASSUME NEW n \in Node, NEW s \in Slot, SaveRecords(n, s) PROVE PrimaryInv'
  <2>1. task'[n][s].msg = task[n][s].msg /\ task'[n][s].pc = "notify" /\ OthersKept(n, s)
    BY <1>2, GotoTask DEF SaveRecords, PC
  <2>2. SlotAllowed(n, s)'
    BY <1>2, <2>1 DEF PrimaryInv, SlotAllowed, At
  <2>3. StoreAllowed'
    BY <1>2 DEF TypeOK, PrimaryInv, StoreAllowed, SlotAllowed, SaveRecords
  <2> QED
    BY <1>2, <2>1, <2>2, <2>3, PrimaryFrame DEF SaveRecords
<1>3. ASSUME NEW n \in Node, NEW s \in Slot, SaveRecordsFails(n, s) PROVE PrimaryInv'
  <2>1. task'[n][s] = Idle(n) /\ OthersKept(n, s)
    BY <1>3, FinishTask DEF SaveRecordsFails
  <2> QED
    BY <1>3, <2>1, IdleAllowed, StoreKept, PrimaryFrame DEF SaveRecordsFails, store
<1>4. ASSUME NEW n \in Node, NEW s \in Slot, NotifyLocalRecordsChanged(n, s) PROVE PrimaryInv'
  <2>1. task'[n][s] = Idle(n) /\ OthersKept(n, s)
    BY <1>4, FinishTask DEF NotifyLocalRecordsChanged
  <2> QED
    BY <1>4, <2>1, IdleAllowed, StoreKept, PrimaryFrame DEF NotifyLocalRecordsChanged, store
<1>5. ASSUME NEW n \in Node, NEW s \in Slot, PushToAllPeers(n, s) PROVE PrimaryInv'
  <2>1. localSeq[n] \in Nat /\ localSeq[n] + 1 \in Nat /\ Peers[n] \in SUBSET Node
    BY DEF TypeOK
  <2>2. Collecting(n, localSeq[n] + 1, Peers[n], FALSE) \in Task
    BY ZenonT(30), <2>1, CollectingType
  <2>3. task'[n][s] = Collecting(n, localSeq[n] + 1, Peers[n], FALSE) /\ OthersKept(n, s)
    BY ZenonT(30), <1>5, <2>2, BeginTask DEF PushToAllPeers
  <2>4. task'[n][s].msg.id = n /\ task'[n][s].msg.rec.org = n /\ task'[n][s].pc = "collect"
    <3> DEFINE c == Collecting(n, localSeq[n] + 1, Peers[n], FALSE)
    <3>1. c.msg.id = n /\ c.msg.rec.org = n /\ c.pc = "collect"
      BY ZenonT(30), <2>1, IdleType DEF Collecting, NoMsg, FirstRec
    <3> QED
      BY ZenonT(30), <2>3, <3>1
  <2>5. SlotAllowed(n, s)'
    BY <2>4 DEF SlotAllowed, Honest, At
  <2> QED
    BY <1>5, <2>3, <2>5, StoreKept, PrimaryFrame DEF PushToAllPeers, store
<1>6. ASSUME NEW n \in Node, NEW s \in Slot, NEW p \in Node, PushRecordsToPeer(n, s, p) PROVE PrimaryInv'
  <2>1. localSeq[n] \in Nat /\ localSeq[n] + 1 \in Nat /\ {p} \in SUBSET Node
    BY DEF TypeOK
  <2>2. Collecting(n, localSeq[n] + 1, {p}, FALSE) \in Task
    BY ZenonT(30), <2>1, CollectingType
  <2>3. task'[n][s] = Collecting(n, localSeq[n] + 1, {p}, FALSE) /\ OthersKept(n, s)
    BY ZenonT(30), <1>6, <2>2, BeginTask DEF PushRecordsToPeer
  <2>4. task'[n][s].msg.id = n /\ task'[n][s].msg.rec.org = n /\ task'[n][s].pc = "collect"
    <3> DEFINE c == Collecting(n, localSeq[n] + 1, {p}, FALSE)
    <3>1. c.msg.id = n /\ c.msg.rec.org = n /\ c.pc = "collect"
      BY ZenonT(30), <2>1, IdleType DEF Collecting, NoMsg, FirstRec
    <3> QED
      BY ZenonT(30), <2>3, <3>1
  <2>5. SlotAllowed(n, s)'
    BY <2>4 DEF SlotAllowed, Honest, At
  <2> QED
    BY <1>6, <2>3, <2>5, StoreKept, PrimaryFrame DEF PushRecordsToPeer, store
<1>7. ASSUME NEW n \in Node, NEW s \in Slot, NEW p \in Node, SendCurrentSnapshot(n, s, p)
      PROVE  PrimaryInv'
  <2>1. localSeq[n] \in Nat /\ localSeq[n] + 1 \in Nat /\ {p} \in SUBSET Node
    BY DEF TypeOK
  <2>2. Collecting(n, localSeq[n], {p}, TRUE) \in Task
    BY ZenonT(30), <2>1, CollectingType
  <2>3. task'[n][s] = Collecting(n, localSeq[n], {p}, TRUE) /\ OthersKept(n, s)
    BY ZenonT(30), <1>7, <2>2, BeginTask DEF SendCurrentSnapshot
  <2>4. task'[n][s].msg.id = n /\ task'[n][s].msg.rec.org = n /\ task'[n][s].pc = "collect"
    <3> DEFINE c == Collecting(n, localSeq[n], {p}, TRUE)
    <3>1. c.msg.id = n /\ c.msg.rec.org = n /\ c.pc = "collect"
      BY ZenonT(30), <2>1, IdleType DEF Collecting, NoMsg, FirstRec
    <3> QED
      BY ZenonT(30), <2>3, <3>1
  <2>5. SlotAllowed(n, s)'
    BY <2>4 DEF SlotAllowed, Honest, At
  <2> QED
    BY <1>7, <2>3, <2>5, StoreKept, PrimaryFrame DEF SendCurrentSnapshot, store
<1>8. ASSUME NEW n \in Node, NEW s \in Slot, SendRecords(n, s) PROVE PrimaryInv'
  <2>1. task'[n][s] = Idle(n) /\ OthersKept(n, s)
    BY ZenonT(30), <1>8, FinishTask DEF SendRecords
  <2>2. \A k \in Node, r \in Slot : SlotAllowed(k, r)'
    <3> SUFFICES ASSUME NEW k \in Node, NEW r \in Slot PROVE SlotAllowed(k, r)'
      OBVIOUS
    <3>1. CASE task'[k][r] = task[k][r]
      BY <3>1 DEF PrimaryInv, SlotAllowed, At
    <3> QED
      BY ZenonT(30), <2>1, <3>1, IdleAllowed DEF OthersKept
  <2>3. \A m \in net' : Honest(m)
    <3> SUFFICES ASSUME NEW m \in net', m \notin net PROVE Honest(m)
      BY DEF PrimaryInv
    <3>1. PICK p \in task[n][s].dst :
             m = [to |-> p, id |-> n, seq |-> task[n][s].msg.seq, ts |-> now, rec |-> mem[n],
                  pull |-> task[n][s].msg.pull]
      BY <1>8 DEF SendRecords
    <3>2. m.id = n /\ m.rec = mem[n]
      BY <3>1
    <3> QED
      BY <3>2 DEF PrimaryInv, StoreAllowed, Honest
  <2> QED
    BY ZenonT(30), <1>8, <2>2, <2>3, StoreKept DEF PrimaryInv, SendRecords, store
<1>9. ASSUME NEW m \in net, LoseMessage(m) PROVE PrimaryInv'
  BY <1>9 DEF PrimaryInv, StoreAllowed, SlotAllowed, At, LoseMessage, store
<1>10. ASSUME NEW m \in net, NEW s \in Slot, ReceiveRecords(m, s) PROVE PrimaryInv'
  <2>1. m \in Msg /\ m.to \in Node /\ Honest(m)
    BY DEF TypeOK, Msg, PrimaryInv
  <2>2. [pc |-> "judge", msg |-> m, dst |-> {}] \in Task
    BY <2>1 DEF Task, PC
  <2>3. StoreAllowed' /\ net' \subseteq net
    BY <1>10, StoreKept DEF ReceiveRecords, store
  <2>4. ASSUME task' = task PROVE PrimaryInv'
    BY <2>3, <2>4 DEF PrimaryInv, SlotAllowed, At
  <2>5. ASSUME Begin(m.to, s, [pc |-> "judge", msg |-> m, dst |-> {}]) PROVE PrimaryInv'
    <3> DEFINE t == [pc |-> "judge", msg |-> m, dst |-> {}]
    <3>0. t \in Task /\ Begin(m.to, s, t)
      BY ZenonT(30), <2>2, <2>5
    <3> HIDE DEF t
    <3>1. task'[m.to][s] = t /\ OthersKept(m.to, s)
      BY ZenonT(30), <2>1, <3>0, BeginTask
    <3>2. t.msg = m /\ t.pc = "judge"
      BY DEF t
    <3>3. SlotAllowed(m.to, s)'
      BY <2>1, <3>1, <3>2 DEF SlotAllowed, At
    <3> QED
      BY ZenonT(30), <2>1, <2>3, <3>1, <3>3, PrimaryFrame
  <2> QED
    BY ZenonT(30), <1>10, <2>4, <2>5 DEF ReceiveRecords
<1>11. ASSUME NEW n \in Node, NEW s \in Slot, JudgeRefuses(n, s) PROVE PrimaryInv'
  <2>1. task'[n][s] = Idle(n) /\ OthersKept(n, s)
    BY <1>11, FinishTask DEF JudgeRefuses
  <2> QED
    BY ZenonT(30), <1>11, <2>1, IdleAllowed, StoreKept, PrimaryFrame DEF JudgeRefuses, store
<1>12. ASSUME NEW n \in Node, NEW s \in Slot, JudgeAccepts(n, s) PROVE PrimaryInv'
  <2>1. task'[n][s].msg = task[n][s].msg /\ task'[n][s].pc = "apply" /\ OthersKept(n, s)
    BY <1>12, GotoTask DEF JudgeAccepts, PC
  <2>2. SlotAllowed(n, s)'
    BY <1>12, <2>1 DEF PrimaryInv, SlotAllowed, At, JudgeAccepts, ShouldApplySnapshot, Primary
  <2> QED
    BY ZenonT(30), <1>12, <2>1, <2>2, StoreKept, PrimaryFrame DEF JudgeAccepts, store
<1>13. ASSUME NEW n \in Node, NEW s \in Slot, ApplyClusterRecords(n, s) PROVE PrimaryInv'
  <2>1. task'[n][s].msg = task[n][s].msg /\ task'[n][s].pc = "applySave" /\ OthersKept(n, s)
    BY <1>13, GotoTask DEF ApplyClusterRecords, PC
  <2>2. SlotAllowed(n, s)'
    BY <1>13, <2>1 DEF PrimaryInv, SlotAllowed, At, ApplyClusterRecords
  <2>4. n \in Primary => task[n][s].msg.rec.org \in AllowedWriters
    BY ZenonT(30), <1>13 DEF PrimaryInv, SlotAllowed, Honest, At, ApplyClusterRecords
  <2>3. StoreAllowed'
    BY ZenonT(30), <1>13, <2>4, MemSet DEF TypeOK, ApplyClusterRecords
  <2> QED
    BY ZenonT(30), <1>13, <2>1, <2>2, <2>3, PrimaryFrame DEF ApplyClusterRecords
<1>14. ASSUME NEW n \in Node, NEW s \in Slot, ApplySave(n, s) PROVE PrimaryInv'
  <2>1. task'[n][s].msg = task[n][s].msg /\ task'[n][s].pc = "applyNotify" /\ OthersKept(n, s)
    BY <1>14, GotoTask DEF ApplySave, PC
  <2>2. SlotAllowed(n, s)'
    BY <1>14, <2>1 DEF PrimaryInv, SlotAllowed, At
  <2>4. n \in Primary => task[n][s].msg.rec.org \in AllowedWriters
    BY <1>14 DEF PrimaryInv, SlotAllowed, Honest, At, ApplySave
  <2>3. StoreAllowed'
    BY ZenonT(30), <1>14, <2>4, DiskSet DEF TypeOK, ApplySave
  <2> QED
    BY ZenonT(30), <1>14, <2>1, <2>2, <2>3, PrimaryFrame DEF ApplySave
<1>15. ASSUME NEW n \in Node, NEW s \in Slot, ApplySaveFails(n, s) PROVE PrimaryInv'
  <2>1. task'[n][s].msg = task[n][s].msg /\ task'[n][s].pc = "commit" /\ OthersKept(n, s)
    BY <1>15, GotoTask DEF ApplySaveFails, PC
  <2>2. SlotAllowed(n, s)'
    BY <1>15, <2>1 DEF PrimaryInv, SlotAllowed, At
  <2>3. StoreAllowed'
    BY ZenonT(30), <1>15 DEF PrimaryInv, StoreAllowed, ApplySaveFails
  <2> QED
    BY ZenonT(30), <1>15, <2>1, <2>2, <2>3, PrimaryFrame DEF ApplySaveFails
<1>16. ASSUME NEW n \in Node, NEW s \in Slot, ApplyNotify(n, s) PROVE PrimaryInv'
  <2>1. task'[n][s].msg = task[n][s].msg /\ task'[n][s].pc = "commit" /\ OthersKept(n, s)
    BY ZenonT(30), <1>16, GotoTask DEF ApplyNotify, PC
  <2>2. SlotAllowed(n, s)'
    BY <1>16, <2>1 DEF PrimaryInv, SlotAllowed, At
  <2>3. StoreAllowed'
    BY ZenonT(30), <1>16 DEF PrimaryInv, StoreAllowed, ApplyNotify
  <2> QED
    BY ZenonT(30), <1>16, <2>1, <2>2, <2>3, PrimaryFrame DEF ApplyNotify
<1>17. ASSUME NEW n \in Node, NEW s \in Slot, CommitSeq(n, s) PROVE PrimaryInv'
  <2>1. CASE Finish(n, s)
    <3>1. task'[n][s] = Idle(n) /\ OthersKept(n, s)
      BY <2>1, FinishTask
    <3> QED
      BY <1>17, <3>1, IdleAllowed, StoreKept, PrimaryFrame DEF CommitSeq, store
  <2>2. CASE Goto(n, s, "commitLWW")
    <3>1. task'[n][s].msg = task[n][s].msg /\ task'[n][s].pc = "commitLWW" /\ OthersKept(n, s)
      BY <2>2, GotoTask DEF PC
    <3>2. SlotAllowed(n, s)'
      BY ZenonT(30), <3>1 DEF PrimaryInv, SlotAllowed, At
    <3> QED
      BY <1>17, <3>1, <3>2, StoreKept, PrimaryFrame DEF CommitSeq, store
  <2> QED
    BY <1>17, <2>1, <2>2 DEF CommitSeq
<1>18. ASSUME NEW n \in Node, NEW s \in Slot, CommitGlobalLWW(n, s) PROVE PrimaryInv'
  <2>1. task'[n][s] = Idle(n) /\ OthersKept(n, s)
    BY <1>18, FinishTask DEF CommitGlobalLWW
  <2> QED
    BY ZenonT(30), <1>18, <2>1, IdleAllowed, StoreKept, PrimaryFrame DEF CommitGlobalLWW, store
<1>19. ASSUME NEW n \in Node, CrashAndRestart(n) PROVE PrimaryInv'
  <2>1. StoreAllowed' /\ net' \subseteq net
    BY <1>19 DEF TypeOK, PrimaryInv, StoreAllowed, CrashAndRestart
  <2>2. \A k \in Node, r \in Slot : task'[k][r] = task[k][r] \/ task'[k][r] = Idle(k)
    BY <1>19 DEF TypeOK, CrashAndRestart
  <2>3. \A k \in Node, r \in Slot : SlotAllowed(k, r)'
    <3> SUFFICES ASSUME NEW k \in Node, NEW r \in Slot PROVE SlotAllowed(k, r)'
      OBVIOUS
    <3>1. CASE task'[k][r] = task[k][r]
      BY ZenonT(30), <3>1 DEF PrimaryInv, SlotAllowed, At
    <3> QED
      BY ZenonT(30), <2>2, <3>1, IdleAllowed
  <2> QED
    BY <2>1, <2>3 DEF PrimaryInv
<1>20. ASSUME Tick PROVE PrimaryInv'
  BY ZenonT(30), <1>20 DEF PrimaryInv, StoreAllowed, SlotAllowed, At, Tick, store
<1> QED
  BY <1>1, <1>2, <1>3, <1>4, <1>5, <1>6, <1>7, <1>8, <1>9, <1>10,
     <1>11, <1>12, <1>13, <1>14, <1>15, <1>16, <1>17, <1>18, <1>19, <1>20 DEF Next, LocalEdit, Apply

\* Under primary_writer no node ever holds, in memory or in its file, records
\* edited anywhere but on an allowed writer or on itself, over any number of
\* relays, crashes and overlapping handlers.
THEOREM PrimaryWriterHolds == Spec => []PrimaryWriterOnly
<1>1. CASE ~(AllowedWriters \subseteq Primary)
  <2>1. PrimaryWriterOnly
    BY <1>1 DEF PrimaryWriterOnly
  <2> QED
    BY <2>1, PTL
<1>2. CASE AllowedWriters \subseteq Primary
  <2>1. TypeOK /\ PrimaryInv /\ [Next]_vars => PrimaryInv'
    BY <1>2, StepPrimary
  <2>2. PrimaryInv => PrimaryWriterOnly
    BY DEF PrimaryInv, StoreAllowed, PrimaryWriterOnly
  <2> QED
    BY <2>1, <2>2, InitPrimary, TypeCorrect, PTL DEF Spec
<1> QED
  BY <1>1, <1>2
=============================================================================
