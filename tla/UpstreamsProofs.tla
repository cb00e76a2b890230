-------------------------- MODULE UpstreamsProofs --------------------------
(***************************************************************************)
(* Proofs about Upstreams, for any server lists, thresholds and number of  *)
(* editors (one, where it is said): when a server is excluded, and when    *)
(* dnsservers.json has the servers in use.                                 *)
(***************************************************************************)
EXTENDS Upstreams, TLAPS

(***************************************************************************)
(* The failure counter of the tracker is the streak, although probes and   *)
(* forwarded answers change it from different goroutines.                  *)
(***************************************************************************)
HealthTypes ==
    /\ health \in [Endpoint -> [failures : 0 .. MaxFailures, unhealthy : BOOLEAN]]
    /\ streak \in [Endpoint -> 0 .. MaxFailures]

CountIsStreak ==
    \A e \in Endpoint :
        /\ health[e].failures = streak[e]
        /\ health[e].unhealthy => streak[e] >= Threshold

HealthInv == HealthTypes /\ CountIsStreak

\* An answer, to a probe or to a query, clears both.
LEMMA SuccessKeepsInv ==
  ASSUME HealthInv, NEW e, health' = RecordForwardSuccess(e), streak' = [streak EXCEPT ![e] = 0]
  PROVE  HealthInv'
  <1>1. Healthy \in [failures : 0 .. MaxFailures, unhealthy : BOOLEAN]
    BY UpstreamsAssumption DEF Healthy
  <1>2. HealthTypes'
    <2>1. health' \in [Endpoint -> [failures : 0 .. MaxFailures, unhealthy : BOOLEAN]]
      BY ZenonT(30), <1>1 DEF HealthInv, HealthTypes, RecordForwardSuccess
    <2>2. streak' \in [Endpoint -> 0 .. MaxFailures]
      <3>1. 0 \in 0 .. MaxFailures
        BY UpstreamsAssumption
      <3> QED
        BY <3>1, Zenon DEF HealthInv, HealthTypes
    <2> QED
      BY <2>1, <2>2 DEF HealthTypes
  <1>3. CountIsStreak'
    <2> SUFFICES ASSUME NEW f \in Endpoint
                 PROVE  /\ health'[f].failures = streak'[f]
                        /\ health'[f].unhealthy => streak'[f] >= Threshold
      BY DEF CountIsStreak
    <2>1. CASE f = e
      BY <2>1 DEF HealthInv, HealthTypes, RecordForwardSuccess, Healthy
    <2>2. CASE f # e
      BY <2>2 DEF HealthInv, HealthTypes, CountIsStreak, RecordForwardSuccess
    <2> QED
      BY <2>1, <2>2
  <1> QED
    BY <1>2, <1>3 DEF HealthInv

\* A failed probe adds one to both, and only the threshold sets the mark.
LEMMA FailureKeepsInv ==
  ASSUME HealthInv, NEW e, health' = ProbeFail(e),
         streak' = [streak EXCEPT ![e] = IF @ < MaxFailures THEN @ + 1 ELSE @]
  PROVE  HealthInv'
  <1> DEFINE n == IF health[e].failures < MaxFailures THEN health[e].failures + 1
                                                      ELSE health[e].failures
             r == [failures |-> n, unhealthy |-> health[e].unhealthy \/ n >= Threshold]
  <1>1. health' = [health EXCEPT ![e] = r]
    BY DEF ProbeFail
  <1>2. CASE e \in Endpoint
    <2>1. health[e] \in [failures : 0 .. MaxFailures, unhealthy : BOOLEAN] /\ streak[e] \in 0 .. MaxFailures
      BY <1>2 DEF HealthInv, HealthTypes
    <2>2. n \in 0 .. MaxFailures /\ n >= streak[e]
      BY <1>2, <2>1, UpstreamsAssumption DEF HealthInv, CountIsStreak
    <2>3. r \in [failures : 0 .. MaxFailures, unhealthy : BOOLEAN]
      BY <2>1, <2>2
    <2>4. streak'[e] = n /\ streak' \in [Endpoint -> 0 .. MaxFailures]
      BY <1>2, <2>1, <2>2 DEF HealthInv, HealthTypes, CountIsStreak
    <2>5. HealthTypes'
      <3> HIDE DEF r
      <3> QED
        BY <1>1, <2>3, <2>4 DEF HealthInv, HealthTypes
    <2>6. r.failures = n /\ (r.unhealthy => n >= Threshold)
      BY <1>2, <2>1, <2>2, UpstreamsAssumption DEF HealthInv, CountIsStreak
    <2>7. health'[e] = r /\ \A f \in Endpoint \ {e} : health'[f] = health[f] /\ streak'[f] = streak[f]
      <3> HIDE DEF r
      <3> QED
        BY <1>1, <1>2 DEF HealthInv, HealthTypes
    <2>8. CountIsStreak'
      <3> HIDE DEF r, n
      <3> QED
        BY <2>4, <2>6, <2>7 DEF HealthInv, CountIsStreak
    <2> QED
      BY <2>5, <2>8 DEF HealthInv
  <1>3. CASE e \notin Endpoint
    <2>1. health' = health /\ streak' = streak
      BY <1>1, <1>3 DEF HealthInv, HealthTypes
    <2> QED
      BY ZenonT(30), <2>1 DEF HealthInv, HealthTypes, CountIsStreak
  <1> QED
    BY <1>2, <1>3

LEMMA StepHealth == HealthInv /\ [Next]_vars => HealthInv'
  <1> SUFFICES ASSUME HealthInv, [Next]_vars PROVE HealthInv'
    OBVIOUS
  <1>1. ASSUME UNCHANGED <<health, streak>>
        PROVE  HealthInv'
    BY <1>1 DEF HealthInv, HealthTypes, CountIsStreak
  <1>2. CASE ApplyUpstreamProbeResult
    <2> DEFINE p == Head(probe)
    <2>1. CASE p.ok
      <3>1. health' = RecordForwardSuccess(p.ep) /\ streak' = [streak EXCEPT ![p.ep] = 0]
        BY <1>2, <2>1 DEF ApplyUpstreamProbeResult
      <3> QED
        BY ZenonT(30), <3>1, SuccessKeepsInv
    <2>2. CASE ~p.ok
      <3>1. /\ health' = ProbeFail(p.ep)
            /\ streak' = [streak EXCEPT ![p.ep] = IF @ < MaxFailures THEN @ + 1 ELSE @]
        BY <1>2, <2>2 DEF ApplyUpstreamProbeResult
      <3> QED
        BY ZenonT(30), <3>1, FailureKeepsInv
    <2> QED
      BY <2>1, <2>2
  <1>3. CASE ForwardSuccess
    <2>1. PICK e : health' = RecordForwardSuccess(e) /\ streak' = [streak EXCEPT ![e] = 0]
      BY ZenonT(30), <1>3 DEF ForwardSuccess
    <2> QED
      BY ZenonT(30), <2>1, SuccessKeepsInv
  <1>4. CASE StartRound \/ ProbeNext \/ SelectServers
    BY <1>1, <1>4 DEF StartRound, ProbeNext, SelectServers
  <1>5. ASSUME NEW g \in Editor, BeginEdit(g) \/ UpdateServers(g) \/ SaveDNSServers(g)
        PROVE  HealthInv'
    BY <1>1, <1>5 DEF BeginEdit, UpdateServers, SaveDNSServers
  <1>6. ASSUME NEW e \in Endpoint, ServerFails(e) \/ ServerRecovers(e)
        PROVE  HealthInv'
    BY <1>1, <1>6 DEF ServerFails, ServerRecovers
  <1>7. CASE UNCHANGED vars
    BY <1>1, <1>7 DEF vars
  <1> QED
    BY <1>2, <1>3, <1>4, <1>5, <1>6, <1>7 DEF Next

\* A server is left out only after `Threshold' failed probes in a row, with any number of
\* servers, editors and queries around the probe loop.
THEOREM ExcludedAfterStreakHolds == Spec => []ExcludedAfterStreak
  <1>1. Init => HealthInv
    BY UpstreamsAssumption DEF Init, HealthInv, HealthTypes, CountIsStreak, Healthy
  <1>2. HealthInv => ExcludedAfterStreak
    BY ZenonT(30) DEF HealthInv, CountIsStreak, ExcludedAfterStreak, Unhealthy
  <1> QED
    BY <1>1, <1>2, StepHealth, PTL DEF Spec

----------------------------------------------------------------------------
(* The list in memory and the file, with one editor at a time.             *)

EditShape == edit = [g \in Editor |-> [pc |-> edit[g].pc, list |-> edit[g].list]]
FileInv(g) ==
    /\ EditShape
    /\ IF edit[g].pc = "save" THEN rows = edit[g].list ELSE file = rows

LEMMA StepFile ==
  ASSUME NEW g, Editor = {g}, FileInv(g), [Next]_vars
  PROVE  FileInv(g)'
  <1>1. ASSUME UNCHANGED <<edit, rows, file>>
        PROVE  FileInv(g)'
    BY <1>1 DEF FileInv, EditShape
  <1>2. ASSUME NEW p, NEW l, edit' = [edit EXCEPT ![g] = [pc |-> p, list |-> l]]
        PROVE  edit'[g].pc = p /\ edit'[g].list = l /\ EditShape'
    <2>1. edit' = [h \in Editor |-> [pc |-> p, list |-> l]]
      BY ZenonT(30), <1>2 DEF FileInv, EditShape
    <2> QED
      BY <2>1 DEF EditShape
  <1>3. CASE BeginEdit(g)
    <2>1. PICK l : edit' = [edit EXCEPT ![g] = [pc |-> "update", list |-> l]]
      BY ZenonT(30), <1>3 DEF BeginEdit
    <2>2. edit'[g].pc = "update" /\ EditShape'
      BY ZenonT(30), <1>2, <2>1
    <2> QED
      BY <1>3, <2>2 DEF BeginEdit, FileInv
  <1>4. CASE UpdateServers(g)
    <2>1. edit' = [edit EXCEPT ![g] = [pc |-> "save", list |-> edit[g].list]]
      <3>1. edit[g] = [pc |-> edit[g].pc, list |-> edit[g].list]
        BY DEF FileInv, EditShape
      <3>2. [edit[g] EXCEPT !.pc = "save"] = [pc |-> "save", list |-> edit[g].list]
        BY <3>1
      <3>3. edit' = [edit EXCEPT ![g] = [edit[g] EXCEPT !.pc = "save"]]
        BY <1>4 DEF UpdateServers
      <3> QED
        BY ZenonT(30), <3>2, <3>3
    <2>2. edit'[g].pc = "save" /\ edit'[g].list = edit[g].list /\ EditShape'
      BY ZenonT(30), <1>2, <2>1
    <2> QED
      BY <1>4, <2>2 DEF UpdateServers, FileInv
  <1>5. CASE SaveDNSServers(g)
    <2>1. edit' = [edit EXCEPT ![g] = [pc |-> "idle", list |-> <<>>]]
      BY <1>5 DEF SaveDNSServers, Idle
    <2>2. edit'[g].pc = "idle" /\ EditShape'
      BY ZenonT(30), <1>2, <2>1
    <2> QED
      BY <1>5, <2>2 DEF SaveDNSServers, FileInv
  <1>6. CASE StartRound \/ ProbeNext \/ ApplyUpstreamProbeResult \/ SelectServers \/ ForwardSuccess
               \/ UNCHANGED vars
    BY <1>1, <1>6 DEF StartRound, ProbeNext, ApplyUpstreamProbeResult, SelectServers,
                      ForwardSuccess, vars
  <1>7. ASSUME NEW e \in Endpoint, ServerFails(e) \/ ServerRecovers(e)
        PROVE  FileInv(g)'
    BY <1>1, <1>7 DEF ServerFails, ServerRecovers
  <1> QED
    BY <1>3, <1>4, <1>5, <1>6, <1>7 DEF Next

\* With one editor, dnsservers.json has the servers in use whenever it is done.
THEOREM ServersFileCurrentHolds ==
  ASSUME NEW CONSTANT g, Editor = {g}
  PROVE  Spec => []ServersFileCurrent
  <1>1. Init => FileInv(g)
    BY DEF Init, FileInv, EditShape, Idle
  <1>2. FileInv(g) /\ [Next]_vars => FileInv(g)'
    BY StepFile
  <1>3. FileInv(g) => ServersFileCurrent
    BY DEF FileInv, ServersFileCurrent
  <1> QED
    BY <1>1, <1>2, <1>3, PTL DEF Spec
=============================================================================
