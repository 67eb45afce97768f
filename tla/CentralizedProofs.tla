------------------------- MODULE CentralizedProofs -------------------------
(***************************************************************************)
(* Proofs about the centralized scheduler, for any number of ranks, tasks  *)
(* and notices, any set of scores and both ways MPI_Send may behave.       *)
(*                                                                         *)
(* None of the properties is inductive.  IInv of Centralized adds to them: *)
(*  - WorkerInv: how the main thread's place, m_transmitting, the queue of *)
(*    one bundle and the pool agree;                                       *)
(*  - DetectorInv: a deficit is the number of tasks on their way, deferred *)
(*    or being acknowledged.  So a center with deficit 0 has no worker at  *)
(*    work (StillOwed, OwedTo);                                            *)
(*  - PhaseInv, StreamInv: what the center's phase says of the workers,    *)
(*    and that nothing sent is lost;                                       *)
(*  - TaskInv: where every created task is;                                *)
(*  - AvailableInv: no state message behind AVAILABLE_STATE in a channel;  *)
(*  - FullnessInv, ScoreInv.                                               *)
(* There is one lemma per action, in the order of the module.              *)
(***************************************************************************)
EXTENDS Centralized, ChannelTheorems, WellFoundedInduction

USE DEF detectorVars, channelVars, managerVars, centerVars, collectVars, sentVars,
        receivedVars, worldVars, historyVars

\* The ranks of a world of at least two processes.
LEMMA Ranks ==
    /\ IsFiniteSet(Worker) /\ Worker \subseteq Nat \ {0} /\ Center \notin Worker /\ 1 \in Worker
    /\ Rank = {Center} \cup Worker /\ Seed \in Task
    /\ WorldSize - 1 \in Worker /\ Cardinality(Worker) = WorldSize - 1
<1>1. WorldSize - 1 \in Nat /\ WorldSize - 1 >= 1
  BY SizeAssumption
<1>2. IsFiniteSet(Worker) /\ Cardinality(Worker) = WorldSize - 1
  BY <1>1, FS_Interval DEF Worker
<1> QED
  BY <1>1, <1>2, TaskAssumption DEF Worker, Center, Rank, Seed, Task

\* The messages the schedulers exchange, and what a message with a tag carries.
LEMMA MessageTypes ==
    /\ Msg("RUNNING_STATE") \in ToCenter /\ Msg("RUNNING_STATE").tag = "RUNNING_STATE"
    /\ Msg("AVAILABLE_STATE") \in ToCenter /\ Msg("AVAILABLE_STATE").tag = "AVAILABLE_STATE"
    /\ Msg("NO_RESULT") \in ToCenter /\ Msg("NO_RESULT").tag = "NO_RESULT"
    /\ \A t \in Task :
         /\ TaskMsg("TASK_RECEIVED", t) \in ToCenter \cap ToWorker
         /\ TaskMsg("TASK_FOR_CENTER", t) \in ToCenter
         /\ TaskMsg("TASK_FROM_CENTER", t) \in ToWorker
    /\ \A tag, t : TaskMsg(tag, t).tag = tag /\ TaskMsg(tag, t).task = t
    /\ \A m \in ToCenter : m.tag \in {"TASK_RECEIVED", "TASK_FOR_CENTER"} =>
         m.task \in Task /\ m = TaskMsg(m.tag, m.task)
    /\ \A m \in ToWorker : m.tag \in {"TASK_RECEIVED", "TASK_FROM_CENTER"} =>
         m.task \in Task /\ m = TaskMsg(m.tag, m.task)
    /\ \A m \in ToWorker : m.tag = "TERMINATION" => m.counts \in Nat \X Nat
<1>1. ASSUME NEW m \in ToCenter, m.tag \in {"TASK_RECEIVED", "TASK_FOR_CENTER"}
      PROVE  m.task \in Task /\ m = TaskMsg(m.tag, m.task)
  BY <1>1 DEF ToCenter, TaskMsg
<1>2. ASSUME NEW m \in ToWorker, m.tag \in {"TASK_RECEIVED", "TASK_FROM_CENTER"}
      PROVE  m.task \in Task /\ m = TaskMsg(m.tag, m.task)
  BY <1>2 DEF ToWorker, TaskMsg
<1>3. ASSUME NEW m \in ToWorker, m.tag = "TERMINATION" PROVE m.counts \in Nat \X Nat
  BY <1>3 DEF ToWorker
<1>4. \A t \in Task :
         /\ TaskMsg("TASK_RECEIVED", t) \in ToCenter \cap ToWorker
         /\ TaskMsg("TASK_FOR_CENTER", t) \in ToCenter
         /\ TaskMsg("TASK_FROM_CENTER", t) \in ToWorker
  BY DEF ToCenter, ToWorker, TaskMsg
<1>5. \A tag, t : TaskMsg(tag, t).tag = tag /\ TaskMsg(tag, t).task = t
  BY DEF TaskMsg
<1>6. /\ Msg("RUNNING_STATE") \in ToCenter /\ Msg("RUNNING_STATE").tag = "RUNNING_STATE"
      /\ Msg("AVAILABLE_STATE") \in ToCenter /\ Msg("AVAILABLE_STATE").tag = "AVAILABLE_STATE"
      /\ Msg("NO_RESULT") \in ToCenter /\ Msg("NO_RESULT").tag = "NO_RESULT"
  BY DEF Msg, ToCenter
<1> QED
  BY <1>1, <1>2, <1>3, <1>4, <1>5, <1>6

-----------------------------------------------------------------------------
(* What the shared parts of the actions do. *)

\* Skip drops the first n elements.
LEMMA Rest ==
    ASSUME NEW M, NEW s \in Seq(M), NEW n \in 0 .. Len(s)
    PROVE  /\ Skip(s, n) \in Seq(M) /\ Len(Skip(s, n)) = Len(s) - n
           /\ \A i \in 1 .. Len(s) - n : Skip(s, n)[i] = s[n + i]
           /\ n = 0 => Skip(s, n) = s
           /\ Skip(s, n) = <<>> <=> n = Len(s)
           /\ n # Len(s) => Last(Skip(s, n)) = Last(s)
<1> DEFINE r == Skip(s, n)
<1>1. r \in Seq(M) /\ Len(r) = Len(s) - n /\ \A i \in 1 .. Len(r) : r[i] = s[n + i]
  BY DEF Skip
<1> HIDE DEF r
<1>2. n = 0 => r = s
  BY <1>1
<1>3. r = <<>> <=> n = Len(s)
  BY <1>1
<1>4. n # Len(s) => Last(r) = Last(s)
  BY <1>1, <1>3 DEF Last
<1> QED
  BY <1>1, <1>2, <1>3, <1>4 DEF r

\* Reading ns score updates and nn notices: what is left is as much shorter as the counter
\* is higher, and what the worker was last told is the same.
LEMMA Reading ==
    ASSUME ScoreTypes, StreamTypes, NEW w \in Worker, NEW ns \in 0 .. Len(score_updates[w]),
           NEW nn \in 0 .. Len(notices[w]), ReceiveFromCenter(w, ns, nn)
    PROVE  /\ global_score' \in [Rank -> Scores \cup {Default}]
           /\ is_center_full' \in [Worker -> BOOLEAN]
           /\ score_updates' \in Net(Worker, Scores) /\ notices' \in Net(Worker, BOOLEAN)
           /\ score_updates_received' \in [Worker -> Nat] /\ notices_received' \in [Worker -> Nat]
           /\ \A r \in Rank \ {w} : global_score'[r] = global_score[r]
           /\ global_score'[w] \in Messages(score_updates, w) \cup {global_score[w]}
           /\ \A v \in Worker \ {w} : /\ score_updates'[v] = score_updates[v]
                                      /\ notices'[v] = notices[v]
                                      /\ score_updates_received'[v] = score_updates_received[v]
                                      /\ notices_received'[v] = notices_received[v]
           /\ Len(score_updates'[w]) = Len(score_updates[w]) - ns
           /\ Len(notices'[w]) = Len(notices[w]) - nn
           /\ score_updates_received'[w] = score_updates_received[w] + ns
           /\ notices_received'[w] = notices_received[w] + nn
           /\ \A v \in Worker : Messages(score_updates', v) \subseteq Messages(score_updates, v)
           /\ \A v \in Worker : Told(v)' = Told(v)
<1> DEFINE s == score_updates[w]
           n == notices[w]
<1>1. s \in Seq(Scores) /\ n \in Seq(BOOLEAN) /\ w \in Rank
  BY Ranks DEF StreamTypes, Net
<1>2. score_updates' = [score_updates EXCEPT ![w] = Skip(s, ns)]
  BY DEF ReceiveFromCenter
<1>3. notices' = [notices EXCEPT ![w] = Skip(n, nn)]
  BY DEF ReceiveFromCenter
<1>4. global_score' = [global_score EXCEPT ![w] = IF ns = 0 THEN @ ELSE s[ns]]
  BY DEF ReceiveFromCenter
<1>5. is_center_full' = [is_center_full EXCEPT ![w] = IF nn = 0 THEN @ ELSE n[nn]]
  BY DEF ReceiveFromCenter
<1>6. /\ score_updates_received' = [score_updates_received EXCEPT ![w] = @ + ns]
      /\ notices_received' = [notices_received EXCEPT ![w] = @ + nn]
  BY DEF ReceiveFromCenter
<1> DEFINE s1 == Skip(s, ns)
           n1 == Skip(n, nn)
<1>7. /\ s1 \in Seq(Scores) /\ Len(s1) = Len(s) - ns
      /\ \A i \in 1 .. Len(s) - ns : s1[i] = s[ns + i]
  BY <1>1, Rest, ZenonT(60)
<1> DEFINE B == BOOLEAN
<1>0. n \in Seq(B)
  BY <1>1
<1> HIDE DEF B, n
<1>8. /\ n1 \in Seq(B) /\ Len(n1) = Len(n) - nn
      /\ n1 = <<>> <=> nn = Len(n)
      /\ nn # Len(n) => Last(n1) = Last(n)
  <2>1. nn \in 0 .. Len(n)
    BY DEF n
  <2> QED
    BY <1>0, <2>1, Rest
<1> USE DEF B, n
<1> HIDE DEF s1, n1
<1>9. /\ score_updates' \in Net(Worker, Scores) /\ notices' \in Net(Worker, BOOLEAN)
      /\ score_updates'[w] = s1 /\ notices'[w] = n1
      /\ \A v \in Worker \ {w} : score_updates'[v] = score_updates[v] /\ notices'[v] = notices[v]
  BY <1>2, <1>3, <1>7, <1>8 DEF StreamTypes, Net, s1, n1
<1>10. ns # 0 => s[ns] \in Scores /\ s[ns] \in Messages(score_updates, w)
  BY <1>1 DEF Messages
<1>11. nn # 0 => n[nn] \in BOOLEAN
  BY <1>1
<1>12. \A v \in Worker : Messages(score_updates', v) \subseteq Messages(score_updates, v)
  <2> SUFFICES ASSUME NEW v \in Worker, NEW i \in DOMAIN score_updates'[v]
               PROVE  score_updates'[v][i] \in Messages(score_updates, v)
    BY DEF Messages
  <2>1. CASE v # w
    BY <2>1, <1>9 DEF Messages
  <2>2. CASE v = w
    <3>1. i \in 1 .. Len(s1) /\ ns + i \in DOMAIN s /\ score_updates'[v][i] = s[ns + i]
      BY <2>2, <1>1, <1>7, <1>9, SMTT(30)
    <3> QED
      BY <2>2, <3>1 DEF Messages
  <2> QED
    BY <2>1, <2>2
<1>13. \A v \in Worker : Told(v)' = Told(v)
  <2> SUFFICES ASSUME NEW v \in Worker PROVE Told(v)' = Told(v)
    OBVIOUS
  <2>1. CASE v # w
    BY <2>1, <1>5, <1>9 DEF Told, StreamTypes
  <2>2. CASE v = w
    <3>1. is_center_full'[w] = IF nn = 0 THEN is_center_full[w] ELSE n[nn]
      BY <1>5 DEF StreamTypes
    <3>2. Told(w)' = IF n1 = <<>> THEN is_center_full'[w] ELSE Last(n1)
      BY <1>9 DEF Told
    <3>3. Told(w) = IF n = <<>> THEN is_center_full[w] ELSE Last(n)
      BY DEF Told
    <3>4. (n = <<>> <=> Len(n) = 0) /\ (nn # 0 /\ nn = Len(n) => n[nn] = Last(n))
      BY <1>1 DEF Last
    <3> QED
      BY <2>2, <3>1, <3>2, <3>3, <3>4, <1>1, <1>8
  <2> QED
    BY <2>1, <2>2
<1>14. /\ global_score' \in [Rank -> Scores \cup {Default}]
       /\ \A r \in Rank \ {w} : global_score'[r] = global_score[r]
       /\ global_score'[w] \in Messages(score_updates, w) \cup {global_score[w]}
  BY <1>1, <1>4, <1>10 DEF ScoreTypes
<1>15. is_center_full' \in [Worker -> BOOLEAN]
  BY <1>5, <1>11 DEF StreamTypes
<1>16. /\ score_updates_received' \in [Worker -> Nat] /\ notices_received' \in [Worker -> Nat]
       /\ score_updates_received'[w] = score_updates_received[w] + ns
       /\ notices_received'[w] = notices_received[w] + nn
       /\ \A v \in Worker \ {w} : /\ score_updates_received'[v] = score_updates_received[v]
                                  /\ notices_received'[v] = notices_received[v]
  BY <1>6 DEF StreamTypes
<1> QED
  BY <1>7, <1>8, <1>9, <1>12, <1>13, <1>14, <1>15, <1>16

-----------------------------------------------------------------------------
(* What an action that leaves the variables of a part alone does not disturb. *)

\* Where a worker works on a task; the parts below do not tell these places apart.
Inside == {"pop", "send", "sending", "poll", "propose", "check", "isdone", "leave"}
SameSide == \A w \in Worker : pc'[w] = pc[w] \/ (pc[w] \in Inside /\ pc'[w] \in Inside)

\* The types of the detector's state are kept by a step that leaves it alone.
LEMMA DetectorTypesFrame ==
    ASSUME DetectorTypes, UNCHANGED <<deficit, parent, held>> PROVE DetectorTypes'
  BY DEF DetectorTypes

\* The same for the state of the main threads, their queues and pools.
LEMMA WorkerTypesFrame ==
    ASSUME WorkerTypes, UNCHANGED <<pc, bundle, transmitting, queue, busy>> PROVE WorkerTypes'
  BY DEF WorkerTypes

\* The same for scores, results and proposals.
LEMMA ScoreTypesFrame ==
    ASSUME ScoreTypes, UNCHANGED <<score, result, global_score, proposal>> PROVE ScoreTypes'
  BY DEF ScoreTypes

\* The same for the center's own state.
LEMMA CenterTypesFrame ==
    ASSUME CenterTypes,
           UNCHANGED <<cpc, process_state, nodes_available, center_queue, last_full_status,
                       collecting>>
    PROVE  CenterTypes'
  BY DEF CenterTypes

\* The same for score updates, notices and their counters.
LEMMA StreamTypesFrame ==
    ASSUME StreamTypes,
           UNCHANGED <<score_updates_sent, score_updates_received, notices_sent,
                       notices_received, score_updates, notices, is_center_full>>
    PROVE  StreamTypes'
  BY DEF StreamTypes

\* The same for the messages on their way.
LEMMA WorldTypesFrame ==
    ASSUME WorldTypes, UNCHANGED <<to_center, to_worker>> PROVE WorldTypes'
  BY DEF WorldTypes

\* The same for the tasks created and started.
LEMMA TaskTypesFrame ==
    ASSUME TaskTypes, UNCHANGED <<issued, executed>> PROVE TaskTypes'
  BY DEF TaskTypes

\* WorkerInv is about the main thread, its queue, its pool and its proposal only.
LEMMA WorkerFrame ==
    ASSUME WorkerInv, UNCHANGED <<pc, bundle, transmitting, queue, busy, proposal>>
    PROVE  WorkerInv'
  BY DEF WorkerInv

\* DetectorInv does not tell the places inside task_funneling apart.
LEMMA DetectorFrame ==
    ASSUME DetectorInv, UNCHANGED <<deficit, parent, held, to_center, to_worker>>, SameSide
    PROVE  DetectorInv'
  BY DEF DetectorInv, Engaged, SameSide, Inside, Idle

\* PhaseInv does not tell the places inside task_funneling apart.
LEMMA PhaseFrame ==
    ASSUME PhaseInv, SameSide,
           UNCHANGED <<deficit, cpc, process_state, center_queue, issued, to_worker,
                       score_updates_sent, notices_sent>>
    PROVE  PhaseInv'
  BY DEF PhaseInv, Available, SameSide, Inside, Over, Announced

\* StreamInv does not tell the places inside task_funneling apart.
LEMMA StreamFrame ==
    ASSUME StreamInv, SameSide,
           UNCHANGED <<score_updates_sent, score_updates_received, notices_sent,
                       notices_received, score_updates, notices>>
    PROVE  StreamInv'
  BY DEF StreamInv, SameSide, Inside

\* TaskInv is about where tasks are kept, and about nothing else.
LEMMA TaskFrame ==
    ASSUME TaskInv,
           UNCHANGED <<pc, bundle, queue, center_queue, to_center, to_worker, issued, executed>>
    PROVE  TaskInv'
  BY DEF TaskInv, CrossesAs, KeptBy

\* AvailableInv does not tell the places inside task_funneling apart.
LEMMA AvailableFrame ==
    ASSUME AvailableInv, SameSide,
           UNCHANGED <<cpc, process_state, nodes_available, center_queue, to_center, to_worker>>
    PROVE  AvailableInv'
  BY DEF AvailableInv, Available, CanDispatch, Given, SaysAvailable, SameSide, Inside

\* FullnessInv is about notices, and about the center's queue and available ranks.
LEMMA FullnessFrame ==
    ASSUME FullnessInv,
           UNCHANGED <<cpc, process_state, center_queue, last_full_status, notices,
                       is_center_full>>
    PROVE  FullnessInv'
  BY DEF FullnessInv, Forgotten, Told, Available

\* ScoreInv is about scores, and about nothing else.
LEMMA ScoreFrame ==
    ASSUME ScoreInv, UNCHANGED <<score, global_score, proposal, score_updates>>
    PROVE  ScoreInv'
  BY DEF ScoreInv

-----------------------------------------------------------------------------
(* The worker's main thread *)

\* Reading from the center keeps the parts that are about what the center sends.
LEMMA ReadingKeeps ==
    ASSUME IInv, NEW w \in Worker, NEW ns \in 0 .. Len(score_updates[w]),
           NEW nn \in 0 .. Len(notices[w]), ReceiveFromCenter(w, ns, nn),
           UNCHANGED <<score_updates_sent, notices_sent, cpc, process_state, center_queue,
                       last_full_status>>
    PROVE  /\ StreamTypes' /\ FullnessInv'
           /\ global_score' \in [Rank -> Scores \cup {Default}]
           /\ \A r \in Rank : Found(global_score'[r])
           /\ \A v \in Worker : \A s \in Messages(score_updates', v) : Found(s)
           /\ \A v \in Worker :
                /\ score_updates_sent' = score_updates_received'[v] + Len(score_updates'[v])
                /\ notices_sent' = notices_received'[v] + Len(notices'[v])
                /\ score_updates[v] = <<>> => score_updates'[v] = <<>>
                /\ notices[v] = <<>> => notices'[v] = <<>>
<1>1. ScoreTypes /\ StreamTypes /\ ScoreInv /\ StreamInv /\ FullnessInv
  BY DEF IInv, TypeOK
<1>2. StreamTypes'
  BY <1>1, Reading DEF StreamTypes
<1>3. FullnessInv'
  <2>1. \A v \in Worker : Told(v)' = Told(v)
    BY <1>1, Reading
  <2> QED
    BY <1>1, <2>1 DEF FullnessInv, Forgotten, Available
<1>4. /\ global_score' \in [Rank -> Scores \cup {Default}]
      /\ \A r \in Rank \ {w} : global_score'[r] = global_score[r]
      /\ global_score'[w] \in Messages(score_updates, w) \cup {global_score[w]}
      /\ \A v \in Worker : Messages(score_updates', v) \subseteq Messages(score_updates, v)
  BY <1>1, Reading
<1>5. /\ \A r \in Rank : Found(global_score'[r])
      /\ \A v \in Worker : \A s \in Messages(score_updates', v) : Found(s)
  BY <1>1, <1>4, Ranks DEF ScoreInv
<1>6. /\ \A v \in Worker \ {w} : /\ score_updates'[v] = score_updates[v]
                                 /\ notices'[v] = notices[v]
                                 /\ score_updates_received'[v] = score_updates_received[v]
                                 /\ notices_received'[v] = notices_received[v]
      /\ Len(score_updates'[w]) = Len(score_updates[w]) - ns
      /\ Len(notices'[w]) = Len(notices[w]) - nn
      /\ score_updates_received'[w] = score_updates_received[w] + ns
      /\ notices_received'[w] = notices_received[w] + nn
  BY <1>1, Reading
<1>7. ASSUME NEW v \in Worker
      PROVE  /\ score_updates_sent' = score_updates_received'[v] + Len(score_updates'[v])
             /\ notices_sent' = notices_received'[v] + Len(notices'[v])
             /\ score_updates[v] = <<>> => score_updates'[v] = <<>>
             /\ notices[v] = <<>> => notices'[v] = <<>>
  <2>1. CASE v # w
    BY <1>1, <1>6, <2>1 DEF StreamInv
  <2>2. CASE v = w
    <3>1. /\ score_updates[w] \in Seq(Scores) /\ score_updates'[w] \in Seq(Scores)
          /\ notices[w] \in Seq(BOOLEAN) /\ notices'[w] \in Seq(BOOLEAN)
          /\ score_updates_received[w] \in Nat /\ notices_received[w] \in Nat
      BY <1>1, <1>2 DEF StreamTypes, Net
    <3>2. /\ score_updates[w] = <<>> => score_updates'[w] = <<>>
          /\ notices[w] = <<>> => notices'[w] = <<>>
      <4>1. ASSUME score_updates[w] = <<>> PROVE score_updates'[w] = <<>>
        <5>1. Len(score_updates[w]) = 0
          BY <4>1
        <5>2. Len(score_updates'[w]) = 0 - ns /\ Len(score_updates'[w]) \in Nat /\ ns \in Nat
          BY <1>6, <3>1, <5>1
        <5>3. Len(score_updates'[w]) = 0
          BY <5>2
        <5> QED
          BY <3>1, <5>3
      <4>2. ASSUME notices[w] = <<>> PROVE notices'[w] = <<>>
        <5>1. Len(notices[w]) = 0
          BY <4>2
        <5>2. Len(notices'[w]) = 0 - nn /\ Len(notices'[w]) \in Nat /\ nn \in Nat
          BY <1>6, <3>1, <5>1
        <5>3. Len(notices'[w]) = 0
          BY <5>2
        <5> QED
          BY <3>1, <5>3
      <4> QED
        BY <4>1, <4>2
    <3>3. /\ score_updates_sent = score_updates_received[w] + Len(score_updates[w])
          /\ notices_sent = notices_received[w] + Len(notices[w])
      BY <1>1 DEF StreamInv
    <3>4. /\ Len(score_updates[w]) \in Nat /\ Len(notices[w]) \in Nat
          /\ score_updates_received[w] \in Nat /\ notices_received[w] \in Nat
      BY <3>1
    <3>5. /\ score_updates_sent' = score_updates_received'[w] + Len(score_updates'[w])
          /\ notices_sent' = notices_received'[w] + Len(notices'[w])
      BY <1>6, <3>3, <3>4, SMTT(30)
    <3> QED
      BY <2>2, <3>2, <3>5
  <2> QED
    BY <2>1, <2>2
<1> QED
  BY <1>2, <1>3, <1>4, <1>5, <1>7

\* The probe loop reads a score update or a notice.
LEMMA ReceiveNoticeNext ==
    ASSUME IInv, NEW w \in Worker, ReceiveNotice(w)
    PROVE  IInv'
<1>1. UNCHANGED <<detectorVars, pc, channelVars, busy, managerVars, cpc, centerVars,
                  collectVars, sentVars, worldVars, proposal, historyVars>> /\ SameSide
  BY DEF ReceiveNotice, SameSide
<1>2. PICK ns \in 0 .. Len(score_updates[w]), nn \in 0 .. Len(notices[w]) :
        ReceiveFromCenter(w, ns, nn)
  <2>1. score_updates[w] \in Seq(Scores) /\ notices[w] \in Seq(BOOLEAN)
    BY DEF IInv, TypeOK, StreamTypes, Net
  <2>2. CASE score_updates[w] # <<>> /\ ReceiveFromCenter(w, 1, 0)
    <3>1. 1 \in 0 .. Len(score_updates[w]) /\ 0 \in 0 .. Len(notices[w])
      BY <2>1, <2>2
    <3> QED
      BY <2>2, <3>1
  <2>3. CASE notices[w] # <<>> /\ ReceiveFromCenter(w, 0, 1)
    <3>1. 0 \in 0 .. Len(score_updates[w]) /\ 1 \in 0 .. Len(notices[w])
      BY <2>1, <2>3
    <3> QED
      BY <2>3, <3>1
  <2> QED
    BY <2>2, <2>3 DEF ReceiveNotice
<1>3. /\ StreamTypes' /\ FullnessInv'
      /\ global_score' \in [Rank -> Scores \cup {Default}]
      /\ \A r \in Rank : Found(global_score'[r])
      /\ \A v \in Worker : \A s \in Messages(score_updates', v) : Found(s)
      /\ \A v \in Worker :
           /\ score_updates_sent' = score_updates_received'[v] + Len(score_updates'[v])
           /\ notices_sent' = notices_received'[v] + Len(notices'[v])
           /\ score_updates[v] = <<>> => score_updates'[v] = <<>>
           /\ notices[v] = <<>> => notices'[v] = <<>>
  BY <1>1, <1>2, ReadingKeeps
<1>4. ScoreTypes' /\ ScoreInv'
  BY <1>1, <1>3 DEF IInv, TypeOK, ScoreTypes, ScoreInv
<1>5. StreamInv'
  BY <1>1, <1>3 DEF IInv, StreamInv
<1> QED
  BY <1>1, <1>3, <1>4, <1>5, DetectorTypesFrame, WorkerTypesFrame, CenterTypesFrame,
     WorldTypesFrame, TaskTypesFrame, WorkerFrame, DetectorFrame, PhaseFrame, TaskFrame,
     AvailableFrame DEF IInv, TypeOK

\* A task of the center on its way, deferred or being acknowledged keeps the center in its loop.
LEMMA StillOwed ==
    ASSUME IInv, NEW w \in Worker,
           \/ Given(w) \/ parent[w] # None
           \/ \E m \in Messages(to_center, w) : m.tag = "TASK_RECEIVED"
    PROVE  deficit[Center] > 0 /\ cpc \in {"loop", "dispatch", "sending"}
<1>1. /\ TypeOK /\ DetectorInv /\ PhaseInv /\ TaskInv
      /\ to_center \in Net(Worker, ToCenter) /\ to_worker \in Net(Worker, ToWorker)
  BY DEF IInv, TypeOK, WorldTypes
<1> DEFINE a == Count(to_worker, Worker, "TASK_FROM_CENTER")
           b == Cardinality(Engaged)
           c == Count(to_center, Worker, "TASK_RECEIVED")
<1>2. a \in Nat /\ (a = 0 => ~Given(w))
  BY <1>1, Ranks, CountNat DEF Given
<1>3. c \in Nat /\ (c = 0 => \A m \in Messages(to_center, w) : m.tag # "TASK_RECEIVED")
  BY <1>1, Ranks, CountNat
<1>4. IsFiniteSet(Engaged) /\ b \in Nat /\ (b = 0 => parent[w] = None)
  <2>1. IsFiniteSet(Engaged)
    BY Ranks, FS_Subset DEF Engaged
  <2>2. b \in Nat /\ (b = 0 <=> Engaged = {})
    BY <2>1, FS_CardinalityType, FS_EmptySet
  <2> QED
    BY <2>1, <2>2 DEF Engaged
<1>5. deficit[Center] = a + b + c
  BY <1>1 DEF DetectorInv
<1> HIDE DEF a, b, c
<1>6. deficit[Center] > 0
  BY <1>2, <1>3, <1>4, <1>5
<1> QED
  BY <1>1, <1>6 DEF PhaseInv, Over, TypeOK, CenterTypes, CenterPC

\* The same for the tasks that worker w has sent to the center.
LEMMA OwedTo ==
    ASSUME IInv, NEW w \in Worker,
           \/ \E m \in Messages(to_center, w) : m.tag = "TASK_FOR_CENTER"
           \/ \E m \in Messages(to_worker, w) : m.tag = "TASK_RECEIVED"
    PROVE  deficit[w] > 0 /\ parent[w] # None
<1>1. /\ DetectorInv
      /\ to_center \in Net(Worker, ToCenter) /\ to_worker \in Net(Worker, ToWorker)
  BY DEF IInv, TypeOK, WorldTypes
<1> DEFINE a == Count(to_center, {w}, "TASK_FOR_CENTER")
           b == Count(to_worker, {w}, "TASK_RECEIVED")
<1>2. a \in Nat /\ (a = 0 => \A m \in Messages(to_center, w) : m.tag # "TASK_FOR_CENTER")
  BY <1>1, Ranks, CountNat
<1>3. b \in Nat /\ (b = 0 => \A m \in Messages(to_worker, w) : m.tag # "TASK_RECEIVED")
  BY <1>1, Ranks, CountNat
<1>4. deficit[w] = a + b /\ (parent[w] = None => deficit[w] = 0)
  BY <1>1 DEF DetectorInv
<1> HIDE DEF a, b
<1> QED
  BY <1>2, <1>3, <1>4

\* The counts in terms of which the deficits are stated are numbers.
LEMMA Counts ==
    ASSUME IInv
    PROVE  /\ Count(to_worker, Worker, "TASK_FROM_CENTER") \in Nat
           /\ Count(to_center, Worker, "TASK_RECEIVED") \in Nat
           /\ IsFiniteSet(Engaged) /\ Cardinality(Engaged) \in Nat
           /\ \A v \in Worker : /\ Count(to_center, {v}, "TASK_FOR_CENTER") \in Nat
                                /\ Count(to_worker, {v}, "TASK_RECEIVED") \in Nat
                                /\ Count(to_worker, {v}, "TASK_FROM_CENTER") \in Nat
<1>1. to_center \in Net(Worker, ToCenter) /\ to_worker \in Net(Worker, ToWorker)
  BY DEF IInv, TypeOK, WorldTypes
<1>2. IsFiniteSet(Engaged) /\ Cardinality(Engaged) \in Nat
  BY Ranks, FS_Subset, FS_CardinalityType DEF Engaged
<1>3. \A v \in Worker : {v} \in SUBSET Worker
  OBVIOUS
<1> QED
  BY <1>1, <1>2, <1>3, Ranks, CountNat

\* process_message: the center still counts the task, so it is in its loop; the task it
\* acknowledges at once, or defers, is counted on.
LEMMA ReceiveTaskNext ==
    ASSUME IInv, NEW w \in Worker, ReceiveTask(w)
    PROVE  IInv'
<1> DEFINE h == Head(to_worker[w])
           t == h.task
           ack == TaskMsg("TASK_RECEIVED", t)
           running == Msg("RUNNING_STATE")
           net == IF parent[w] # None THEN Post(to_center, w, ack) ELSE to_center
<1>1. /\ TypeOK /\ WorkerInv /\ DetectorInv /\ PhaseInv /\ StreamInv /\ TaskInv /\ AvailableInv
      /\ FullnessInv /\ ScoreInv
      /\ to_center \in Net(Worker, ToCenter) /\ to_worker \in Net(Worker, ToWorker)
  BY DEF IInv, TypeOK, WorldTypes
<1>2. UNCHANGED <<deficit, channelVars, is_center_full, managerVars, global_score, cpc,
                  centerVars, collectVars, sentVars, receivedVars, score_updates, notices,
                  proposal, issued, best>>
  BY DEF ReceiveTask
<1>3. /\ pc[w] = "probe" /\ pc' = [pc EXCEPT ![w] = "pop"] /\ busy' = [busy EXCEPT ![w] = TRUE]
      /\ to_worker[w] # <<>> /\ h.tag = "TASK_FROM_CENTER"
      /\ to_worker' = Drop(to_worker, w) /\ executed' = executed \cup {t}
      /\ to_center' = Post(net, w, running)
  BY DEF ReceiveTask, Arrived
<1>4. IF parent[w] # None THEN UNCHANGED <<parent, held>>
      ELSE parent' = [parent EXCEPT ![w] = Center] /\ held' = [held EXCEPT ![w] = t]
  BY DEF ReceiveTask
<1>5. h \in Messages(to_worker, w) /\ t \in Task /\ h = TaskMsg("TASK_FROM_CENTER", t)
  BY <1>1, <1>3, MessagesType, MessageTypes
<1>6. Given(w) /\ deficit[Center] > 0 /\ cpc \in {"loop", "dispatch", "sending"}
  BY <1>3, <1>5, StillOwed DEF Given
<1>7. /\ t <= issued /\ t \in 1 .. issued
  BY <1>1, <1>5 DEF TaskInv, CrossesAs, Task
<1>8. /\ ack \in ToCenter /\ ack.tag = "TASK_RECEIVED"
      /\ running \in ToCenter /\ running.tag = "RUNNING_STATE"
  BY <1>5, MessageTypes
<1> HIDE DEF h, t, ack, running
<1>9. /\ net \in Net(Worker, ToCenter) /\ to_center' \in Net(Worker, ToCenter)
      /\ to_worker' \in Net(Worker, ToWorker)
  BY <1>1, <1>3, <1>8, PostIn, DropIn
\* what is on its way now
<1>10. ASSUME NEW v \in Worker
       PROVE  /\ \A m \in Messages(to_worker', v) : m \in Messages(to_worker, v)
              /\ \A m \in Messages(to_worker, v) : m \in Messages(to_worker', v) \/ (v = w /\ m = h)
              /\ \A m \in Messages(to_center, v) : m \in Messages(to_center', v)
              /\ \A m \in Messages(to_center', v) :
                   m \in Messages(to_center, v) \/ (v = w /\ m \in {ack, running})
  BY <1>1, <1>3, <1>8, <1>9, PostIn, DropIn DEF h
<1>11. /\ Count(to_worker', Worker, "TASK_FROM_CENTER") =
            Count(to_worker, Worker, "TASK_FROM_CENTER") - 1
       /\ Count(to_worker', {w}, "TASK_FROM_CENTER") =
            Count(to_worker, {w}, "TASK_FROM_CENTER") - 1
       /\ \A v \in Worker : Count(to_worker', {v}, "TASK_RECEIVED") =
                              Count(to_worker, {v}, "TASK_RECEIVED")
       /\ \A v \in Worker \ {w} : Count(to_worker', {v}, "TASK_FROM_CENTER") =
                              Count(to_worker, {v}, "TASK_FROM_CENTER")
  <2>1. \A v \in Worker : {v} \in SUBSET Worker
    OBVIOUS
  <2> QED
    BY <2>1, <1>1, <1>3, Ranks, CountDrop DEF h
<1>12. /\ Count(to_center', Worker, "TASK_RECEIVED") =
            Count(to_center, Worker, "TASK_RECEIVED") + (IF parent[w] # None THEN 1 ELSE 0)
       /\ \A v \in Worker : Count(to_center', {v}, "TASK_FOR_CENTER") =
                              Count(to_center, {v}, "TASK_FOR_CENTER")
  <2>1. \A v \in Worker : {v} \in SUBSET Worker
    OBVIOUS
  <2>2. /\ Count(net, Worker, "TASK_RECEIVED") =
             Count(to_center, Worker, "TASK_RECEIVED") + (IF parent[w] # None THEN 1 ELSE 0)
        /\ \A v \in Worker : Count(net, {v}, "TASK_FOR_CENTER") =
                               Count(to_center, {v}, "TASK_FOR_CENTER")
    <3>1. CASE parent[w] # None
      BY <2>1, <1>1, <1>8, <3>1, Ranks, CountPost
    <3>2. CASE parent[w] = None
      BY <3>2, Counts
    <3> QED
      BY <3>1, <3>2
  <2>3. /\ Count(to_center', Worker, "TASK_RECEIVED") = Count(net, Worker, "TASK_RECEIVED")
        /\ \A v \in Worker : Count(to_center', {v}, "TASK_FOR_CENTER") =
                               Count(net, {v}, "TASK_FOR_CENTER")
    <3> HIDE DEF net
    <3> QED
      BY <2>1, <1>3, <1>8, <1>9, Ranks, CountPost
  <2> QED
    BY <2>2, <2>3
<1>13. Cardinality(Engaged') = Cardinality(Engaged) + (IF parent[w] # None THEN 0 ELSE 1)
  <2>1. CASE parent[w] # None
    BY <1>4, <2>1, Counts DEF Engaged
  <2>2. CASE parent[w] = None
    <3>0. \A v \in Worker : parent'[v] # None <=> v = w \/ parent[v] # None
      BY <1>1, <1>4, <2>2, Ranks DEF TypeOK, DetectorTypes, Center, None
    <3>1. Engaged' = Engaged \cup {w} /\ w \notin Engaged
      BY <2>2, <3>0 DEF Engaged
    <3> QED
      BY <2>2, <3>1, Counts, FS_AddElement
  <2> QED
    BY <2>1, <2>2
\* the parts of the invariant
<1>14. DetectorTypes' /\ WorkerTypes' /\ TaskTypes' /\ WorldTypes'
  <2>1. DetectorTypes'
    BY <1>1, <1>2, <1>4, <1>5 DEF TypeOK, DetectorTypes
  <2>2. WorkerTypes'
    BY <1>1, <1>2, <1>3 DEF TypeOK, WorkerTypes, MainPC
  <2>3. TaskTypes'
    BY <1>1, <1>2, <1>3, <1>7 DEF TypeOK, TaskTypes
  <2> QED
    BY <2>1, <2>2, <2>3, <1>9 DEF WorldTypes
<1>15. WorkerInv'
  BY <1>1, <1>2, <1>3 DEF WorkerInv, TypeOK, WorkerTypes, Idle
<1>16. DetectorInv'
  <2>1. parent'[Center] = None /\ \A v \in Worker : parent'[v] # None => held'[v] \in Task
    BY <1>1, <1>4, <1>5, Ranks, ZenonT(60) DEF DetectorInv, TypeOK, DetectorTypes
  <2>2. deficit'[Center] = Count(to_worker', Worker, "TASK_FROM_CENTER") + Cardinality(Engaged')
                             + Count(to_center', Worker, "TASK_RECEIVED")
    BY <1>1, <1>2, <1>11, <1>12, <1>13, Counts DEF DetectorInv
  <2>3. \A v \in Worker : deficit'[v] = Count(to_center', {v}, "TASK_FOR_CENTER")
                                          + Count(to_worker', {v}, "TASK_RECEIVED")
    BY <1>1, <1>2, <1>11, <1>12 DEF DetectorInv
  <2>4. \A v \in Worker : parent'[v] = None => deficit'[v] = 0 /\ pc'[v] \in Idle
    <3>1. \A v \in Worker : parent'[v] = None => v # w /\ parent[v] = None
      BY <1>1, <1>3, <1>4, Ranks DEF DetectorInv, TypeOK, DetectorTypes, Center, None
    <3>2. \A v \in Worker : v # w => pc'[v] = pc[v]
      BY <1>1, <1>3 DEF TypeOK, WorkerTypes
    <3> QED
      BY <1>1, <1>2, <3>1, <3>2 DEF DetectorInv
  <2> QED
    BY <2>1, <2>2, <2>3, <2>4 DEF DetectorInv
<1>17. PhaseInv'
  BY <1>1, <1>2, <1>3, <1>6, <1>10 DEF PhaseInv, Over, Announced, TypeOK, WorkerTypes
<1>18. StreamInv'
  BY <1>1, <1>2, <1>3 DEF StreamInv, TypeOK, WorkerTypes
<1>19. TaskInv'
  <2>1. ASSUME NEW u \in 1 .. issued
        PROVE  u \in executed' \cup center_queue \/ \E v \in Worker : CrossesAs(u, v)' \/ KeptBy(u, v)'
    <3>1. CASE u \in executed \cup center_queue
      BY <1>3, <3>1
    <3>2. CASE \E v \in Worker : KeptBy(u, v)
      BY <1>1, <1>2, <1>3, <3>2 DEF KeptBy, TypeOK, WorkerTypes
    <3>3. CASE \E v \in Worker : CrossesAs(u, v)
      <4>1. PICK v \in Worker : CrossesAs(u, v)
        BY <3>3
      <4>2. CASE TaskMsg("TASK_FROM_CENTER", u) = h
        <5>1. u = t
          BY <4>2, MessageTypes DEF t
        <5> QED
          BY <5>1, <1>3
      <4>3. CASE TaskMsg("TASK_FROM_CENTER", u) # h
        BY <4>1, <4>3, <1>10 DEF CrossesAs
      <4> QED
        BY <4>2, <4>3
    <3> QED
      BY <1>1, <3>1, <3>2, <3>3 DEF TaskInv
  <2>2. ASSUME NEW u \in Task, NEW v \in Worker, CrossesAs(u, v)' \/ KeptBy(u, v)' PROVE u <= issued
    <3>1. TaskMsg("TASK_FOR_CENTER", u) \notin {ack, running}
      BY <1>8, MessageTypes
    <3>2. CASE CrossesAs(u, v)'
      <4>1. CrossesAs(u, v)
        BY <3>1, <3>2, <1>10 DEF CrossesAs
      <4> QED
        BY <1>1, <4>1 DEF TaskInv
    <3>3. CASE KeptBy(u, v)'
      <4>1. KeptBy(u, v)
        BY <3>3, <1>1, <1>2, <1>3 DEF KeptBy, TypeOK, WorkerTypes
      <4> QED
        BY <1>1, <4>1 DEF TaskInv
    <3> QED
      BY <2>2, <3>2, <3>3
  <2> QED
    BY <1>1, <1>2, <2>1, <2>2 DEF TaskInv
<1>20. AvailableInv'
  <2>1. Available' = Available /\ CanDispatch' = CanDispatch
    BY <1>2 DEF Available, CanDispatch
  <2>2. process_state[w] # "AVAILABLE" /\ ~SaysAvailable(w)
    BY <1>1, <1>6 DEF AvailableInv
  <2>3. ~Given(w)'
    <3>1. Count(to_worker', {w}, "TASK_FROM_CENTER") = 0
      <4>1. /\ Count(to_worker', {w}, "TASK_FROM_CENTER") \in Nat
            /\ Count(to_worker, {w}, "TASK_FROM_CENTER") <= 1
        BY <1>1, <1>6, <1>9, Ranks, CountNat DEF AvailableInv
      <4> QED
        BY <4>1, <1>11, Counts
    <3> QED
      BY <3>1, <1>9, Ranks, CountNat DEF Given
  <2>4. ~SaysAvailable(w)'
    BY <2>2, <1>8, <1>10 DEF SaysAvailable
  <2>5. \A v \in Worker \ {w} : Given(v)' = Given(v) /\ SaysAvailable(v)' = SaysAvailable(v)
    BY <1>10 DEF Given, SaysAvailable
  <2>6. \A v \in Worker : NoneBehind(to_center', v, "AVAILABLE_STATE", StateTags)
    <3> SUFFICES ASSUME NEW v \in Worker
                 PROVE  NoneBehind(to_center', v, "AVAILABLE_STATE", StateTags)
      OBVIOUS
    <3>1. NoneBehind(to_center, v, "AVAILABLE_STATE", StateTags)
      BY <1>1, <1>6 DEF AvailableInv
    <3>2. NoneBehind(net, v, "AVAILABLE_STATE", StateTags)
      <4>1. ack.tag \notin StateTags
        BY <1>8 DEF StateTags
      <4> QED
        BY <4>1, <3>1, <1>1, <1>8, PostBehind
    <3>3. \A x \in Messages(net, w) : x.tag # "AVAILABLE_STATE"
      BY <2>2, <1>1, <1>8, PostIn DEF SaysAvailable
    <3> HIDE DEF net
    <3> QED
      BY <3>2, <3>3, <1>3, <1>8, <1>9, PostBehind
  <2>7. \A v \in Worker : Count(to_worker', {v}, "TASK_FROM_CENTER") <= 1
    <3>1. \A v \in Worker : /\ Count(to_worker, {v}, "TASK_FROM_CENTER") <= 1
                            /\ Count(to_worker, {v}, "TASK_FROM_CENTER") \in Nat
      BY <1>1, <1>6, Counts DEF AvailableInv
    <3>2. Count(to_worker', {w}, "TASK_FROM_CENTER") <= 1
      BY <3>1, <1>11
    <3> QED
      BY <3>1, <3>2, <1>11
  <2>8. ASSUME NEW v \in Worker, process_state[v] = "AVAILABLE"
        PROVE  \A m \in Messages(to_center', v) : m.tag \notin StateTags
    BY <2>8, <2>2, <1>1, <1>6, <1>10 DEF AvailableInv
  <2> QED
    BY <1>1, <1>2, <1>3, <1>6, <2>1, <2>2, <2>3, <2>4, <2>5, <2>6, <2>7, <2>8
       DEF AvailableInv, TypeOK, WorkerTypes
<1> QED
  BY <1>1, <1>2, <1>14, <1>15, <1>16, <1>17, <1>18, <1>19, <1>20, ScoreTypesFrame,
     CenterTypesFrame, StreamTypesFrame, FullnessFrame, ScoreFrame DEF IInv, TypeOK

\* release_parent_if_passive turns a deferred acknowledgement into one on its way, or does
\* nothing.
LEMMA Releasing ==
    ASSUME IInv, NEW w \in Worker, NEW net \in Net(Worker, ToCenter), NEW d,
           release_parent_if_passive(w, net, d)
    PROVE  /\ to_center' \in Net(Worker, ToCenter)
           /\ parent' \in [Rank -> {None, Center}] /\ held' \in [Worker -> Task \cup {0}]
           /\ Cardinality(Engaged') + Count(to_center', Worker, "TASK_RECEIVED") =
                Cardinality(Engaged) + Count(net, Worker, "TASK_RECEIVED")
           /\ \A v \in Worker :
                /\ Count(to_center', {v}, "TASK_FOR_CENTER") = Count(net, {v}, "TASK_FOR_CENTER")
                /\ \A m \in Messages(net, v) : m \in Messages(to_center', v)
                /\ \A m \in Messages(to_center', v) :
                     m \in Messages(net, v) \/ m.tag = "TASK_RECEIVED"
                /\ \A tag : NoneBehind(net, v, tag, StateTags) =>
                              NoneBehind(to_center', v, tag, StateTags)
           /\ parent'[Center] = None
           /\ \A v \in Worker : v # w => parent'[v] = parent[v] /\ held'[v] = held[v]
           /\ parent'[w] = None => d = 0 \/ parent[w] = None
           /\ parent'[w] # None => parent[w] # None /\ held'[w] = held[w]
           /\ Cardinality(Engaged') \in Nat /\ Count(to_center', Worker, "TASK_RECEIVED") \in Nat
<1>1. DetectorTypes /\ DetectorInv
  BY DEF IInv, TypeOK
<1>2. CASE ~(d = 0 /\ parent[w] # None)
  <2>1. to_center' = net /\ parent' = parent /\ held' = held
    BY <1>2 DEF release_parent_if_passive
  <2>2. Count(net, Worker, "TASK_RECEIVED") \in Nat
    BY Ranks, CountNat
  <2> QED
    BY <1>1, <1>2, <2>1, <2>2, Counts DEF Engaged, DetectorTypes, DetectorInv
<1>3. CASE d = 0 /\ parent[w] # None
  <2> DEFINE m == TaskMsg("TASK_RECEIVED", held[w])
  <2>1. m \in ToCenter /\ m.tag = "TASK_RECEIVED" /\ m.tag \notin StateTags
    <3>1. held[w] \in Task
      BY <1>1, <1>3 DEF DetectorInv
    <3> QED
      BY <3>1, MessageTypes DEF StateTags
  <2>2. /\ to_center' = Post(net, w, m)
        /\ parent' = [parent EXCEPT ![w] = None] /\ held' = [held EXCEPT ![w] = 0]
    BY <1>3 DEF release_parent_if_passive
  <2> HIDE DEF m
  <2>3. /\ to_center' \in Net(Worker, ToCenter)
        /\ \A v \in Worker :
             /\ \A x \in Messages(net, v) : x \in Messages(to_center', v)
             /\ \A x \in Messages(to_center', v) : x \in Messages(net, v) \/ x.tag = "TASK_RECEIVED"
    BY <2>1, <2>2, PostIn
  <2>4. ASSUME NEW v \in Worker, NEW tag, NoneBehind(net, v, tag, StateTags)
        PROVE  NoneBehind(to_center', v, tag, StateTags)
    BY <2>1, <2>2, <2>4, PostBehind
  <2>5. \A v \in Worker : {v} \in SUBSET Worker
    OBVIOUS
  <2>6. /\ Count(to_center', Worker, "TASK_RECEIVED") = Count(net, Worker, "TASK_RECEIVED") + 1
        /\ \A v \in Worker :
             Count(to_center', {v}, "TASK_FOR_CENTER") = Count(net, {v}, "TASK_FOR_CENTER")
    BY <2>1, <2>2, <2>5, Ranks, CountPost
  <2>7. Cardinality(Engaged') = Cardinality(Engaged) - 1 /\ Cardinality(Engaged') \in Nat
    <3>1. \A v \in Worker : parent'[v] # None <=> v # w /\ parent[v] # None
      BY <1>1, <2>2, Ranks DEF DetectorTypes
    <3>2. Engaged' = Engaged \ {w} /\ w \in Engaged
      BY <1>3, <3>1 DEF Engaged
    <3>3. IsFiniteSet(Engaged')
      BY <3>2, Counts, FS_Subset
    <3> QED
      BY <3>2, <3>3, Counts, FS_RemoveElement, FS_CardinalityType
  <2>8. Count(net, Worker, "TASK_RECEIVED") \in Nat
    BY Ranks, CountNat
  <2>9. /\ Cardinality(Engaged') + Count(to_center', Worker, "TASK_RECEIVED") =
             Cardinality(Engaged) + Count(net, Worker, "TASK_RECEIVED")
        /\ Count(to_center', Worker, "TASK_RECEIVED") \in Nat
    BY <2>6, <2>7, <2>8, Counts
  <2>10. /\ parent' \in [Rank -> {None, Center}] /\ held' \in [Worker -> Task \cup {0}]
         /\ parent'[Center] = None /\ parent'[w] = None
         /\ \A v \in Worker : v # w => parent'[v] = parent[v] /\ held'[v] = held[v]
    BY <1>1, <2>2, Ranks DEF DetectorTypes, DetectorInv
  <2> QED
    BY <1>3, <2>3, <2>4, <2>6, <2>7, <2>9, <2>10
<1> QED
  BY <1>2, <1>3

\* process_task_received_ack does not throw: an acknowledgement on its way is counted in the
\* deficit of its worker.
LEMMA ReceiveAckNext ==
    ASSUME IInv, NEW w \in Worker, ReceiveAck(w)
    PROVE  IInv'
<1> DEFINE h == Head(to_worker[w])
<1>1. /\ TypeOK /\ WorkerInv /\ DetectorInv /\ PhaseInv /\ StreamInv /\ TaskInv /\ AvailableInv
      /\ FullnessInv /\ ScoreInv
      /\ to_center \in Net(Worker, ToCenter) /\ to_worker \in Net(Worker, ToWorker)
  BY DEF IInv, TypeOK, WorldTypes
<1>2. pc[w] = "probe" /\ to_worker[w] # <<>> /\ h.tag = "TASK_RECEIVED"
  BY DEF ReceiveAck, Arrived
<1>3. h \in Messages(to_worker, w) /\ deficit[w] > 0 /\ parent[w] # None
  BY <1>1, <1>2, MessagesType, OwedTo
<1>4. deficit[w] \in Nat /\ deficit[w] # 0
  BY <1>1, <1>3, Ranks DEF TypeOK, DetectorTypes
<1>5. /\ deficit' = [deficit EXCEPT ![w] = @ - 1] /\ to_worker' = Drop(to_worker, w)
      /\ release_parent_if_passive(w, to_center, deficit[w] - 1)
      /\ UNCHANGED <<pc, channelVars, is_center_full, busy, managerVars, global_score, cpc,
                     centerVars, collectVars, sentVars, receivedVars, score_updates, notices,
                     proposal, historyVars>>
  BY <1>4 DEF ReceiveAck
<1>6. cpc \in {"loop", "dispatch", "sending"}
  BY <1>3, StillOwed
<1>7. /\ to_center' \in Net(Worker, ToCenter)
      /\ parent' \in [Rank -> {None, Center}] /\ held' \in [Worker -> Task \cup {0}]
      /\ Cardinality(Engaged') + Count(to_center', Worker, "TASK_RECEIVED") =
           Cardinality(Engaged) + Count(to_center, Worker, "TASK_RECEIVED")
      /\ \A v \in Worker :
           /\ Count(to_center', {v}, "TASK_FOR_CENTER") = Count(to_center, {v}, "TASK_FOR_CENTER")
           /\ \A m \in Messages(to_center, v) : m \in Messages(to_center', v)
           /\ \A m \in Messages(to_center', v) :
                m \in Messages(to_center, v) \/ m.tag = "TASK_RECEIVED"
           /\ \A tag : NoneBehind(to_center, v, tag, StateTags) =>
                         NoneBehind(to_center', v, tag, StateTags)
      /\ parent'[Center] = None
      /\ \A v \in Worker : v # w => parent'[v] = parent[v] /\ held'[v] = held[v]
      /\ parent'[w] = None => deficit[w] - 1 = 0 \/ parent[w] = None
      /\ parent'[w] # None => parent[w] # None /\ held'[w] = held[w]
      /\ Cardinality(Engaged') \in Nat /\ Count(to_center', Worker, "TASK_RECEIVED") \in Nat
  BY <1>1, <1>5, Releasing
<1>8. /\ to_worker' \in Net(Worker, ToWorker)
      /\ \A v \in Worker :
           /\ \A m \in Messages(to_worker', v) : m \in Messages(to_worker, v)
           /\ \A m \in Messages(to_worker, v) : m \in Messages(to_worker', v) \/ (v = w /\ m = h)
  BY <1>1, <1>2, <1>5, DropIn
<1>9. /\ Count(to_worker', Worker, "TASK_FROM_CENTER") = Count(to_worker, Worker, "TASK_FROM_CENTER")
      /\ \A v \in Worker : Count(to_worker', {v}, "TASK_FROM_CENTER") =
                             Count(to_worker, {v}, "TASK_FROM_CENTER")
      /\ Count(to_worker', {w}, "TASK_RECEIVED") = Count(to_worker, {w}, "TASK_RECEIVED") - 1
      /\ \A v \in Worker \ {w} :
           Count(to_worker', {v}, "TASK_RECEIVED") = Count(to_worker, {v}, "TASK_RECEIVED")
  <2>1. \A v \in Worker : {v} \in SUBSET Worker
    OBVIOUS
  <2> QED
    BY <2>1, <1>1, <1>2, <1>5, Ranks, CountDrop
<1> HIDE DEF h
<1>10. DetectorTypes' /\ WorldTypes'
  <2>1. deficit' \in [Rank -> Nat]
    BY <1>1, <1>4, <1>5, Ranks DEF TypeOK, DetectorTypes
  <2> QED
    BY <2>1, <1>7, <1>8 DEF DetectorTypes, WorldTypes
<1>11. DetectorInv'
  <2>1. deficit'[Center] = deficit[Center] /\ deficit'[w] = deficit[w] - 1
        /\ \A v \in Worker : v # w => deficit'[v] = deficit[v]
    BY <1>1, <1>5, Ranks DEF TypeOK, DetectorTypes
  <2>2. deficit'[Center] = Count(to_worker', Worker, "TASK_FROM_CENTER") + Cardinality(Engaged')
                             + Count(to_center', Worker, "TASK_RECEIVED")
    BY <1>1, <1>7, <1>9, <2>1, Counts DEF DetectorInv
  <2>3. \A v \in Worker : deficit'[v] = Count(to_center', {v}, "TASK_FOR_CENTER")
                                          + Count(to_worker', {v}, "TASK_RECEIVED")
    <3>1. \A v \in Worker : /\ deficit[v] = Count(to_center, {v}, "TASK_FOR_CENTER")
                                            + Count(to_worker, {v}, "TASK_RECEIVED")
                            /\ Count(to_center, {v}, "TASK_FOR_CENTER") \in Nat
                            /\ Count(to_worker, {v}, "TASK_RECEIVED") \in Nat
      BY <1>1, Counts DEF DetectorInv
    <3>2. deficit'[w] = Count(to_center', {w}, "TASK_FOR_CENTER")
                          + Count(to_worker', {w}, "TASK_RECEIVED")
      BY <3>1, <1>7, <1>9, <2>1
    <3> QED
      BY <3>1, <3>2, <1>7, <1>9, <2>1
  <2>4. \A v \in Worker : parent'[v] = None => deficit'[v] = 0 /\ pc'[v] \in Idle
    BY <1>1, <1>2, <1>3, <1>5, <1>7, <2>1 DEF DetectorInv, Idle
  <2>5. \A v \in Worker : parent'[v] # None => held'[v] \in Task
    BY <1>1, <1>7 DEF DetectorInv
  <2> QED
    BY <1>7, <2>2, <2>3, <2>4, <2>5 DEF DetectorInv
<1>12. PhaseInv'
  BY <1>1, <1>5, <1>6, <1>8 DEF PhaseInv, Over, Announced
<1>13. TaskInv'
  <2>1. \A u \in Task, v \in Worker : CrossesAs(u, v)' <=> CrossesAs(u, v)
    <3>1. \A u : TaskMsg("TASK_FOR_CENTER", u).tag # "TASK_RECEIVED" /\ TaskMsg("TASK_FROM_CENTER", u) # h
      BY <1>2, MessageTypes DEF h
    <3> QED
      BY <1>7, <1>8, <3>1 DEF CrossesAs
  <2>2. \A u, v : KeptBy(u, v)' <=> KeptBy(u, v)
    BY <1>5 DEF KeptBy
  <2>3. 1 .. issued \subseteq Task
    BY <1>1, TaskAssumption DEF TypeOK, TaskTypes, Task
  <2> QED
    BY <1>1, <1>5, <2>1, <2>2, <2>3 DEF TaskInv
<1>14. AvailableInv'
  <2>1. \A v \in Worker : Given(v)' <=> Given(v)
    BY <1>2, <1>8 DEF Given
  <2>2. \A v \in Worker : SaysAvailable(v)' <=> SaysAvailable(v)
    BY <1>7 DEF SaysAvailable
  <2>3. \A v \in Worker : (\A m \in Messages(to_center, v) : m.tag \notin StateTags) =>
                            \A m \in Messages(to_center', v) : m.tag \notin StateTags
    BY <1>7 DEF StateTags
  <2>4. Available' = Available /\ CanDispatch' = CanDispatch
    BY <1>5 DEF Available, CanDispatch
  <2> QED
    BY <1>1, <1>5, <1>6, <1>7, <1>9, <2>1, <2>2, <2>3, <2>4 DEF AvailableInv
<1>15. SameSide
  BY <1>5 DEF SameSide
<1> QED
  BY <1>1, <1>5, <1>10, <1>11, <1>12, <1>13, <1>14, <1>15, WorkerTypesFrame, ScoreTypesFrame,
     CenterTypesFrame, StreamTypesFrame, TaskTypesFrame, WorkerFrame, StreamFrame, FullnessFrame,
     ScoreFrame DEF IInv, TypeOK

\* The end of task_funneling: AVAILABLE_STATE goes out before the deferred acknowledgement,
\* and no task is on its way to the worker.
LEMMA LeaveFunnelNext ==
    ASSUME IInv, NEW w \in Worker, LeaveFunnel(w)
    PROVE  IInv'
<1> DEFINE m0 == Msg("AVAILABLE_STATE")
           net == Post(to_center, w, m0)
<1>1. /\ TypeOK /\ WorkerInv /\ DetectorInv /\ PhaseInv /\ StreamInv /\ TaskInv /\ AvailableInv
      /\ FullnessInv /\ ScoreInv
      /\ to_center \in Net(Worker, ToCenter) /\ to_worker \in Net(Worker, ToWorker)
  BY DEF IInv, TypeOK, WorldTypes
<1>2. pc[w] = "leave" /\ queue[w] = <<>> /\ parent[w] # None /\ proposal[w] = Nothing
  BY <1>1 DEF LeaveFunnel, WorkerInv, DetectorInv, Idle
<1>3. /\ pc' = [pc EXCEPT ![w] = "probe"] /\ release_parent_if_passive(w, net, deficit[w])
      /\ UNCHANGED <<deficit, channelVars, is_center_full, busy, managerVars, global_score, cpc,
                     centerVars, collectVars, sentVars, receivedVars, to_worker, score_updates,
                     notices, proposal, historyVars>>
  BY <1>2 DEF LeaveFunnel
<1>4. cpc \in {"loop", "dispatch", "sending"}
  BY <1>2, StillOwed
<1>5. m0 \in ToCenter /\ m0.tag = "AVAILABLE_STATE"
  BY MessageTypes
<1> HIDE DEF m0
<1>6. /\ net \in Net(Worker, ToCenter)
      /\ \A v \in Worker :
           /\ \A m \in Messages(to_center, v) : m \in Messages(net, v)
           /\ \A m \in Messages(net, v) : m \in Messages(to_center, v) \/ (v = w /\ m = m0)
  BY <1>1, <1>5, PostIn
<1>7. /\ Count(net, Worker, "TASK_RECEIVED") = Count(to_center, Worker, "TASK_RECEIVED")
      /\ \A v \in Worker :
           Count(net, {v}, "TASK_FOR_CENTER") = Count(to_center, {v}, "TASK_FOR_CENTER")
  <2>1. \A v \in Worker : {v} \in SUBSET Worker
    OBVIOUS
  <2> QED
    BY <2>1, <1>1, <1>5, Ranks, CountPost
<1>8. process_state[w] # "AVAILABLE" /\ ~SaysAvailable(w) /\ ~Given(w)
  BY <1>1, <1>2, <1>4 DEF AvailableInv
<1>9. \A v \in Worker : NoneBehind(net, v, "AVAILABLE_STATE", StateTags)
  <2> SUFFICES ASSUME NEW v \in Worker PROVE NoneBehind(net, v, "AVAILABLE_STATE", StateTags)
    OBVIOUS
  <2>1. NoneBehind(to_center, v, "AVAILABLE_STATE", StateTags)
    BY <1>1, <1>4 DEF AvailableInv
  <2>2. \A x \in Messages(to_center, w) : x.tag # "AVAILABLE_STATE"
    BY <1>8 DEF SaysAvailable
  <2> QED
    BY <2>1, <2>2, <1>1, <1>5, PostBehind
<1> HIDE DEF net
<1>10. /\ to_center' \in Net(Worker, ToCenter)
       /\ parent' \in [Rank -> {None, Center}] /\ held' \in [Worker -> Task \cup {0}]
       /\ Cardinality(Engaged') + Count(to_center', Worker, "TASK_RECEIVED") =
            Cardinality(Engaged) + Count(net, Worker, "TASK_RECEIVED")
       /\ \A v \in Worker :
            /\ Count(to_center', {v}, "TASK_FOR_CENTER") = Count(net, {v}, "TASK_FOR_CENTER")
            /\ \A m \in Messages(net, v) : m \in Messages(to_center', v)
            /\ \A m \in Messages(to_center', v) :
                 m \in Messages(net, v) \/ m.tag = "TASK_RECEIVED"
            /\ \A tag : NoneBehind(net, v, tag, StateTags) =>
                          NoneBehind(to_center', v, tag, StateTags)
       /\ parent'[Center] = None
       /\ \A v \in Worker : v # w => parent'[v] = parent[v] /\ held'[v] = held[v]
       /\ parent'[w] = None => deficit[w] = 0 \/ parent[w] = None
       /\ parent'[w] # None => parent[w] # None /\ held'[w] = held[w]
       /\ Cardinality(Engaged') \in Nat /\ Count(to_center', Worker, "TASK_RECEIVED") \in Nat
  BY <1>1, <1>3, <1>6, Releasing
<1>11. DetectorTypes' /\ WorldTypes' /\ WorkerTypes'
  <2>1. DetectorTypes' /\ WorldTypes'
    BY <1>1, <1>3, <1>10 DEF TypeOK, DetectorTypes, WorldTypes
  <2> QED
    BY <2>1, <1>1, <1>3 DEF TypeOK, WorkerTypes, MainPC
<1>12. pc'[w] = "probe" /\ \A v \in Worker : v # w => pc'[v] = pc[v]
  BY <1>1, <1>3 DEF TypeOK, WorkerTypes
<1>13. WorkerInv'
  BY <1>1, <1>2, <1>3, <1>12 DEF WorkerInv, Idle
<1>14. DetectorInv'
  <2>1. deficit'[Center] = Count(to_worker', Worker, "TASK_FROM_CENTER") + Cardinality(Engaged')
                             + Count(to_center', Worker, "TASK_RECEIVED")
    BY <1>1, <1>3, <1>7, <1>10, Counts DEF DetectorInv
  <2>2. \A v \in Worker : deficit'[v] = Count(to_center', {v}, "TASK_FOR_CENTER")
                                          + Count(to_worker', {v}, "TASK_RECEIVED")
    BY <1>1, <1>3, <1>7, <1>10 DEF DetectorInv
  <2>3. \A v \in Worker : parent'[v] = None => deficit'[v] = 0 /\ pc'[v] \in Idle
    BY <1>1, <1>2, <1>3, <1>10, <1>12 DEF DetectorInv, Idle
  <2>4. \A v \in Worker : parent'[v] # None => held'[v] \in Task
    BY <1>1, <1>10 DEF DetectorInv
  <2> QED
    BY <1>10, <2>1, <2>2, <2>3, <2>4 DEF DetectorInv
<1>15. PhaseInv'
  BY <1>1, <1>3, <1>4, <1>12 DEF PhaseInv, Over, Announced, Available
<1>16. StreamInv'
  BY <1>1, <1>3, <1>12 DEF StreamInv
<1>17. TaskInv'
  <2>1. \A u \in Task, v \in Worker : CrossesAs(u, v)' <=> CrossesAs(u, v)
    <3>1. \A u : /\ TaskMsg("TASK_FOR_CENTER", u).tag # "TASK_RECEIVED"
                 /\ TaskMsg("TASK_FOR_CENTER", u) # m0
      BY <1>5, MessageTypes
    <3> QED
      BY <1>3, <1>6, <1>10, <3>1 DEF CrossesAs
  <2>3. 1 .. issued \subseteq Task /\ \A u \in Task, v \in Worker : KeptBy(u, v)' <=> KeptBy(u, v)
    BY <1>1, <1>2, <1>3, <1>12, TaskAssumption DEF TypeOK, TaskTypes, Task, KeptBy
  <2> QED
    BY <1>1, <1>3, <2>1, <2>3 DEF TaskInv
<1>18. AvailableInv'
  <2>1. \A v \in Worker : Given(v)' <=> Given(v)
    BY <1>3 DEF Given
  <2>2. \A v \in Worker : v # w => (SaysAvailable(v)' => SaysAvailable(v))
    BY <1>6, <1>10 DEF SaysAvailable
  <2>3. \A v \in Worker : v # w =>
          ((\A m \in Messages(to_center, v) : m.tag \notin StateTags) =>
             \A m \in Messages(to_center', v) : m.tag \notin StateTags)
    BY <1>6, <1>10 DEF StateTags
  <2>4. Available' = Available /\ CanDispatch' = CanDispatch
    BY <1>3 DEF Available, CanDispatch
  <2>5. \A v \in Worker : NoneBehind(to_center', v, "AVAILABLE_STATE", StateTags)
    BY <1>9, <1>10
  <2> QED
    BY <1>1, <1>3, <1>4, <1>8, <1>12, <2>1, <2>2, <2>3, <2>4, <2>5 DEF AvailableInv
<1> QED
  BY <1>1, <1>3, <1>11, <1>13, <1>14, <1>15, <1>16, <1>17, <1>18, ScoreTypesFrame,
     CenterTypesFrame, StreamTypesFrame, TaskTypesFrame, FullnessFrame, ScoreFrame
     DEF IInv, TypeOK

\* The main thread goes on to another place, and does nothing else.
LEMMA MoveNext ==
    ASSUME IInv, NEW w \in Worker, NEW x \in {"poll", "check"}, pc[w] \in {"isdone", "propose"},
           proposal[w] = Nothing, pc' = [pc EXCEPT ![w] = x],
           UNCHANGED <<detectorVars, channelVars, is_center_full, busy, managerVars, global_score,
                       cpc, centerVars, collectVars, sentVars, receivedVars, worldVars,
                       score_updates, notices, proposal, historyVars>>
    PROVE  IInv'
<1>1. /\ TypeOK /\ WorkerInv /\ DetectorInv /\ PhaseInv /\ StreamInv /\ TaskInv /\ AvailableInv
      /\ FullnessInv /\ ScoreInv
  BY DEF IInv
<1>2. pc'[w] = x /\ \A v \in Worker : v # w => pc'[v] = pc[v]
  BY <1>1 DEF TypeOK, WorkerTypes
<1>3. SameSide
  BY <1>2 DEF SameSide, Inside
<1>4. WorkerTypes'
  BY <1>1 DEF TypeOK, WorkerTypes, MainPC
<1>5. WorkerInv'
  BY <1>1, <1>2 DEF WorkerInv, Idle
<1>6. TaskInv'
  BY <1>1, <1>2 DEF TaskInv, CrossesAs, KeptBy
<1> QED
  BY <1>1, <1>3, <1>4, <1>5, <1>6, DetectorTypesFrame, ScoreTypesFrame, CenterTypesFrame,
     StreamTypesFrame, WorldTypesFrame, TaskTypesFrame, DetectorFrame, PhaseFrame, StreamFrame,
     AvailableFrame, FullnessFrame, ScoreFrame DEF IInv, TypeOK

\* MPI_Ssend has returned.
LEMMA ProposalMatchedNext ==
    ASSUME IInv, NEW w \in Worker, ProposalMatched(w)
    PROVE  IInv'
  BY MoveNext DEF ProposalMatched

\* A pop at one of its three places in task_funneling.
LEMMA PopNext ==
    ASSUME IInv, NEW w \in Worker, NEW x, PopBundle(w, x),
           \/ pc[w] = "pop" /\ x = "poll"
           \/ pc[w] = "check" /\ x = "isdone"
           \/ pc[w] = "isdone" /\ x = "leave" /\ ~busy[w]
    PROVE  IInv'
<1>1. /\ TypeOK /\ WorkerInv /\ DetectorInv /\ PhaseInv /\ StreamInv /\ TaskInv /\ AvailableInv
      /\ FullnessInv /\ ScoreInv /\ proposal[w] = Nothing
  BY DEF IInv, WorkerInv
<1>2. UNCHANGED <<detectorVars, transmitting, is_center_full, busy, managerVars, global_score,
                  cpc, centerVars, collectVars, sentVars, receivedVars, worldVars,
                  score_updates, notices, proposal, historyVars>>
  BY DEF PopBundle
<1>3. pc[w] \in Inside /\ x \in Inside \ {"send", "sending"}
      /\ pc[w] \notin {"send", "sending", "leave"}
  BY DEF Inside
<1>4. ASSUME queue[w] # <<>>
      PROVE  /\ SameSide /\ WorkerTypes' /\ WorkerInv'
             /\ \A v \in Worker, u \in Task : KeptBy(u, v)' <=> KeptBy(u, v)
  <2>1. /\ bundle' = [bundle EXCEPT ![w] = Head(queue[w])] /\ queue' = [queue EXCEPT ![w] = Tail(@)]
        /\ pc' = [pc EXCEPT ![w] = "send"]
    BY <1>4 DEF PopBundle
  <2>2. /\ pc'[w] = "send" /\ bundle'[w] = Head(queue[w]) /\ queue'[w] = Tail(queue[w])
        /\ \A v \in Worker : v # w => /\ pc'[v] = pc[v] /\ bundle'[v] = bundle[v]
                                      /\ queue'[v] = queue[v]
    BY <1>1, <2>1 DEF TypeOK, WorkerTypes
  <2>3. queue[w] \in Seq(Task) /\ Len(queue[w]) = 1 /\ transmitting[w]
    BY <1>1, <1>4 DEF TypeOK, WorkerTypes, WorkerInv
  <2>4. Head(queue[w]) \in Task /\ Tail(queue[w]) = <<>>
    <3> DEFINE q == queue[w]
    <3>1. q \in Seq(Task) /\ Len(q) = 1 /\ q # <<>>
      BY <1>4, <2>3
    <3> HIDE DEF q
    <3>2. Head(q) \in Task
      BY <3>1
    <3>3. Tail(q) \in Seq(Task) /\ Len(Tail(q)) = 0
      BY <3>1
    <3>4. \A s \in Seq(Task) : Len(s) = 0 => s = <<>>
      OBVIOUS
    <3>5. Tail(q) = <<>>
      BY <3>3, <3>4
    <3> QED
      BY <3>2, <3>5 DEF q
  <2>5. WorkerTypes'
    <3>1. queue' \in [Worker -> Seq(Task)]
      <4>1. \A v \in Worker : queue'[v] \in Seq(Task)
        <5>1. queue \in [Worker -> Seq(Task)] /\ <<>> \in Seq(Task)
          BY <1>1 DEF TypeOK, WorkerTypes
        <5> QED
          BY <5>1, <2>2, <2>4
      <4> QED
        BY <4>1, <1>1, <2>1 DEF TypeOK, WorkerTypes
    <3> QED
      BY <1>1, <1>2, <2>1, <2>4, <3>1 DEF TypeOK, WorkerTypes, MainPC
  <2>6. WorkerInv'
    <3>1. /\ pc'[w] = "send" /\ bundle'[w] \in Task /\ queue'[w] = <<>> /\ transmitting'[w]
          /\ proposal'[w] = Nothing
      BY <1>1, <1>2, <2>2, <2>3, <2>4 DEF WorkerInv
    <3>2. ASSUME NEW v \in Worker, v # w
          PROVE  /\ pc'[v] = pc[v] /\ bundle'[v] = bundle[v] /\ queue'[v] = queue[v]
                 /\ busy'[v] = busy[v] /\ transmitting'[v] = transmitting[v]
                 /\ proposal'[v] = proposal[v]
      BY <1>2, <2>2, <3>2
    <3> QED
      BY <1>1, <3>1, <3>2 DEF WorkerInv, Idle
  <2>7. \A v \in Worker, u \in Task : KeptBy(u, v)' <=> KeptBy(u, v)
    BY <1>3, <1>4, <2>2, <2>4 DEF KeptBy
  <2>8. SameSide
    BY <1>3, <2>2 DEF SameSide, Inside
  <2> QED
    BY <2>5, <2>6, <2>7, <2>8
<1>5. ASSUME queue[w] = <<>>
      PROVE  /\ SameSide /\ WorkerTypes' /\ WorkerInv'
             /\ \A v \in Worker, u \in Task : KeptBy(u, v)' <=> KeptBy(u, v)
  <2>1. /\ pc' = [pc EXCEPT ![w] = x] /\ bundle' = bundle /\ queue' = queue
    BY <1>5 DEF PopBundle
  <2>2. pc'[w] = x /\ \A v \in Worker : v # w => pc'[v] = pc[v]
    BY <1>1, <2>1 DEF TypeOK, WorkerTypes
  <2>3. WorkerTypes'
    BY <1>1, <1>2, <1>3, <2>1 DEF TypeOK, WorkerTypes, MainPC, Inside
  <2>4. WorkerInv'
    BY <1>1, <1>2, <1>3, <1>5, <2>1, <2>2 DEF WorkerInv, Idle
  <2>5. \A v \in Worker, u \in Task : KeptBy(u, v)' <=> KeptBy(u, v)
    BY <1>3, <2>1, <2>2 DEF KeptBy
  <2>6. SameSide
    BY <1>3, <2>2 DEF SameSide, Inside
  <2> QED
    BY <2>3, <2>4, <2>5, <2>6
<1>6. SameSide /\ WorkerTypes' /\ WorkerInv'
      /\ \A v \in Worker, u \in Task : KeptBy(u, v)' <=> KeptBy(u, v)
  BY <1>4, <1>5
<1>7. TaskInv'
  <2>1. 1 .. issued \subseteq Task
    BY <1>1, TaskAssumption DEF TypeOK, TaskTypes, Task
  <2>2. \A u, v : CrossesAs(u, v)' <=> CrossesAs(u, v)
    BY <1>2 DEF CrossesAs
  <2> QED
    BY <1>1, <1>2, <1>6, <2>1, <2>2 DEF TaskInv
<1> QED
  BY <1>1, <1>2, <1>6, <1>7, DetectorTypesFrame, ScoreTypesFrame, CenterTypesFrame,
     StreamTypesFrame, WorldTypesFrame, TaskTypesFrame, DetectorFrame, PhaseFrame, StreamFrame,
     AvailableFrame, FullnessFrame, ScoreFrame DEF IInv, TypeOK

\* is_done, and the second pop if the pool is done.
LEMMA CheckDoneNext ==
    ASSUME IInv, NEW w \in Worker, CheckDone(w)
    PROVE  IInv'
<1>1. CASE busy[w]
  <2>1. proposal[w] = Nothing
    BY DEF CheckDone, IInv, WorkerInv
  <2> QED
    BY <1>1, <2>1, MoveNext DEF CheckDone
<1>2. CASE ~busy[w]
  BY <1>2, PopNext DEF CheckDone
<1> QED
  BY <1>1, <1>2

\* The end of send_task_to_center's critical section does not throw.
LEMMA TaskSentNext ==
    ASSUME IInv, NEW w \in Worker, TaskSent(w)
    PROVE  IInv'
<1>1. /\ TypeOK /\ WorkerInv /\ DetectorInv /\ PhaseInv /\ StreamInv /\ TaskInv /\ AvailableInv
      /\ FullnessInv /\ ScoreInv
  BY DEF IInv
<1>2. pc[w] = "sending" /\ queue[w] = <<>>
  BY <1>1 DEF TaskSent, WorkerInv
<1>3. /\ transmitting' = [transmitting EXCEPT ![w] = FALSE] /\ bundle' = [bundle EXCEPT ![w] = 0]
      /\ pc' = [pc EXCEPT ![w] = "poll"]
      /\ UNCHANGED <<detectorVars, queue, is_center_full, busy, managerVars, global_score, cpc,
                     centerVars, collectVars, sentVars, receivedVars, worldVars, score_updates,
                     notices, proposal, historyVars>>
  BY <1>2 DEF TaskSent
<1>4. /\ pc'[w] = "poll" /\ ~transmitting'[w] /\ bundle'[w] = 0
      /\ \A v \in Worker : v # w => /\ pc'[v] = pc[v] /\ transmitting'[v] = transmitting[v]
                                    /\ bundle'[v] = bundle[v]
  BY <1>1, <1>3 DEF TypeOK, WorkerTypes
<1>5. SameSide
  BY <1>2, <1>4 DEF SameSide, Inside
<1>6. WorkerTypes'
  BY <1>1, <1>3 DEF TypeOK, WorkerTypes, MainPC
<1>7. WorkerInv'
  BY <1>1, <1>2, <1>3, <1>4 DEF WorkerInv, Idle
<1>8. TaskInv'
  <2>1. \A v \in Worker : \A u : KeptBy(u, v)' <=> KeptBy(u, v)
    BY <1>2, <1>3, <1>4 DEF KeptBy
  <2>2. \A u, v : CrossesAs(u, v)' <=> CrossesAs(u, v)
    BY <1>3 DEF CrossesAs
  <2> QED
    BY <1>1, <1>3, <2>1, <2>2 DEF TaskInv
<1> QED
  BY <1>1, <1>3, <1>5, <1>6, <1>7, <1>8, DetectorTypesFrame, ScoreTypesFrame, CenterTypesFrame,
     StreamTypesFrame, WorldTypesFrame, TaskTypesFrame, DetectorFrame, PhaseFrame, StreamFrame,
     AvailableFrame, FullnessFrame, ScoreFrame DEF IInv, TypeOK

\* A message that is no state message leaves what the center knows of the workers alone.
LEMMA PostKeepsAvailable ==
    ASSUME IInv, NEW w \in Worker, NEW m \in ToCenter, m.tag \notin StateTags,
           to_center' = Post(to_center, w, m), SameSide,
           UNCHANGED <<cpc, process_state, nodes_available, center_queue, to_worker>>
    PROVE  AvailableInv'
<1>1. AvailableInv /\ to_center \in Net(Worker, ToCenter)
  BY DEF IInv, TypeOK, WorldTypes
<1>2. \A v \in Worker : \A x : x \in Messages(to_center', v) =>
                                 x \in Messages(to_center, v) \/ x.tag \notin StateTags
  BY <1>1, PostIn
<1>3. \A v \in Worker : SaysAvailable(v)' => SaysAvailable(v)
  BY <1>2 DEF SaysAvailable, StateTags
<1>4. ASSUME NEW v \in Worker, NoneBehind(to_center, v, "AVAILABLE_STATE", StateTags)
      PROVE  NoneBehind(to_center', v, "AVAILABLE_STATE", StateTags)
  BY <1>1, <1>4, PostBehind
<1>5. \A v \in Worker : Given(v)' <=> Given(v)
  BY DEF Given
<1>6. Available' = Available /\ CanDispatch' = CanDispatch
  BY DEF Available, CanDispatch
<1>7. \A v \in Worker : pc[v] = "probe" => pc'[v] = "probe"
  BY DEF SameSide, Inside
<1> QED
  BY <1>1, <1>2, <1>3, <1>4, <1>5, <1>6, <1>7 DEF AvailableInv

\* send_task_to_center: the task is on its way and counted.
LEMMA SendTaskNext ==
    ASSUME IInv, NEW w \in Worker, SendTask(w)
    PROVE  IInv'
<1> DEFINE m == TaskMsg("TASK_FOR_CENTER", bundle[w])
<1>1. /\ TypeOK /\ WorkerInv /\ DetectorInv /\ PhaseInv /\ StreamInv /\ TaskInv /\ AvailableInv
      /\ FullnessInv /\ ScoreInv
      /\ to_center \in Net(Worker, ToCenter) /\ to_worker \in Net(Worker, ToWorker)
  BY DEF IInv, TypeOK, WorldTypes
<1>2. /\ pc[w] = "send" /\ deficit' = [deficit EXCEPT ![w] = @ + 1]
      /\ to_center' = Post(to_center, w, m) /\ pc' = [pc EXCEPT ![w] = "sending"]
      /\ UNCHANGED <<parent, held, channelVars, is_center_full, busy, managerVars, global_score,
                     cpc, centerVars, collectVars, sentVars, receivedVars, to_worker,
                     score_updates, notices, proposal, historyVars>>
  BY DEF SendTask
<1>3. bundle[w] \in Task /\ parent[w] # None /\ queue[w] = <<>>
  BY <1>1, <1>2 DEF WorkerInv, DetectorInv, Idle
<1>4. m \in ToCenter /\ m.tag = "TASK_FOR_CENTER" /\ m.tag \notin StateTags
  BY <1>3, MessageTypes DEF StateTags
<1> HIDE DEF m
<1>5. /\ to_center' \in Net(Worker, ToCenter)
      /\ \A v \in Worker : \A x : x \in Messages(to_center', v) <=>
                                    x \in Messages(to_center, v) \/ (v = w /\ x = m)
  BY <1>1, <1>2, <1>4, PostIn
<1>6. /\ Count(to_center', Worker, "TASK_RECEIVED") = Count(to_center, Worker, "TASK_RECEIVED")
      /\ Count(to_center', {w}, "TASK_FOR_CENTER") = Count(to_center, {w}, "TASK_FOR_CENTER") + 1
      /\ \A v \in Worker : v # w =>
           Count(to_center', {v}, "TASK_FOR_CENTER") = Count(to_center, {v}, "TASK_FOR_CENTER")
  <2>1. \A v \in Worker : {v} \in SUBSET Worker
    OBVIOUS
  <2> QED
    BY <2>1, <1>1, <1>2, <1>4, Ranks, CountPost
<1>7. pc'[w] = "sending" /\ \A v \in Worker : v # w => pc'[v] = pc[v]
  BY <1>1, <1>2 DEF TypeOK, WorkerTypes
<1>8. /\ deficit' \in [Rank -> Nat] /\ deficit'[w] = deficit[w] + 1
      /\ \A r \in Rank : r # w => deficit'[r] = deficit[r]
  BY <1>1, <1>2, Ranks DEF TypeOK, DetectorTypes
<1>9. SameSide
  BY <1>2, <1>7 DEF SameSide, Inside
<1>10. DetectorTypes' /\ WorldTypes' /\ WorkerTypes'
  <2>1. DetectorTypes' /\ WorldTypes'
    BY <1>1, <1>2, <1>5, <1>8 DEF TypeOK, DetectorTypes, WorldTypes
  <2> QED
    BY <2>1, <1>1, <1>2 DEF TypeOK, WorkerTypes, MainPC
<1>11. WorkerInv'
  BY <1>1, <1>2, <1>7 DEF WorkerInv, Idle
<1>12. DetectorInv'
  <2>1. Center \in Rank /\ w \in Rank /\ Center # w /\ deficit'[Center] = deficit[Center]
    BY <1>8, Ranks
  <2>2. Engaged' = Engaged
    BY <1>2 DEF Engaged
  <2>3. deficit'[Center] = Count(to_worker', Worker, "TASK_FROM_CENTER") + Cardinality(Engaged')
                             + Count(to_center', Worker, "TASK_RECEIVED")
    BY <1>1, <1>2, <1>6, <2>1, <2>2 DEF DetectorInv
  <2>4. deficit'[w] = Count(to_center', {w}, "TASK_FOR_CENTER")
                        + Count(to_worker', {w}, "TASK_RECEIVED")
    BY <1>1, <1>2, <1>6, <1>8, Counts DEF DetectorInv
  <2>5. \A v \in Worker : v # w =>
          deficit'[v] = Count(to_center', {v}, "TASK_FOR_CENTER")
                          + Count(to_worker', {v}, "TASK_RECEIVED")
    BY <1>1, <1>2, <1>6, <1>8, Ranks DEF DetectorInv
  <2>6. \A v \in Worker : parent'[v] = None => deficit'[v] = 0 /\ pc'[v] \in Idle
    BY <1>1, <1>2, <1>3, <1>7, <1>8, Ranks DEF DetectorInv
  <2> QED
    BY <1>1, <1>2, <2>3, <2>4, <2>5, <2>6 DEF DetectorInv
<1>13. PhaseInv'
  <2>1. cpc \in {"loop", "dispatch", "sending"}
    BY <1>3, StillOwed
  <2> QED
    BY <1>1, <1>2, <1>7, <2>1 DEF PhaseInv, Over, Announced
<1>14. TaskInv'
  <2>1. 1 .. issued \subseteq Task
    BY <1>1, TaskAssumption DEF TypeOK, TaskTypes, Task
  <2>2. \A u : TaskMsg("TASK_FOR_CENTER", u) = m => u = bundle[w]
    BY MessageTypes DEF m
  <2>3. \A u \in Task, v \in Worker : CrossesAs(u, v) => CrossesAs(u, v)'
    BY <1>2, <1>5 DEF CrossesAs
  <2>4. \A u \in Task, v \in Worker : KeptBy(u, v) => KeptBy(u, v)' \/ CrossesAs(u, v)'
    BY <1>2, <1>3, <1>5, <1>7 DEF CrossesAs, KeptBy, m
  <2>5. \A u \in Task, v \in Worker :
          CrossesAs(u, v)' \/ KeptBy(u, v)' => CrossesAs(u, v) \/ KeptBy(u, v)
    BY <1>2, <1>5, <1>7, <2>2 DEF CrossesAs, KeptBy
  <2> QED
    BY <1>1, <1>2, <2>1, <2>3, <2>4, <2>5 DEF TaskInv
<1>15. AvailableInv'
  BY <1>2, <1>4, <1>9, PostKeepsAvailable
<1> QED
  BY <1>1, <1>2, <1>9, <1>10, <1>11, <1>12, <1>13, <1>14, <1>15, ScoreTypesFrame,
     CenterTypesFrame, StreamTypesFrame, TaskTypesFrame, StreamFrame, FullnessFrame, ScoreFrame
     DEF IInv, TypeOK

\* A score that beats another one is not the default score.
LEMMA Better ==
    ASSUME NEW s \in Int, NEW g \in Int, should_update(g, s), Found(g)
    PROVE  s # Default /\ Found(s)
  BY ScoreAssumption DEF should_update, Found

\* The section that protects MPI calls: a proposal is a score some task found.
LEMMA PollCenterNext ==
    ASSUME IInv, NEW w \in Worker, PollCenter(w)
    PROVE  IInv'
<1>1. /\ TypeOK /\ WorkerInv /\ DetectorInv /\ PhaseInv /\ StreamInv /\ TaskInv /\ AvailableInv
      /\ FullnessInv /\ ScoreInv
  BY DEF IInv
<1>2. /\ pc[w] = "poll" /\ update_score(w, global_score'[w])
      /\ UNCHANGED <<detectorVars, channelVars, busy, cpc, centerVars, collectVars, sentVars,
                     worldVars, historyVars>>
  BY DEF PollCenter
<1>3. PICK ns \in 0 .. Len(score_updates[w]), nn \in 0 .. Len(notices[w]) :
        ReceiveFromCenter(w, ns, nn)
  <2>1. PICK ns \in maybe_receive(score_updates[w]), nn \in maybe_receive(notices[w]) :
          ReceiveFromCenter(w, ns, nn)
    BY DEF PollCenter
  <2>2. score_updates[w] \in Seq(Scores) /\ notices[w] \in Seq(BOOLEAN)
    BY <1>1 DEF TypeOK, StreamTypes, Net
  <2>3. ns \in 0 .. Len(score_updates[w])
    BY <2>2 DEF maybe_receive
  <2>4. nn \in 0 .. Len(notices[w])
    BY <2>2 DEF maybe_receive
  <2> QED
    BY <2>1, <2>3, <2>4
<1>4. /\ StreamTypes' /\ FullnessInv'
      /\ global_score' \in [Rank -> Scores \cup {Default}]
      /\ \A r \in Rank : Found(global_score'[r])
      /\ \A v \in Worker : \A s \in Messages(score_updates', v) : Found(s)
      /\ \A v \in Worker :
           /\ score_updates_sent' = score_updates_received'[v] + Len(score_updates'[v])
           /\ notices_sent' = notices_received'[v] + Len(notices'[v])
           /\ score_updates[v] = <<>> => score_updates'[v] = <<>>
           /\ notices[v] = <<>> => notices'[v] = <<>>
  BY <1>2, <1>3, ReadingKeeps
<1> DEFINE g == global_score'[w]
<1>5. g \in Scores \cup {Default} /\ Found(g) /\ g \in Int
  BY <1>4, Ranks, ScoreAssumption
<1>6. score[w] \in Scores \cup {Default} /\ Found(score[w]) /\ score[w] \in Int
  BY <1>1, ScoreAssumption DEF TypeOK, ScoreTypes, ScoreInv
<1> HIDE DEF g
<1>7. \/ /\ score' = [score EXCEPT ![w] = g] /\ result' = [result EXCEPT ![w] = Nothing]
         /\ pc' = [pc EXCEPT ![w] = "check"] /\ proposal' = proposal
      \/ /\ should_update(g, score[w]) /\ proposal' = [proposal EXCEPT ![w] = score[w]]
         /\ pc' = [pc EXCEPT ![w] = "propose"] /\ score' = score /\ result' = result
      \/ /\ pc' = [pc EXCEPT ![w] = "check"] /\ UNCHANGED <<score, result, proposal>>
  BY <1>2 DEF update_score, g
<1>8. /\ score' \in [Worker -> Scores \cup {Default}] /\ \A v \in Worker : Found(score'[v])
      /\ result' \in [Worker -> Scores \cup {Nothing}]
  BY <1>1, <1>5, <1>7 DEF TypeOK, ScoreTypes, ScoreInv
<1>9. /\ proposal' \in [Worker -> Scores \cup {Nothing}]
      /\ \A v \in Worker : proposal'[v] # Nothing => Found(proposal'[v])
      /\ \A v \in Worker : v # w => proposal'[v] = proposal[v]
      /\ proposal'[w] # Nothing => pc'[w] = "propose"
  <2>1. proposal[w] = Nothing
    BY <1>1, <1>2 DEF WorkerInv
  <2>2. CASE proposal' = proposal
    BY <1>1, <2>1, <2>2 DEF TypeOK, ScoreTypes, ScoreInv
  <2>3. CASE /\ should_update(g, score[w]) /\ proposal' = [proposal EXCEPT ![w] = score[w]]
             /\ pc' = [pc EXCEPT ![w] = "propose"]
    <3>1. score[w] \in Scores /\ Found(score[w])
      BY <1>5, <1>6, <2>3, Better
    <3> QED
      BY <1>1, <2>3, <3>1 DEF TypeOK, ScoreTypes, ScoreInv, WorkerTypes
  <2> QED
    BY <1>7, <2>2, <2>3
<1>10. /\ pc'[w] \in {"check", "propose"} /\ \A v \in Worker : v # w => pc'[v] = pc[v]
       /\ pc' \in [Worker -> MainPC]
  BY <1>1, <1>7 DEF TypeOK, WorkerTypes, MainPC
<1>11. SameSide
  BY <1>2, <1>10 DEF SameSide, Inside
<1>12. ScoreTypes' /\ ScoreInv'
  BY <1>4, <1>8, <1>9 DEF ScoreTypes, ScoreInv
<1>13. WorkerTypes' /\ WorkerInv'
  <2>1. WorkerTypes'
    BY <1>1, <1>2, <1>10 DEF TypeOK, WorkerTypes
  <2> QED
    BY <2>1, <1>1, <1>2, <1>9, <1>10 DEF WorkerInv, Idle
<1>14. StreamInv'
  BY <1>1, <1>2, <1>4, <1>10 DEF StreamInv
<1>15. TaskInv'
  BY <1>1, <1>2, <1>10 DEF TaskInv, CrossesAs, KeptBy
<1> QED
  BY <1>1, <1>2, <1>4, <1>11, <1>12, <1>13, <1>14, <1>15, DetectorTypesFrame, CenterTypesFrame,
     WorldTypesFrame, TaskTypesFrame, DetectorFrame, PhaseFrame, AvailableFrame
     DEF IInv, TypeOK

\* process_termination finds the worker passive, and exactly as many messages to drain as
\* are on their way: it does not throw.
LEMMA ReceiveTerminationNext ==
    ASSUME IInv, NEW w \in Worker, ReceiveTermination(w)
    PROVE  IInv'
<1> DEFINE h == Head(to_worker[w])
           ns == Len(score_updates[w])
           nn == Len(notices[w])
<1>1. /\ TypeOK /\ WorkerInv /\ DetectorInv /\ PhaseInv /\ StreamInv /\ TaskInv /\ AvailableInv
      /\ FullnessInv /\ ScoreInv
      /\ to_center \in Net(Worker, ToCenter) /\ to_worker \in Net(Worker, ToWorker)
  BY DEF IInv, TypeOK, WorldTypes
<1>2. pc[w] = "probe" /\ to_worker[w] # <<>> /\ h.tag = "TERMINATION"
  BY DEF ReceiveTermination, Arrived
<1>3. /\ h \in Messages(to_worker, w) /\ cpc \in Announced
      /\ h.counts = <<score_updates_sent, notices_sent>>
  BY <1>1, <1>2, MessagesType DEF PhaseInv
<1>4. parent[w] = None /\ deficit[w] = 0
  <2>1. parent[w] = None
    BY <1>3, StillOwed DEF Announced
  <2> QED
    BY <1>1, <2>1 DEF DetectorInv
<1>5. queue[w] = <<>> /\ ~transmitting[w]
  BY <1>1, <1>2 DEF WorkerInv, Idle
<1>6. /\ ns \in Nat /\ nn \in Nat /\ score_updates_received[w] \in Nat /\ notices_received[w] \in Nat
  <2>1. score_updates[w] \in Seq(Scores) /\ notices[w] \in Seq(BOOLEAN)
    BY <1>1 DEF TypeOK, StreamTypes, Net
  <2>2. ns \in Nat
    BY <2>1
  <2>3. nn \in Nat
    BY <2>1
  <2> QED
    BY <1>1, <2>2, <2>3 DEF TypeOK, StreamTypes
<1>7. /\ score_updates_sent = score_updates_received[w] + ns
      /\ notices_sent = notices_received[w] + nn
  BY <1>1 DEF StreamInv
<1> HIDE DEF ns, nn
<1>8. /\ pending(h.counts[1], score_updates_received[w]) = ns
      /\ pending(h.counts[2], notices_received[w]) = nn
  BY <1>3, <1>6, <1>7 DEF pending
<1>9. /\ ReceiveFromCenter(w, ns, nn) /\ to_worker' = Drop(to_worker, w)
      /\ pc' = [pc EXCEPT ![w] = "barrier"]
      /\ UNCHANGED <<detectorVars, channelVars, busy, managerVars, cpc, centerVars,
                     collectVars, sentVars, to_center, proposal, historyVars>>
  <2>1. ~(ns < 0) /\ ~(nn < 0)
    BY <1>6
  <2> QED
    BY <2>1, <1>4, <1>5, <1>8 DEF ReceiveTermination
<1>10. ns \in 0 .. Len(score_updates[w]) /\ nn \in 0 .. Len(notices[w])
  BY <1>6 DEF ns, nn
<1>11. /\ StreamTypes' /\ FullnessInv'
       /\ global_score' \in [Rank -> Scores \cup {Default}]
       /\ \A r \in Rank : Found(global_score'[r])
       /\ \A v \in Worker : \A s \in Messages(score_updates', v) : Found(s)
       /\ \A v \in Worker :
            /\ score_updates_sent' = score_updates_received'[v] + Len(score_updates'[v])
            /\ notices_sent' = notices_received'[v] + Len(notices'[v])
            /\ score_updates[v] = <<>> => score_updates'[v] = <<>>
            /\ notices[v] = <<>> => notices'[v] = <<>>
  BY <1>9, <1>10, ReadingKeeps
<1>12. score_updates'[w] = <<>> /\ notices'[w] = <<>>
  <2>1. /\ Len(score_updates'[w]) = Len(score_updates[w]) - ns
        /\ Len(notices'[w]) = Len(notices[w]) - nn
    BY <1>1, <1>9, <1>10, Reading DEF TypeOK
  <2>2. Len(score_updates'[w]) = 0 /\ Len(notices'[w]) = 0
    BY <1>6, <2>1 DEF ns, nn
  <2>3. score_updates'[w] \in Seq(Scores) /\ notices'[w] \in Seq(BOOLEAN)
    BY <1>11 DEF StreamTypes, Net
  <2>4. score_updates'[w] = <<>>
    BY <2>2, <2>3
  <2>5. notices'[w] = <<>>
    BY <2>2, <2>3
  <2> QED
    BY <2>4, <2>5
<1>13. /\ to_worker' \in Net(Worker, ToWorker)
       /\ \A v \in Worker :
            /\ \A m \in Messages(to_worker', v) : m \in Messages(to_worker, v)
            /\ \A m \in Messages(to_worker, v) : m \in Messages(to_worker', v) \/ (v = w /\ m = h)
  BY <1>1, <1>2, <1>9, DropIn
<1>14. /\ Count(to_worker', Worker, "TASK_FROM_CENTER") = Count(to_worker, Worker, "TASK_FROM_CENTER")
       /\ \A v \in Worker :
            Count(to_worker', {v}, "TASK_RECEIVED") = Count(to_worker, {v}, "TASK_RECEIVED")
  <2>1. \A v \in Worker : {v} \in SUBSET Worker
    OBVIOUS
  <2> QED
    BY <2>1, <1>1, <1>2, <1>9, Ranks, CountDrop
<1> HIDE DEF h
<1>15. pc'[w] = "barrier" /\ \A v \in Worker : v # w => pc'[v] = pc[v]
  BY <1>1, <1>9 DEF TypeOK, WorkerTypes
<1>16. WorkerTypes' /\ WorldTypes' /\ ScoreTypes' /\ ScoreInv'
  <2>1. WorkerTypes'
    BY <1>1, <1>9 DEF TypeOK, WorkerTypes, MainPC
  <2> QED
    BY <2>1, <1>1, <1>9, <1>11, <1>13 DEF TypeOK, WorldTypes, ScoreTypes, ScoreInv
<1>17. WorkerInv'
  BY <1>1, <1>2, <1>9, <1>15 DEF WorkerInv, Idle
<1>18. DetectorInv'
  <2>1. Engaged' = Engaged
    BY <1>9 DEF Engaged
  <2>2. \A v \in Worker : pc[v] \in Idle => pc'[v] \in Idle
    BY <1>15 DEF Idle
  <2> QED
    BY <1>1, <1>9, <1>14, <2>1, <2>2 DEF DetectorInv
<1>19. cpc = "barrier"
  BY <1>1, <1>2, <1>3 DEF PhaseInv, Announced
<1>20. PhaseInv'
  BY <1>1, <1>9, <1>13, <1>15, <1>19 DEF PhaseInv, Over, Announced
<1>21. StreamInv'
  BY <1>1, <1>11, <1>12, <1>15 DEF StreamInv
<1>22. TaskInv'
  <2>1. \A u \in Task, v \in Worker : CrossesAs(u, v)' <=> CrossesAs(u, v)
    <3>1. \A u : TaskMsg("TASK_FROM_CENTER", u) # h
      BY <1>2, MessageTypes DEF h
    <3> QED
      BY <1>9, <1>13, <3>1 DEF CrossesAs
  <2>2. 1 .. issued \subseteq Task /\ \A u \in Task, v \in Worker : KeptBy(u, v)' <=> KeptBy(u, v)
    BY <1>1, <1>2, <1>9, <1>15, TaskAssumption DEF TypeOK, TaskTypes, Task, KeptBy
  <2> QED
    BY <1>1, <1>9, <2>1, <2>2 DEF TaskInv
<1>23. AvailableInv'
  BY <1>1, <1>9, <1>19 DEF AvailableInv, Available
<1> QED
  BY <1>1, <1>9, <1>11, <1>16, <1>17, <1>18, <1>20, <1>21, <1>22, <1>23, DetectorTypesFrame,
     CenterTypesFrame, TaskTypesFrame DEF IInv, TypeOK

\* send_final_solution_to_center.
LEMMA SendSolutionNext ==
    ASSUME IInv, NEW w \in Worker, SendSolution(w)
    PROVE  IInv'
<1> DEFINE m == IF result[w] = Nothing THEN Msg("NO_RESULT")
                ELSE [tag |-> "HAS_RESULT", score |-> score[w], packet |-> result[w]]
<1>1. /\ TypeOK /\ WorkerInv /\ DetectorInv /\ PhaseInv /\ StreamInv /\ TaskInv /\ AvailableInv
      /\ FullnessInv /\ ScoreInv
      /\ to_center \in Net(Worker, ToCenter) /\ to_worker \in Net(Worker, ToWorker)
  BY DEF IInv, TypeOK, WorldTypes
<1>2. /\ pc[w] = "result" /\ to_center' = Post(to_center, w, m) /\ pc' = [pc EXCEPT ![w] = "done"]
      /\ UNCHANGED <<detectorVars, channelVars, is_center_full, busy, managerVars, global_score,
                     cpc, centerVars, collectVars, sentVars, receivedVars, to_worker,
                     score_updates, notices, proposal, historyVars>>
  BY DEF SendSolution
<1>3. m \in ToCenter /\ m.tag \in {"NO_RESULT", "HAS_RESULT"}
  <2>1. CASE result[w] = Nothing
    BY <2>1, MessageTypes
  <2>2. CASE result[w] # Nothing
    <3>1. result[w] \in Scores /\ score[w] \in Scores \cup {Default}
      BY <1>1, <2>2 DEF TypeOK, ScoreTypes
    <3> QED
      BY <2>2, <3>1 DEF ToCenter
  <2> QED
    BY <2>1, <2>2
<1> HIDE DEF m
<1>4. /\ to_center' \in Net(Worker, ToCenter)
      /\ \A v \in Worker : \A x : x \in Messages(to_center', v) <=>
                                    x \in Messages(to_center, v) \/ (v = w /\ x = m)
  BY <1>1, <1>2, <1>3, PostIn
<1>5. /\ Count(to_center', Worker, "TASK_RECEIVED") = Count(to_center, Worker, "TASK_RECEIVED")
      /\ \A v \in Worker :
           Count(to_center', {v}, "TASK_FOR_CENTER") = Count(to_center, {v}, "TASK_FOR_CENTER")
  <2>1. \A v \in Worker : {v} \in SUBSET Worker
    OBVIOUS
  <2>2. m.tag # "TASK_RECEIVED" /\ m.tag # "TASK_FOR_CENTER"
    BY <1>3
  <2> QED
    BY <2>1, <2>2, <1>1, <1>2, <1>3, Ranks, CountPost
<1>6. pc'[w] = "done" /\ \A v \in Worker : v # w => pc'[v] = pc[v]
  BY <1>1, <1>2 DEF TypeOK, WorkerTypes
<1>7. cpc \in Announced
  BY <1>1, <1>2 DEF PhaseInv
<1>8. WorkerTypes' /\ WorldTypes'
  <2>1. WorkerTypes'
    BY <1>1, <1>2 DEF TypeOK, WorkerTypes, MainPC
  <2> QED
    BY <2>1, <1>1, <1>2, <1>4 DEF WorldTypes
<1>9. WorkerInv'
  BY <1>1, <1>2, <1>6 DEF WorkerInv, Idle
<1>10. DetectorInv'
  <2>1. Engaged' = Engaged
    BY <1>2 DEF Engaged
  <2>2. \A v \in Worker : pc[v] \in Idle => pc'[v] \in Idle
    BY <1>6 DEF Idle
  <2> QED
    BY <1>1, <1>2, <1>5, <2>1, <2>2 DEF DetectorInv
<1>11. PhaseInv'
  BY <1>1, <1>2, <1>6, <1>7 DEF PhaseInv, Over, Announced
<1>12. StreamInv'
  BY <1>1, <1>2, <1>6 DEF StreamInv
<1>13. TaskInv'
  <2>1. \A u \in Task, v \in Worker : CrossesAs(u, v)' <=> CrossesAs(u, v)
    <3>1. \A u : TaskMsg("TASK_FOR_CENTER", u) # m
      BY <1>3, MessageTypes
    <3> QED
      BY <1>2, <1>4, <3>1 DEF CrossesAs
  <2>2. 1 .. issued \subseteq Task /\ \A u \in Task, v \in Worker : KeptBy(u, v)' <=> KeptBy(u, v)
    BY <1>1, <1>2, <1>6, TaskAssumption DEF TypeOK, TaskTypes, Task, KeptBy
  <2> QED
    BY <1>1, <1>2, <2>1, <2>2 DEF TaskInv
<1>14. AvailableInv'
  BY <1>1, <1>2, <1>7 DEF AvailableInv, Available, Announced
<1> QED
  BY <1>1, <1>2, <1>8, <1>9, <1>10, <1>11, <1>12, <1>13, <1>14, DetectorTypesFrame,
     ScoreTypesFrame, CenterTypesFrame, StreamTypesFrame, TaskTypesFrame, FullnessFrame,
     ScoreFrame DEF IInv, TypeOK

-----------------------------------------------------------------------------
(* The worker's pool threads *)

\* A pool thread only works while its main thread is inside task_funneling.
LEMMA PoolWorks ==
    ASSUME IInv, NEW w \in Worker, busy[w]
    PROVE  /\ pc[w] \in Inside \ {"leave"} /\ parent[w] # None
           /\ cpc \in {"loop", "dispatch", "sending"}
<1>1. pc[w] \notin Idle \cup {"leave", "threw"} /\ pc[w] \in MainPC
  BY DEF IInv, TypeOK, WorkerTypes, WorkerInv
<1>2. parent[w] # None
  BY <1>1 DEF IInv, DetectorInv
<1> QED
  BY <1>1, <1>2, StillOwed DEF Idle, MainPC, Inside

\* force_push does not throw, and only a rank that the center still waits for creates tasks.
LEMMA PushNext ==
    ASSUME IInv, NEW w \in Worker, Push(w)
    PROVE  IInv'
<1>1. /\ TypeOK /\ WorkerInv /\ DetectorInv /\ PhaseInv /\ StreamInv /\ TaskInv /\ AvailableInv
      /\ FullnessInv /\ ScoreInv
  BY DEF IInv
<1>2. /\ busy[w] /\ ~transmitting[w] /\ issued < MaxTasks
      /\ transmitting' = [transmitting EXCEPT ![w] = TRUE]
      /\ UNCHANGED <<detectorVars, bundle, is_center_full, busy, managerVars, global_score, cpc,
                     centerVars, collectVars, sentVars, receivedVars, worldVars, score_updates,
                     notices, proposal, executed, best>>
  BY DEF Push
<1>3. queue[w] = <<>> /\ pc[w] \notin {"send", "sending"}
  BY <1>1, <1>2 DEF WorkerInv
<1>4. queue' = [queue EXCEPT ![w] = Append(@, issued + 1)] /\ issued' = issued + 1 /\ pc' = pc
  BY <1>3 DEF Push
<1>5. pc[w] \in Inside \ {"leave"} /\ cpc \in {"loop", "dispatch", "sending"}
  BY <1>2, PoolWorks
<1>6. issued \in Nat /\ issued + 1 \in Task /\ issued' \in 0 .. MaxTasks
  BY <1>1, <1>2, <1>4, TaskAssumption DEF TypeOK, TaskTypes, Task
<1> DEFINE t == issued + 1
<1>7. t \in Task /\ issued' = t
  BY <1>4, <1>6
<1> HIDE DEF t
<1>8. /\ queue'[w] = <<t>> /\ \A v \in Worker : v # w => queue'[v] = queue[v]
      /\ queue' \in [Worker -> Seq(Task)]
  <2>1. queue \in [Worker -> Seq(Task)]
    BY <1>1 DEF TypeOK, WorkerTypes
  <2>2. Append(queue[w], t) = <<t>> /\ <<t>> \in Seq(Task)
    BY <1>3, <1>7
  <2> QED
    BY <2>1, <2>2, <1>4 DEF t
<1>9. queue'[w] # <<>> /\ Len(queue'[w]) = 1 /\ Head(queue'[w]) = t
  BY <1>8
<1>10. transmitting'[w] /\ \A v \in Worker : v # w => transmitting'[v] = transmitting[v]
  BY <1>1, <1>2 DEF TypeOK, WorkerTypes
<1>11. WorkerTypes' /\ TaskTypes'
  <2>1. WorkerTypes'
    BY <1>1, <1>2, <1>4, <1>8 DEF TypeOK, WorkerTypes
  <2>2. TaskTypes'
    BY <1>1, <1>2, <1>4, <1>6 DEF TypeOK, TaskTypes
  <2> QED
    BY <2>1, <2>2
<1>12. WorkerInv'
  <2>1. ASSUME NEW v \in Worker, v # w
        PROVE  /\ pc'[v] = pc[v] /\ busy'[v] = busy[v] /\ queue'[v] = queue[v]
               /\ transmitting'[v] = transmitting[v] /\ bundle'[v] = bundle[v]
               /\ proposal'[v] = proposal[v]
    BY <2>1, <1>2, <1>4, <1>8, <1>10
  <2>2. pc'[w] \notin Idle \cup {"leave", "send", "sending", "threw"}
    BY <1>3, <1>4, <1>5 DEF Inside, Idle
  <2>3. bundle'[w] = 0 /\ (proposal'[w] # Nothing => pc'[w] = "propose")
    BY <1>1, <1>2, <1>3, <1>4 DEF WorkerInv
  <2> QED
    BY <1>1, <1>9, <1>10, <2>1, <2>2, <2>3 DEF WorkerInv
<1>13. PhaseInv'
  BY <1>1, <1>2, <1>4, <1>5 DEF PhaseInv, Over, Announced
<1>14. TaskInv'
  <2>1. \A u, v : CrossesAs(u, v)' <=> CrossesAs(u, v)
    BY <1>2 DEF CrossesAs
  <2>3. \A u : ~KeptBy(u, w) /\ (KeptBy(u, w)' <=> u = t)
    BY <1>3, <1>4, <1>9 DEF KeptBy
  <2>4. \A u \in 1 .. issued' : u \in 1 .. issued \/ u = t
    BY <1>4, <1>6 DEF t
  <2>5. \A u \in Task : u <= issued \/ u = t => u <= issued'
    BY <1>4, <1>6 DEF t, Task
  <2>6. \A u \in 1 .. issued' :
          u \in executed' \cup center_queue' \/ \E v \in Worker : CrossesAs(u, v)' \/ KeptBy(u, v)'
    <3>1. ASSUME NEW u \in 1 .. issued', u # t
          PROVE u \in executed' \cup center_queue' \/ \E v \in Worker : CrossesAs(u, v)' \/ KeptBy(u, v)'
      <4>1. u \in executed \cup center_queue \/ \E v \in Worker : CrossesAs(u, v) \/ KeptBy(u, v)
        BY <1>1, <2>4, <3>1 DEF TaskInv
      <4>2. ASSUME NEW v \in Worker, KeptBy(u, v) PROVE KeptBy(u, v)'
        <5>1. v # w
          BY <4>2, <2>3
        <5> QED
          BY <4>2, <5>1, <1>2, <1>4, <1>8 DEF KeptBy
      <4> QED
        BY <1>2, <2>1, <4>1, <4>2
    <3> QED
      BY <2>3, <3>1
  <2>7. \A u \in Task, v \in Worker : CrossesAs(u, v)' \/ KeptBy(u, v)' => u <= issued'
    <3>1. ASSUME NEW u \in Task, NEW v \in Worker, CrossesAs(u, v)' \/ KeptBy(u, v)', u # t
          PROVE  u <= issued
      <4>1. CrossesAs(u, v) \/ KeptBy(u, v)
        <5>1. CASE v = w
          BY <3>1, <5>1, <2>1, <2>3
        <5>2. CASE v # w
          BY <3>1, <5>2, <2>1, <1>2, <1>4, <1>8 DEF KeptBy
        <5> QED
          BY <5>1, <5>2
      <4> QED
        BY <1>1, <4>1 DEF TaskInv
    <3> QED
      BY <2>5, <3>1
  <2>8. center_queue' \subseteq 1 .. issued'
    BY <1>1, <1>2, <1>4, <1>6 DEF TaskInv
  <2> QED
    BY <2>6, <2>7, <2>8 DEF TaskInv
<1>15. SameSide
  BY <1>4 DEF SameSide
<1> QED
  BY <1>1, <1>2, <1>11, <1>12, <1>13, <1>14, <1>15, DetectorTypesFrame, ScoreTypesFrame,
     CenterTypesFrame, StreamTypesFrame, WorldTypesFrame, DetectorFrame, StreamFrame,
     AvailableFrame, FullnessFrame, ScoreFrame DEF IInv, TypeOK

\* try_update_result changes scores only.
LEMMA FindResultNext ==
    ASSUME IInv, NEW w \in Worker, NEW s \in Scores, FindResult(w, s)
    PROVE  IInv'
<1>1. /\ TypeOK /\ WorkerInv /\ DetectorInv /\ PhaseInv /\ StreamInv /\ TaskInv /\ AvailableInv
      /\ FullnessInv /\ ScoreInv
  BY DEF IInv
<1>2. /\ should_update(score[w], s) /\ score' = [score EXCEPT ![w] = s]
      /\ result' = [result EXCEPT ![w] = s]
      /\ UNCHANGED <<detectorVars, pc, channelVars, is_center_full, busy, global_score, cpc,
                     centerVars, collectVars, sentVars, receivedVars, worldVars, score_updates,
                     notices, proposal, issued, executed>>
  BY DEF FindResult
<1>3. Found(s)
  <2>1. score[w] \in Int /\ s \in Int /\ Found(score[w])
    BY <1>1, ScoreAssumption DEF TypeOK, ScoreTypes, ScoreInv
  <2> QED
    BY <1>2, <2>1, Better
<1>4. ScoreTypes' /\ ScoreInv'
  BY <1>1, <1>2, <1>3 DEF TypeOK, ScoreTypes, ScoreInv
<1>5. SameSide
  BY <1>2 DEF SameSide
<1> QED
  BY <1>1, <1>2, <1>4, <1>5, DetectorTypesFrame, WorkerTypesFrame, CenterTypesFrame,
     StreamTypesFrame, WorldTypesFrame, TaskTypesFrame, WorkerFrame, DetectorFrame, PhaseFrame,
     StreamFrame, TaskFrame, AvailableFrame, FullnessFrame DEF IInv, TypeOK

\* The pool runs out of tasks.
LEMMA PoolDoneNext ==
    ASSUME IInv, NEW w \in Worker, PoolDone(w)
    PROVE  IInv'
<1>1. /\ TypeOK /\ WorkerInv /\ DetectorInv /\ PhaseInv /\ StreamInv /\ TaskInv /\ AvailableInv
      /\ FullnessInv /\ ScoreInv
  BY DEF IInv
<1>2. /\ busy' = [busy EXCEPT ![w] = FALSE]
      /\ UNCHANGED <<detectorVars, pc, channelVars, is_center_full, managerVars, global_score,
                     cpc, centerVars, collectVars, sentVars, receivedVars, worldVars,
                     score_updates, notices, proposal, historyVars>>
  BY DEF PoolDone
<1>3. WorkerTypes' /\ SameSide
  BY <1>1, <1>2 DEF TypeOK, WorkerTypes, SameSide
<1>4. WorkerInv'
  BY <1>1, <1>2 DEF WorkerInv, TypeOK, WorkerTypes
<1> QED
  BY <1>1, <1>2, <1>3, <1>4, DetectorTypesFrame, ScoreTypesFrame, CenterTypesFrame,
     StreamTypesFrame, WorldTypesFrame, TaskTypesFrame, DetectorFrame, PhaseFrame, StreamFrame,
     TaskFrame, AvailableFrame, FullnessFrame, ScoreFrame DEF IInv, TypeOK

-----------------------------------------------------------------------------
(* The center *)

\* After a message the center leaves its loop, with nothing queued or owed to it, or goes
\* on to clear_buffer.
LEMMA AfterMessagePhase ==
    ASSUME IInv, cpc = "loop", AfterMessage, pc' = pc,
           \A v \in Worker : \A m \in Messages(to_worker', v) :
             m \in Messages(to_worker, v) \/ m.tag # "TERMINATION"
    PROVE  PhaseInv' /\ cpc' \in {"notify", "dispatch"} /\ cpc' \in CenterPC
<1>1. PhaseInv
  BY DEF IInv
<1>2. /\ cpc' \in {"notify", "dispatch"} /\ cpc' \in CenterPC
      /\ cpc' = "notify" => deficit'[Center] = 0 /\ center_queue' = {}
  BY DEF AfterMessage, CenterPC
<1>3. \A v \in Worker : \A m \in Messages(to_worker', v) : m.tag # "TERMINATION"
  BY <1>1 DEF PhaseInv, Announced
<1>4. \A v \in Worker : pc'[v] \notin {"barrier", "result", "done"}
  BY <1>1 DEF PhaseInv, Announced
<1> QED
  BY <1>2, <1>3, <1>4 DEF PhaseInv, Over, Announced

\* In the loop nothing is forgotten: while no notice is sent or read, FullnessInv holds.
LEMMA LoopFullness ==
    ASSUME IInv, cpc # "dispatch", UNCHANGED <<notices, is_center_full, last_full_status>>
    PROVE  FullnessInv'
<1>1. FullnessInv /\ ~Forgotten
  BY DEF IInv, Forgotten
<1> QED
  BY <1>1 DEF FullnessInv, Told

\* The center receives the first message of a worker.
LEMMA CenterReads ==
    ASSUME IInv, NEW w \in Worker, NEW tag, Arrived(to_center, w, tag),
           to_center' = Drop(to_center, w)
    PROVE  /\ to_center' \in Net(Worker, ToCenter)
           /\ Head(to_center[w]) \in ToCenter /\ Head(to_center[w]) \in Messages(to_center, w)
           /\ Head(to_center[w]).tag = tag
           /\ \A v \in Worker :
                /\ \A x \in Messages(to_center', v) : x \in Messages(to_center, v)
                /\ \A x \in Messages(to_center, v) :
                     x \in Messages(to_center', v) \/ (v = w /\ x = Head(to_center[w]))
                /\ NoneBehind(to_center, v, "AVAILABLE_STATE", StateTags) =>
                     NoneBehind(to_center', v, "AVAILABLE_STATE", StateTags)
                /\ v # w \/ tag # "TASK_FOR_CENTER" =>
                     Count(to_center', {v}, "TASK_FOR_CENTER") =
                       Count(to_center, {v}, "TASK_FOR_CENTER")
           /\ tag = "TASK_FOR_CENTER" =>
                Count(to_center', {w}, "TASK_FOR_CENTER") =
                  Count(to_center, {w}, "TASK_FOR_CENTER") - 1
           /\ tag = "TASK_RECEIVED" =>
                Count(to_center', Worker, "TASK_RECEIVED") =
                  Count(to_center, Worker, "TASK_RECEIVED") - 1
           /\ tag # "TASK_RECEIVED" =>
                Count(to_center', Worker, "TASK_RECEIVED") =
                  Count(to_center, Worker, "TASK_RECEIVED")
           /\ tag = "AVAILABLE_STATE" /\ NoneBehind(to_center, w, "AVAILABLE_STATE", StateTags) =>
                \A x \in Messages(to_center', w) : x.tag \notin StateTags
<1>1. /\ to_center \in Net(Worker, ToCenter) /\ to_center[w] # <<>>
      /\ Head(to_center[w]).tag = tag
  BY DEF IInv, TypeOK, WorldTypes, Arrived
<1>2. Head(to_center[w]) \in ToCenter /\ Head(to_center[w]) \in Messages(to_center, w)
  BY <1>1, MessagesType
<1>3. /\ to_center' \in Net(Worker, ToCenter)
      /\ \A v \in Worker :
           /\ \A x \in Messages(to_center', v) : x \in Messages(to_center, v)
           /\ \A x \in Messages(to_center, v) :
                x \in Messages(to_center', v) \/ (v = w /\ x = Head(to_center[w]))
  BY <1>1, DropIn
<1>4. ASSUME NEW v \in Worker, NoneBehind(to_center, v, "AVAILABLE_STATE", StateTags)
      PROVE  /\ NoneBehind(to_center', v, "AVAILABLE_STATE", StateTags)
             /\ v = w /\ tag = "AVAILABLE_STATE" =>
                  \A x \in Messages(to_center', w) : x.tag \notin StateTags
  BY <1>1, <1>4, DropBehind
<1>5. \A v \in Worker : {v} \in SUBSET Worker
  OBVIOUS
<1>6. \A v \in Worker : v # w \/ tag # "TASK_FOR_CENTER" =>
        Count(to_center', {v}, "TASK_FOR_CENTER") = Count(to_center, {v}, "TASK_FOR_CENTER")
  BY <1>1, <1>5, Ranks, CountDrop
<1>7. tag = "TASK_FOR_CENTER" =>
        Count(to_center', {w}, "TASK_FOR_CENTER") = Count(to_center, {w}, "TASK_FOR_CENTER") - 1
  BY <1>1, <1>5, Ranks, CountDrop
<1>8. /\ tag = "TASK_RECEIVED" =>
           Count(to_center', Worker, "TASK_RECEIVED") =
             Count(to_center, Worker, "TASK_RECEIVED") - 1
      /\ tag # "TASK_RECEIVED" =>
           Count(to_center', Worker, "TASK_RECEIVED") = Count(to_center, Worker, "TASK_RECEIVED")
  BY <1>1, Ranks, CountDrop
<1> QED
  BY <1>1, <1>2, <1>3, <1>4, <1>6, <1>7, <1>8

\* A worker that the center has read a state message from had not been available.
LEMMA StateRead ==
    ASSUME IInv, cpc = "loop", NEW w \in Worker, NEW tag \in StateTags,
           Arrived(to_center, w, tag), to_center' = Drop(to_center, w), AfterMessage,
           process_state' \in [Worker -> {"AVAILABLE", "ASSIGNED", "RUNNING"}],
           \A v \in Worker : v # w => process_state'[v] = process_state[v],
           process_state'[w] = "AVAILABLE" => tag = "AVAILABLE_STATE",
           nodes_available' = Cardinality(Available'),
           nodes_available' \in 0 .. WorldSize - 1,
           UNCHANGED <<detectorVars, center_queue, pc, channelVars, is_center_full, busy,
                       managerVars, global_score, last_full_status, collectVars, sentVars,
                       receivedVars, to_worker, score_updates, notices, proposal, historyVars>>
    PROVE  IInv'
<1> DEFINE h == Head(to_center[w])
<1>1. /\ TypeOK /\ WorkerInv /\ DetectorInv /\ PhaseInv /\ StreamInv /\ TaskInv /\ AvailableInv
      /\ FullnessInv /\ ScoreInv
  BY DEF IInv
<1>2. tag # "TASK_FOR_CENTER" /\ tag # "TASK_RECEIVED"
  BY DEF StateTags
<1>3. /\ to_center' \in Net(Worker, ToCenter) /\ h \in Messages(to_center, w) /\ h.tag = tag
      /\ \A v \in Worker :
           /\ \A x \in Messages(to_center', v) : x \in Messages(to_center, v)
           /\ \A x \in Messages(to_center, v) : x \in Messages(to_center', v) \/ (v = w /\ x = h)
           /\ NoneBehind(to_center, v, "AVAILABLE_STATE", StateTags) =>
                NoneBehind(to_center', v, "AVAILABLE_STATE", StateTags)
           /\ Count(to_center', {v}, "TASK_FOR_CENTER") = Count(to_center, {v}, "TASK_FOR_CENTER")
      /\ Count(to_center', Worker, "TASK_RECEIVED") = Count(to_center, Worker, "TASK_RECEIVED")
      /\ tag = "AVAILABLE_STATE" /\ NoneBehind(to_center, w, "AVAILABLE_STATE", StateTags) =>
           \A x \in Messages(to_center', w) : x.tag \notin StateTags
  BY <1>2, CenterReads
<1> HIDE DEF h
<1>4. PhaseInv' /\ cpc' \in {"notify", "dispatch"} /\ cpc' \in CenterPC
  BY AfterMessagePhase
<1>5. FullnessInv'
  BY LoopFullness
<1>6. CenterTypes' /\ WorldTypes'
  BY <1>1, <1>3, <1>4 DEF TypeOK, CenterTypes, WorldTypes
<1>7. SameSide
  BY DEF SameSide
<1>8. DetectorInv'
  <2>1. Engaged' = Engaged
    BY DEF Engaged
  <2> QED
    BY <1>1, <1>3, <2>1 DEF DetectorInv
<1>9. TaskInv'
  <2>1. \A u, v : KeptBy(u, v)' <=> KeptBy(u, v)
    BY DEF KeptBy
  <2>2. \A u : TaskMsg("TASK_FOR_CENTER", u) # h
    BY <1>2, <1>3, MessageTypes
  <2>3. \A u : \A v \in Worker : CrossesAs(u, v)' <=> CrossesAs(u, v)
    BY <1>3, <2>2 DEF CrossesAs
  <2> QED
    BY <1>1, <2>1, <2>3 DEF TaskInv
<1>10. AvailableInv'
  <2>1. \A v \in Worker :
          /\ SaysAvailable(v)' => SaysAvailable(v)
          /\ Given(v)' <=> Given(v)
    BY <1>3 DEF SaysAvailable, Given
  <2>2. tag = "AVAILABLE_STATE" => SaysAvailable(w)
    BY <1>3 DEF SaysAvailable
  <2>3. ASSUME NEW v \in Worker, process_state'[v] = "AVAILABLE"
        PROVE  /\ pc'[v] = "probe" /\ ~Given(v)'
               /\ \A m \in Messages(to_center', v) : m.tag \notin StateTags
    <3>1. CASE v = w
      BY <1>1, <1>3, <2>1, <2>2, <2>3, <3>1 DEF AvailableInv
    <3>2. CASE v # w
      BY <1>1, <1>3, <2>1, <2>3, <3>2 DEF AvailableInv
    <3> QED
      BY <3>1, <3>2
  <2> QED
    BY <1>1, <1>3, <1>4, <2>1, <2>3 DEF AvailableInv
<1> QED
  BY <1>1, <1>4, <1>5, <1>6, <1>7, <1>8, <1>9, <1>10, DetectorTypesFrame, WorkerTypesFrame,
     ScoreTypesFrame, StreamTypesFrame, TaskTypesFrame, WorkerFrame, StreamFrame, ScoreFrame
     DEF IInv, TypeOK

\* A worker with a state message on its way is not available; the available ones are finite
\* in number and among the workers.
LEMMA NotYetAvailable ==
    ASSUME IInv
    PROVE  /\ IsFiniteSet(Available) /\ nodes_available = Cardinality(Available)
           /\ Available \subseteq Worker
           /\ cpc = "loop" => \A w \in Worker : \A tag \in StateTags :
                Arrived(to_center, w, tag) => w \notin Available
<1>1. AvailableInv /\ to_center \in Net(Worker, ToCenter)
  BY DEF IInv, TypeOK, WorldTypes
<1>2. IsFiniteSet(Available) /\ Available \subseteq Worker
  BY Ranks, FS_Subset DEF Available
<1>3. ASSUME cpc = "loop", NEW w \in Worker, NEW tag \in StateTags, Arrived(to_center, w, tag)
      PROVE  w \notin Available
  <2>1. Head(to_center[w]) \in Messages(to_center, w) /\ Head(to_center[w]).tag \in StateTags
    BY <1>1, <1>3, MessagesType DEF Arrived
  <2> QED
    BY <1>1, <1>3, <2>1 DEF AvailableInv, Available
<1> QED
  BY <1>1, <1>2, <1>3 DEF AvailableInv

\* process_running.
LEMMA ProcessRunningNext ==
    ASSUME IInv, NEW w \in Worker, ProcessRunning(w)
    PROVE  IInv'
<1>1. process_state \in [Worker -> {"AVAILABLE", "ASSIGNED", "RUNNING"}]
      /\ nodes_available \in 0 .. WorldSize - 1
  BY DEF IInv, TypeOK, CenterTypes
<1>2. /\ cpc = "loop" /\ Arrived(to_center, w, "RUNNING_STATE")
      /\ process_state' = [process_state EXCEPT ![w] = "RUNNING"]
      /\ nodes_available' = nodes_available
  BY DEF ProcessRunning
<1>3. "RUNNING_STATE" \in StateTags
  BY DEF StateTags
<1>4. w \notin Available /\ nodes_available = Cardinality(Available)
  BY <1>2, <1>3, NotYetAvailable
<1>5. Available' = Available
  BY <1>1, <1>2, <1>4 DEF Available
<1>6. /\ process_state' \in [Worker -> {"AVAILABLE", "ASSIGNED", "RUNNING"}]
      /\ process_state'[w] = "RUNNING"
      /\ \A v \in Worker : v # w => process_state'[v] = process_state[v]
  BY <1>1, <1>2
<1> QED
  BY <1>1, <1>2, <1>3, <1>4, <1>5, <1>6, StateRead DEF ProcessRunning

\* process_available: the rank was not counted as available yet.
LEMMA ProcessAvailableNext ==
    ASSUME IInv, NEW w \in Worker, ProcessAvailable(w)
    PROVE  IInv'
<1>1. process_state \in [Worker -> {"AVAILABLE", "ASSIGNED", "RUNNING"}]
  BY DEF IInv, TypeOK, CenterTypes
<1>2. /\ cpc = "loop" /\ Arrived(to_center, w, "AVAILABLE_STATE")
      /\ process_state' = [process_state EXCEPT ![w] = "AVAILABLE"]
      /\ nodes_available' = nodes_available + 1
  BY DEF ProcessAvailable
<1>3. "AVAILABLE_STATE" \in StateTags
  BY DEF StateTags
<1>4. /\ w \notin Available /\ nodes_available = Cardinality(Available) /\ IsFiniteSet(Available)
      /\ Available \subseteq Worker
  BY <1>2, <1>3, NotYetAvailable
<1>5. /\ process_state' \in [Worker -> {"AVAILABLE", "ASSIGNED", "RUNNING"}]
      /\ process_state'[w] = "AVAILABLE"
      /\ \A v \in Worker : v # w => process_state'[v] = process_state[v]
  BY <1>1, <1>2
<1>6. Available' = Available \cup {w}
  BY <1>5 DEF Available
<1>7. nodes_available' = Cardinality(Available')
  BY <1>2, <1>4, <1>6, FS_AddElement
<1>8. nodes_available' \in 0 .. WorldSize - 1
  <2>1. Available' \subseteq Worker
    BY <1>4, <1>6
  <2>2. Cardinality(Available') \in Nat /\ Cardinality(Available') <= Cardinality(Worker)
    BY <2>1, Ranks, FS_Subset, FS_CardinalityType
  <2> QED
    BY <1>7, <2>2, Ranks, SizeAssumption
<1> QED
  BY <1>2, <1>3, <1>5, <1>7, <1>8, StateRead DEF ProcessAvailable

\* What a loop over the workers appends to each channel.
LEMMA PostAllEach ==
    ASSUME NEW M, NEW D, NEW net \in Net(D, M), NEW m \in M, NEW c \in D
    PROVE  /\ PostAll(net, m)[c] # <<>> /\ Last(PostAll(net, m)[c]) = m
           /\ Len(PostAll(net, m)[c]) = Len(net[c]) + 1
<1>1. net[c] \in Seq(M) /\ PostAll(net, m)[c] = Append(net[c], m)
  BY DEF Net, PostAll
<1>2. /\ Len(Append(net[c], m)) = Len(net[c]) + 1
      /\ Append(net[c], m)[Len(net[c]) + 1] = m
      /\ Append(net[c], m) \in Seq(M) /\ Len(net[c]) \in Nat
  BY <1>1
<1> DEFINE s == Append(net[c], m)
<1>3. Len(s) = Len(net[c]) + 1 /\ s[Len(net[c]) + 1] = m /\ s \in Seq(M) /\ Len(net[c]) \in Nat
  BY <1>2
<1> HIDE DEF s
<1>4. s # <<>> /\ Last(s) = m
  BY <1>3 DEF Last
<1> QED
  BY <1>1, <1>3, <1>4 DEF s

\* consume_score_flag and maybe_broadcast_global_score.
LEMMA ReceiveProposalNext ==
    ASSUME IInv, NEW w \in Worker, ReceiveProposal(w)
    PROVE  IInv'
<1> DEFINE s == proposal[w]
<1>1. /\ TypeOK /\ WorkerInv /\ DetectorInv /\ PhaseInv /\ StreamInv /\ TaskInv /\ AvailableInv
      /\ FullnessInv /\ ScoreInv
      /\ score_updates \in Net(Worker, Scores)
  BY DEF IInv, TypeOK, StreamTypes
<1>2. /\ cpc = "loop" /\ s # Nothing /\ proposal' = [proposal EXCEPT ![w] = Nothing] /\ AfterMessage
      /\ UNCHANGED <<detectorVars, center_queue, pc, channelVars, is_center_full, busy,
                     managerVars, process_state, nodes_available, last_full_status, collectVars,
                     notices_sent, receivedVars, worldVars, notices, historyVars>>
  BY DEF ReceiveProposal
<1>3. s \in Scores /\ Found(s)
  BY <1>1, <1>2 DEF TypeOK, ScoreTypes, ScoreInv
<1> HIDE DEF s
<1>4. \/ /\ global_score' = [global_score EXCEPT ![Center] = s]
         /\ score_updates' = PostAll(score_updates, s)
         /\ score_updates_sent' = score_updates_sent + 1
      \/ UNCHANGED <<global_score, score_updates, score_updates_sent>>
  BY DEF ReceiveProposal, s
<1>5. SameSide
  BY <1>2 DEF SameSide
<1>6. PhaseInv' /\ cpc' \in {"notify", "dispatch"} /\ cpc' \in CenterPC
  BY <1>2, AfterMessagePhase
<1>7. CenterTypes'
  BY <1>1, <1>2, <1>6 DEF TypeOK, CenterTypes
<1>8. /\ proposal' \in [Worker -> Scores \cup {Nothing}] /\ proposal'[w] = Nothing
      /\ \A v \in Worker : v # w => proposal'[v] = proposal[v]
  BY <1>1, <1>2 DEF TypeOK, ScoreTypes
<1>9. /\ global_score' \in [Rank -> Scores \cup {Default}]
      /\ \A r \in Rank : Found(global_score'[r])
  BY <1>1, <1>3, <1>4, Ranks DEF TypeOK, ScoreTypes, ScoreInv
<1>10. /\ score_updates' \in Net(Worker, Scores) /\ score_updates_sent' \in Nat
       /\ \A v \in Worker : \A x \in Messages(score_updates', v) : Found(x)
  <2>1. CASE UNCHANGED <<global_score, score_updates, score_updates_sent>>
    BY <1>1, <2>1 DEF TypeOK, StreamTypes, ScoreInv
  <2>2. CASE score_updates' = PostAll(score_updates, s) /\ score_updates_sent' = score_updates_sent + 1
    <3>1. /\ score_updates' \in Net(Worker, Scores)
          /\ \A v \in Worker : \A x : x \in Messages(score_updates', v) <=>
                                        x \in Messages(score_updates, v) \/ x = s
      BY <1>1, <1>3, <2>2, PostAllIn
    <3>2. score_updates_sent' \in Nat
      BY <1>1, <2>2 DEF TypeOK, StreamTypes
    <3> QED
      BY <1>1, <1>3, <3>1, <3>2 DEF ScoreInv
  <2> QED
    BY <1>4, <2>1, <2>2
<1>11. ScoreTypes' /\ ScoreInv' /\ StreamTypes'
  <2>1. ScoreTypes' /\ ScoreInv'
    BY <1>1, <1>2, <1>8, <1>9, <1>10 DEF TypeOK, ScoreTypes, ScoreInv
  <2>2. StreamTypes'
    BY <1>1, <1>2, <1>10 DEF TypeOK, StreamTypes
  <2> QED
    BY <2>1, <2>2
<1>12. StreamInv'
  <2>1. \A v \in Worker : pc[v] \notin {"barrier", "result", "done"}
    BY <1>1, <1>2 DEF PhaseInv, Announced
  <2>2. CASE UNCHANGED <<global_score, score_updates, score_updates_sent>>
    BY <1>1, <1>2, <2>1, <2>2 DEF StreamInv
  <2>3. CASE score_updates' = PostAll(score_updates, s) /\ score_updates_sent' = score_updates_sent + 1
    <3>1. ASSUME NEW v \in Worker
          PROVE  score_updates_sent' = score_updates_received'[v] + Len(score_updates'[v])
      <4>1. Len(score_updates'[v]) = Len(score_updates[v]) + 1
        BY <1>1, <1>3, <2>3, PostAllEach
      <4>2. /\ score_updates_sent = score_updates_received[v] + Len(score_updates[v])
            /\ score_updates_received[v] \in Nat
        BY <1>1 DEF StreamInv, TypeOK, StreamTypes
      <4>3. Len(score_updates[v]) \in Nat
        BY <1>1 DEF Net
      <4> QED
        BY <1>2, <2>3, <4>1, <4>2, <4>3
    <3> QED
      BY <1>1, <1>2, <2>1, <3>1 DEF StreamInv
  <2> QED
    BY <1>4, <2>2, <2>3
<1>13. WorkerInv'
  BY <1>1, <1>2, <1>8 DEF WorkerInv
<1>14. AvailableInv'
  BY <1>1, <1>2, <1>6 DEF AvailableInv, Available, Given, SaysAvailable
<1>15. FullnessInv'
  BY <1>2, LoopFullness
<1> QED
  BY <1>1, <1>2, <1>5, <1>6, <1>7, <1>11, <1>12, <1>13, <1>14, <1>15, DetectorTypesFrame,
     WorkerTypesFrame, WorldTypesFrame, TaskTypesFrame, DetectorFrame, TaskFrame DEF IInv, TypeOK

\* The limits of the center's queue: a queue that is far too full is full, and holds more
\* than one task.
LEMMA Limits ==
    /\ \A n \in Nat : far_too_full(n) => n > 1 /\ \A memory : is_full(memory, n)
<1>1. QueueLimit \in Nat /\ QueueLimit >= 1
  BY SizeAssumption, LimitAssumption DEF QueueLimit
<1> QED
  BY <1>1 DEF far_too_full, is_full

\* process_task_for_center: the task is queued before its acknowledgement is sent, and a
\* status that the center forgets belongs to a queue that is full.
LEMMA ReceiveTaskForCenterNext ==
    ASSUME IInv, NEW w \in Worker, ReceiveTaskForCenter(w)
    PROVE  IInv'
<1> DEFINE h == Head(to_center[w])
           t == h.task
           ack == TaskMsg("TASK_RECEIVED", t)
<1>1. /\ TypeOK /\ WorkerInv /\ DetectorInv /\ PhaseInv /\ StreamInv /\ TaskInv /\ AvailableInv
      /\ FullnessInv /\ ScoreInv /\ to_worker \in Net(Worker, ToWorker)
  BY DEF IInv, TypeOK, WorldTypes
<1>2. /\ cpc = "loop" /\ Arrived(to_center, w, "TASK_FOR_CENTER") /\ AfterMessage
      /\ center_queue' = center_queue \cup {t} /\ to_worker' = Post(to_worker, w, ack)
      /\ to_center' = Drop(to_center, w)
      /\ \/ last_full_status' = last_full_status
         \/ far_too_full(Cardinality(center_queue')) /\ last_full_status' = FALSE
      /\ UNCHANGED <<detectorVars, pc, channelVars, is_center_full, busy, managerVars,
                     global_score, process_state, nodes_available, collectVars, sentVars,
                     receivedVars, score_updates, notices, proposal, historyVars>>
  BY DEF ReceiveTaskForCenter
<1>3. /\ to_center' \in Net(Worker, ToCenter)
      /\ h \in ToCenter /\ h \in Messages(to_center, w) /\ h.tag = "TASK_FOR_CENTER"
      /\ \A v \in Worker :
           /\ \A x \in Messages(to_center', v) : x \in Messages(to_center, v)
           /\ \A x \in Messages(to_center, v) : x \in Messages(to_center', v) \/ (v = w /\ x = h)
           /\ NoneBehind(to_center, v, "AVAILABLE_STATE", StateTags) =>
                NoneBehind(to_center', v, "AVAILABLE_STATE", StateTags)
           /\ v # w => Count(to_center', {v}, "TASK_FOR_CENTER") =
                         Count(to_center, {v}, "TASK_FOR_CENTER")
      /\ Count(to_center', {w}, "TASK_FOR_CENTER") =
           Count(to_center, {w}, "TASK_FOR_CENTER") - 1
      /\ Count(to_center', Worker, "TASK_RECEIVED") = Count(to_center, Worker, "TASK_RECEIVED")
  BY <1>2, CenterReads
<1>4. t \in Task /\ h = TaskMsg("TASK_FOR_CENTER", t) /\ t \in 1 .. issued
  <2>1. t \in Task /\ h = TaskMsg("TASK_FOR_CENTER", t)
    BY <1>3, MessageTypes
  <2>2. t <= issued
    BY <1>1, <1>3, <2>1 DEF TaskInv, CrossesAs
  <2> QED
    BY <1>1, <2>1, <2>2 DEF TypeOK, TaskTypes, Task
<1>5. ack \in ToWorker /\ ack.tag = "TASK_RECEIVED"
  BY <1>4, MessageTypes
<1> HIDE DEF h, t, ack
<1>6. /\ to_worker' \in Net(Worker, ToWorker)
      /\ \A v \in Worker : \A x : x \in Messages(to_worker', v) <=>
                                    x \in Messages(to_worker, v) \/ (v = w /\ x = ack)
  BY <1>1, <1>2, <1>5, PostIn
<1>7. /\ Count(to_worker', Worker, "TASK_FROM_CENTER") = Count(to_worker, Worker, "TASK_FROM_CENTER")
      /\ \A v \in Worker : Count(to_worker', {v}, "TASK_FROM_CENTER") =
                             Count(to_worker, {v}, "TASK_FROM_CENTER")
      /\ Count(to_worker', {w}, "TASK_RECEIVED") = Count(to_worker, {w}, "TASK_RECEIVED") + 1
      /\ \A v \in Worker : v # w =>
           Count(to_worker', {v}, "TASK_RECEIVED") = Count(to_worker, {v}, "TASK_RECEIVED")
  <2>1. \A v \in Worker : {v} \in SUBSET Worker
    OBVIOUS
  <2> QED
    BY <2>1, <1>1, <1>2, <1>5, Ranks, CountPost
<1>8. PhaseInv' /\ cpc' \in {"notify", "dispatch"} /\ cpc' \in CenterPC
  BY <1>2, <1>5, <1>6, AfterMessagePhase
<1>9. cpc' = "dispatch"
  BY <1>2 DEF AfterMessage
<1>10. CenterTypes' /\ WorldTypes'
  <2>1. last_full_status' \in BOOLEAN
    BY <1>1, <1>2 DEF TypeOK, CenterTypes
  <2> QED
    BY <2>1, <1>1, <1>2, <1>3, <1>4, <1>6, <1>8 DEF TypeOK, CenterTypes, WorldTypes
<1>11. DetectorInv'
  <2>1. Engaged' = Engaged
    BY <1>2 DEF Engaged
  <2>2. deficit'[w] = Count(to_center', {w}, "TASK_FOR_CENTER")
                        + Count(to_worker', {w}, "TASK_RECEIVED")
    BY <1>1, <1>2, <1>3, <1>7, Counts DEF DetectorInv
  <2>3. \A v \in Worker : v # w =>
          deficit'[v] = Count(to_center', {v}, "TASK_FOR_CENTER")
                          + Count(to_worker', {v}, "TASK_RECEIVED")
    BY <1>1, <1>2, <1>3, <1>7 DEF DetectorInv
  <2>4. deficit'[Center] = Count(to_worker', Worker, "TASK_FROM_CENTER") + Cardinality(Engaged')
                             + Count(to_center', Worker, "TASK_RECEIVED")
    BY <1>1, <1>2, <1>3, <1>7, <2>1 DEF DetectorInv
  <2> QED
    BY <1>1, <1>2, <2>2, <2>3, <2>4 DEF DetectorInv
<1>12. TaskInv'
  <2>1. \A u, v : KeptBy(u, v)' <=> KeptBy(u, v)
    BY <1>2 DEF KeptBy
  <2>2. \A u : TaskMsg("TASK_FROM_CENTER", u) # ack /\ (TaskMsg("TASK_FOR_CENTER", u) = h => u = t)
    BY <1>5, MessageTypes DEF t
  <2>3. \A u : \A v \in Worker : /\ CrossesAs(u, v)' => CrossesAs(u, v)
                                 /\ CrossesAs(u, v) => CrossesAs(u, v)' \/ u = t
    BY <1>3, <1>6, <2>2 DEF CrossesAs
  <2>4. center_queue' \subseteq 1 .. issued' /\ t \in center_queue' /\ center_queue \subseteq center_queue'
    BY <1>1, <1>2, <1>4 DEF TaskInv
  <2> QED
    BY <1>1, <1>2, <2>1, <2>3, <2>4 DEF TaskInv
<1>13. AvailableInv'
  <2>1. \A v \in Worker : /\ SaysAvailable(v)' => SaysAvailable(v)
                          /\ Given(v)' <=> Given(v)
    BY <1>3, <1>5, <1>6 DEF SaysAvailable, Given
  <2>2. Available' = Available
    BY <1>2 DEF Available
  <2> QED
    BY <1>1, <1>2, <1>3, <1>7, <1>9, <2>1, <2>2 DEF AvailableInv
<1>14. FullnessInv'
  <2>1. CASE last_full_status' = last_full_status
    BY <1>2, <2>1, LoopFullness
  <2>2. CASE far_too_full(Cardinality(center_queue')) /\ last_full_status' = FALSE
    <3>1. center_queue # {}
      <4>1. SUFFICES ASSUME center_queue = {} PROVE FALSE
        OBVIOUS
      <4>2. center_queue' = {t}
        BY <1>2, <4>1
      <4>3. Cardinality(center_queue') = 1
        BY <4>2, FS_Singleton
      <4> QED
        BY <2>2, <4>3, Limits
    <3>2. Available = {}
      BY <1>1, <1>2, <3>1 DEF AvailableInv, CanDispatch
    <3>3. Forgotten'
      BY <1>2, <1>9, <2>2, <3>2 DEF Forgotten, Available
    <3> QED
      BY <3>3 DEF FullnessInv
  <2> QED
    BY <1>2, <2>1, <2>2
<1>15. SameSide
  BY <1>2 DEF SameSide
<1> QED
  BY <1>1, <1>2, <1>8, <1>10, <1>11, <1>12, <1>13, <1>14, <1>15, DetectorTypesFrame,
     WorkerTypesFrame, ScoreTypesFrame, StreamTypesFrame, TaskTypesFrame, WorkerFrame,
     StreamFrame, ScoreFrame DEF IInv, TypeOK

\* process_task_received_ack at the center does not throw.
LEMMA CenterReceiveAckNext ==
    ASSUME IInv, NEW w \in Worker, CenterReceiveAck(w)
    PROVE  IInv'
<1> DEFINE h == Head(to_center[w])
<1>1. /\ TypeOK /\ WorkerInv /\ DetectorInv /\ PhaseInv /\ StreamInv /\ TaskInv /\ AvailableInv
      /\ FullnessInv /\ ScoreInv /\ to_center \in Net(Worker, ToCenter)
  BY DEF IInv, TypeOK, WorldTypes
<1>2. /\ cpc = "loop" /\ Arrived(to_center, w, "TASK_RECEIVED")
      /\ UNCHANGED <<pc, channelVars, is_center_full, busy, managerVars, global_score,
                     process_state, nodes_available, last_full_status, collectVars, sentVars,
                     receivedVars, to_worker, score_updates, notices, proposal, historyVars>>
  BY DEF CenterReceiveAck
<1>3. deficit[Center] > 0 /\ deficit[Center] \in Nat
  <2>1. h \in Messages(to_center, w) /\ h.tag = "TASK_RECEIVED"
    BY <1>1, <1>2, MessagesType DEF Arrived
  <2> QED
    BY <1>1, <2>1, StillOwed, Ranks DEF TypeOK, DetectorTypes
<1>4. /\ deficit' = [deficit EXCEPT ![Center] = @ - 1] /\ to_center' = Drop(to_center, w)
      /\ UNCHANGED <<parent, held, center_queue>> /\ AfterMessage
  BY <1>3 DEF CenterReceiveAck
<1>5. /\ to_center' \in Net(Worker, ToCenter) /\ h.tag = "TASK_RECEIVED"
      /\ \A v \in Worker :
           /\ \A x \in Messages(to_center', v) : x \in Messages(to_center, v)
           /\ \A x \in Messages(to_center, v) : x \in Messages(to_center', v) \/ (v = w /\ x = h)
           /\ NoneBehind(to_center, v, "AVAILABLE_STATE", StateTags) =>
                NoneBehind(to_center', v, "AVAILABLE_STATE", StateTags)
           /\ Count(to_center', {v}, "TASK_FOR_CENTER") = Count(to_center, {v}, "TASK_FOR_CENTER")
      /\ Count(to_center', Worker, "TASK_RECEIVED") =
           Count(to_center, Worker, "TASK_RECEIVED") - 1
  <2>1. Arrived(to_center, w, "TASK_RECEIVED") /\ to_center' = Drop(to_center, w)
    BY <1>2, <1>4
  <2>2. /\ to_center' \in Net(Worker, ToCenter) /\ h.tag = "TASK_RECEIVED"
        /\ \A v \in Worker :
             /\ \A x \in Messages(to_center', v) : x \in Messages(to_center, v)
             /\ \A x \in Messages(to_center, v) : x \in Messages(to_center', v) \/ (v = w /\ x = h)
             /\ NoneBehind(to_center, v, "AVAILABLE_STATE", StateTags) =>
                  NoneBehind(to_center', v, "AVAILABLE_STATE", StateTags)
    BY <2>1, CenterReads
  <2>3. Count(to_center', Worker, "TASK_RECEIVED") = Count(to_center, Worker, "TASK_RECEIVED") - 1
    BY <2>1, CenterReads
  <2>4. \A v \in Worker :
          Count(to_center', {v}, "TASK_FOR_CENTER") = Count(to_center, {v}, "TASK_FOR_CENTER")
    <3>1. to_center[w] # <<>> /\ \A v \in Worker : {v} \in SUBSET Worker
      BY <2>1 DEF Arrived
    <3> QED
      BY <1>1, <2>1, <2>2, <3>1, Ranks, CountDrop
  <2> QED
    BY <2>2, <2>3, <2>4
<1> HIDE DEF h
<1>6. PhaseInv' /\ cpc' \in {"notify", "dispatch"} /\ cpc' \in CenterPC
  BY <1>2, <1>4, AfterMessagePhase
<1>7. /\ deficit' \in [Rank -> Nat] /\ deficit'[Center] = deficit[Center] - 1
      /\ \A v \in Worker : deficit'[v] = deficit[v]
  BY <1>1, <1>3, <1>4, Ranks DEF TypeOK, DetectorTypes
<1>8. DetectorTypes' /\ CenterTypes' /\ WorldTypes'
  BY <1>1, <1>2, <1>4, <1>5, <1>6, <1>7 DEF TypeOK, DetectorTypes, CenterTypes, WorldTypes
<1>9. DetectorInv'
  <2>1. Engaged' = Engaged
    BY <1>4 DEF Engaged
  <2>2. deficit'[Center] = Count(to_worker', Worker, "TASK_FROM_CENTER") + Cardinality(Engaged')
                             + Count(to_center', Worker, "TASK_RECEIVED")
    BY <1>1, <1>2, <1>5, <1>7, <2>1, Counts DEF DetectorInv
  <2> QED
    BY <1>1, <1>2, <1>4, <1>5, <1>7, <2>2 DEF DetectorInv
<1>10. TaskInv'
  <2>1. \A u, v : KeptBy(u, v)' <=> KeptBy(u, v)
    BY <1>2 DEF KeptBy
  <2>2. \A u : TaskMsg("TASK_FOR_CENTER", u) # h
    BY <1>5, MessageTypes
  <2>3. \A u : \A v \in Worker : CrossesAs(u, v)' <=> CrossesAs(u, v)
    BY <1>2, <1>5, <2>2 DEF CrossesAs
  <2> QED
    BY <1>1, <1>2, <1>4, <2>1, <2>3 DEF TaskInv
<1>11. AvailableInv'
  <2>1. \A v \in Worker : /\ SaysAvailable(v)' => SaysAvailable(v)
                          /\ Given(v)' <=> Given(v)
    BY <1>2, <1>5 DEF SaysAvailable, Given
  <2>2. Available' = Available
    BY <1>2 DEF Available
  <2> QED
    BY <1>1, <1>2, <1>5, <1>6, <2>1, <2>2 DEF AvailableInv
<1>12. FullnessInv' /\ SameSide
  BY <1>2, LoopFullness DEF SameSide
<1> QED
  BY <1>1, <1>2, <1>6, <1>8, <1>9, <1>10, <1>11, <1>12, WorkerTypesFrame, ScoreTypesFrame,
     StreamTypesFrame, TaskTypesFrame, WorkerFrame, StreamFrame, ScoreFrame DEF IInv, TypeOK

\* The scan of dispatch_to_available ends at an available rank.
LEMMA LeastIn ==
    ASSUME NEW S \in SUBSET Nat, S # {}
    PROVE  Least(S) \in S
<1> DEFINE R == {p \in Nat \X Nat : p[1] < p[2]}
<1>0. IsWellFoundedOn(R, Nat)
  BY NatLessThanWellFounded, Zenon DEF OpToRel
<1> HIDE DEF R
<1>1. PICK x \in S : \A y \in S : ~(<<y, x>> \in R)
  BY <1>0, WFMin
<1>2. \A y \in S : x <= y
  <2> SUFFICES ASSUME NEW y \in S PROVE x <= y
    OBVIOUS
  <2>1. <<y, x>> \in Nat \X Nat /\ <<y, x>> \notin R
    BY <1>1
  <2> QED
    BY <2>1 DEF R
<1> QED
  BY <1>2 DEF Least

\* The center sends task t to an available rank v, which is not available any more.
LEMMA Sending ==
    ASSUME IInv, cpc \in {"start", "dispatch"}, NEW v \in Available, NEW t \in Task,
           to_worker' = Post(to_worker, v, TaskMsg("TASK_FROM_CENTER", t)), CenterSends,
           process_state' \in [Worker -> {"AVAILABLE", "ASSIGNED", "RUNNING"}],
           process_state'[v] # "AVAILABLE",
           \A w \in Worker : w # v => process_state'[w] = process_state[w],
           nodes_available' = nodes_available - 1,
           cpc' \in {"loop", "dispatch", "sending"}, cpc' = "loop" => center_queue' = {},
           UNCHANGED <<parent, held, pc, to_center, notices, is_center_full, last_full_status,
                       score_updates_sent, notices_sent>>
    PROVE  /\ DetectorTypes' /\ WorldTypes' /\ DetectorInv' /\ PhaseInv' /\ AvailableInv'
           /\ nodes_available' \in 0 .. WorldSize - 1 /\ FullnessInv'
           /\ v \in Worker
           /\ \A w \in Worker : \A x : x \in Messages(to_worker', w) <=>
                x \in Messages(to_worker, w) \/ (w = v /\ x = TaskMsg("TASK_FROM_CENTER", t))
<1> DEFINE m == TaskMsg("TASK_FROM_CENTER", t)
<1>1. /\ TypeOK /\ DetectorInv /\ PhaseInv /\ AvailableInv /\ FullnessInv
      /\ to_worker \in Net(Worker, ToWorker) /\ to_center \in Net(Worker, ToCenter)
      /\ v \in Worker /\ process_state[v] = "AVAILABLE"
  BY DEF IInv, TypeOK, WorldTypes, Available
<1>2. m \in ToWorker /\ m.tag = "TASK_FROM_CENTER" /\ to_worker' = Post(to_worker, v, m)
  BY MessageTypes
<1> HIDE DEF m
<1>3. /\ to_worker' \in Net(Worker, ToWorker)
      /\ \A w \in Worker : \A x : x \in Messages(to_worker', w) <=>
                                    x \in Messages(to_worker, w) \/ (w = v /\ x = m)
  BY <1>1, <1>2, PostIn
<1>4. /\ Count(to_worker', Worker, "TASK_FROM_CENTER") =
           Count(to_worker, Worker, "TASK_FROM_CENTER") + 1
      /\ Count(to_worker', {v}, "TASK_FROM_CENTER") =
           Count(to_worker, {v}, "TASK_FROM_CENTER") + 1
      /\ \A w \in Worker : w # v => Count(to_worker', {w}, "TASK_FROM_CENTER") =
                                      Count(to_worker, {w}, "TASK_FROM_CENTER")
      /\ \A w \in Worker : Count(to_worker', {w}, "TASK_RECEIVED") =
                             Count(to_worker, {w}, "TASK_RECEIVED")
  <2>1. \A w \in Worker : {w} \in SUBSET Worker
    OBVIOUS
  <2> QED
    BY <2>1, <1>1, <1>2, Ranks, CountPost
<1>5. /\ deficit' \in [Rank -> Nat] /\ deficit'[Center] = deficit[Center] + 1
      /\ \A w \in Worker : deficit'[w] = deficit[w]
  BY <1>1, Ranks DEF TypeOK, DetectorTypes, CenterSends
<1>6. DetectorTypes' /\ WorldTypes'
  BY <1>1, <1>3, <1>5 DEF TypeOK, DetectorTypes, WorldTypes
<1>7. DetectorInv'
  <2>1. Engaged' = Engaged
    BY DEF Engaged
  <2>2. deficit'[Center] = Count(to_worker', Worker, "TASK_FROM_CENTER") + Cardinality(Engaged')
                             + Count(to_center', Worker, "TASK_RECEIVED")
    BY <1>1, <1>4, <1>5, <2>1, Counts DEF DetectorInv
  <2> QED
    BY <1>1, <1>4, <1>5, <2>2 DEF DetectorInv
<1>8. PhaseInv'
  <2>1. \A w \in Worker : \A x \in Messages(to_worker', w) : x.tag # "TERMINATION"
    BY <1>1, <1>2, <1>3 DEF PhaseInv, Announced
  <2>2. \A w \in Worker : pc[w] \notin {"barrier", "result", "done"}
    BY <1>1 DEF PhaseInv, Announced
  <2> QED
    BY <2>1, <2>2 DEF PhaseInv, Over
<1>9. /\ Available' = Available \ {v} /\ nodes_available' = Cardinality(Available')
      /\ nodes_available' \in 0 .. WorldSize - 1
  <2>1. Available' = Available \ {v}
    BY DEF Available
  <2>2. IsFiniteSet(Available) /\ nodes_available = Cardinality(Available) /\ Available \subseteq Worker
    BY NotYetAvailable
  <2>3. IsFiniteSet(Available') /\ Cardinality(Available') = Cardinality(Available) - 1
    BY <2>1, <2>2, FS_RemoveElement
  <2>4. Cardinality(Available') \in Nat /\ nodes_available \in 0 .. WorldSize - 1
    BY <1>1, <2>3, FS_CardinalityType DEF TypeOK, CenterTypes
  <2> QED
    BY <2>1, <2>2, <2>3, <2>4, SizeAssumption
<1>10. AvailableInv'
  <2>1. /\ pc[v] = "probe" /\ ~Given(v) /\ ~SaysAvailable(v)
    BY <1>1 DEF AvailableInv, SaysAvailable, StateTags
  <2>2. Count(to_worker', {v}, "TASK_FROM_CENTER") = 1
    <3>1. Count(to_worker, {v}, "TASK_FROM_CENTER") = 0
      <4>1. {v} \in SUBSET Worker /\ \A c \in {v} : \A x \in Messages(to_worker, c) : x.tag # "TASK_FROM_CENTER"
        BY <1>1, <2>1 DEF Given
      <4> QED
        BY <1>1, <4>1, Ranks, CountNat
    <3> QED
      BY <3>1, <1>4
  <2>3. \A w \in Worker : SaysAvailable(w)' <=> SaysAvailable(w)
    BY DEF SaysAvailable
  <2>4. \A w \in Worker : w # v => (Given(w)' <=> Given(w))
    BY <1>3 DEF Given
  <2>5. cpc' = "loop" => ~CanDispatch'
    BY DEF CanDispatch
  <2>6. \A w \in Worker : Count(to_worker', {w}, "TASK_FROM_CENTER") <= 1
    <3>1. \A w \in Worker : Count(to_worker, {w}, "TASK_FROM_CENTER") <= 1
      BY <1>1 DEF AvailableInv
    <3>2. ASSUME NEW w \in Worker PROVE Count(to_worker', {w}, "TASK_FROM_CENTER") <= 1
      <4>1. CASE w = v
        BY <2>2, <4>1
      <4>2. CASE w # v
        BY <1>4, <3>1, <4>2
      <4> QED
        BY <4>1, <4>2
    <3> QED
      BY <3>2
  <2>7. \A w \in Worker :
           /\ process_state'[w] = "AVAILABLE" =>
                /\ pc'[w] = "probe" /\ ~Given(w)'
                /\ \A x \in Messages(to_center', w) : x.tag \notin StateTags
           /\ SaysAvailable(w)' => pc'[w] = "probe" /\ ~Given(w)'
           /\ NoneBehind(to_center', w, "AVAILABLE_STATE", StateTags)
           /\ Given(w)' => pc'[w] = "probe"
    BY <1>1, <2>1, <2>3, <2>4 DEF AvailableInv
  <2> QED
    BY <1>9, <2>5, <2>6, <2>7 DEF AvailableInv
<1>11. FullnessInv'
  <2>1. ~Forgotten
    BY DEF Forgotten
  <2> QED
    BY <1>1, <2>1 DEF FullnessInv, Told
<1> QED
  BY <1>1, <1>3, <1>6, <1>7, <1>8, <1>9, <1>10, <1>11 DEF m

\* send_seed.
LEMMA StartNext ==
    ASSUME IInv, Start
    PROVE  IInv'
<1>1. /\ TypeOK /\ WorkerInv /\ DetectorInv /\ PhaseInv /\ StreamInv /\ TaskInv /\ AvailableInv
      /\ FullnessInv /\ ScoreInv
  BY DEF IInv
<1>2. /\ cpc = "start" /\ to_worker' = Post(to_worker, 1, TaskMsg("TASK_FROM_CENTER", Seed))
      /\ issued' = 1 /\ CenterSends /\ process_state' = [process_state EXCEPT ![1] = "RUNNING"]
      /\ nodes_available' = nodes_available - 1 /\ cpc' = "loop"
      /\ UNCHANGED <<parent, held, pc, channelVars, is_center_full, busy, managerVars,
                     global_score, center_queue, last_full_status, collectVars, sentVars,
                     receivedVars, to_center, score_updates, notices, proposal, executed, best>>
  BY DEF Start
<1>3. 1 \in Available /\ issued = 0 /\ center_queue = {} /\ Seed \in Task /\ 1 \in Worker
  BY <1>1, <1>2, Ranks DEF PhaseInv
<1>4. /\ process_state' \in [Worker -> {"AVAILABLE", "ASSIGNED", "RUNNING"}]
      /\ process_state'[1] # "AVAILABLE"
      /\ \A w \in Worker : w # 1 => process_state'[w] = process_state[w]
  BY <1>1, <1>2, <1>3 DEF TypeOK, CenterTypes
<1>5. /\ DetectorTypes' /\ WorldTypes' /\ DetectorInv' /\ PhaseInv' /\ AvailableInv'
      /\ nodes_available' \in 0 .. WorldSize - 1 /\ FullnessInv'
      /\ \A w \in Worker : \A x : x \in Messages(to_worker', w) <=>
           x \in Messages(to_worker, w) \/ (w = 1 /\ x = TaskMsg("TASK_FROM_CENTER", Seed))
  BY <1>2, <1>3, <1>4, Sending
<1>6. CenterTypes' /\ TaskTypes'
  <2>1. CenterTypes'
    BY <1>1, <1>2, <1>4, <1>5 DEF TypeOK, CenterTypes, CenterPC
  <2>2. executed = {}
    BY <1>1, <1>3 DEF TypeOK, TaskTypes
  <2> QED
    BY <2>1, <2>2, <1>2, TaskAssumption DEF TaskTypes
<1>7. SameSide
  BY <1>2 DEF SameSide
<1>8. TaskInv'
  <2>1. CrossesAs(Seed, 1)'
    BY <1>3, <1>5 DEF CrossesAs
  <2>2. \A u \in 1 .. issued' : u = Seed
    BY <1>2 DEF Seed
  <2>3. ASSUME NEW u \in Task, NEW w \in Worker, CrossesAs(u, w)' \/ KeptBy(u, w)' PROVE u = Seed
    <3>1. ~CrossesAs(u, w) /\ ~KeptBy(u, w)
      BY <1>1, <1>3 DEF TaskInv, Task
    <3>2. TaskMsg("TASK_FROM_CENTER", u) = TaskMsg("TASK_FROM_CENTER", Seed) => u = Seed
      BY MessageTypes
    <3> QED
      BY <2>3, <3>1, <3>2, <1>2, <1>5 DEF CrossesAs, KeptBy
  <2> QED
    BY <1>2, <1>3, <2>1, <2>2, <2>3 DEF TaskInv, Seed
<1> QED
  BY <1>1, <1>2, <1>5, <1>6, <1>7, <1>8, WorkerTypesFrame, ScoreTypesFrame, StreamTypesFrame,
     WorkerFrame, StreamFrame, ScoreFrame DEF IInv, TypeOK

\* One round of dispatch_to_available.
LEMMA DispatchNext ==
    ASSUME IInv, Dispatch
    PROVE  IInv'
<1>1. /\ TypeOK /\ WorkerInv /\ DetectorInv /\ PhaseInv /\ StreamInv /\ TaskInv /\ AvailableInv
      /\ FullnessInv /\ ScoreInv
  BY DEF IInv
<1>2. PICK v \in Available : v = Least(Available) /\ v \in Worker
  <2>1. Available \in SUBSET Nat /\ Available # {} /\ Available \subseteq Worker
    BY Ranks, NotYetAvailable DEF Dispatch, CanDispatch
  <2> QED
    BY <2>1, LeastIn
<1>3. /\ cpc = "dispatch" /\ process_state' = [process_state EXCEPT ![v] = "ASSIGNED"]
      /\ nodes_available' = nodes_available - 1 /\ CenterSends
      /\ cpc' \in {"dispatch", "sending"}
      /\ UNCHANGED <<parent, held, pc, channelVars, is_center_full, busy, managerVars,
                     global_score, last_full_status, collectVars, sentVars, receivedVars,
                     to_center, score_updates, notices, proposal, historyVars>>
  BY <1>1, <1>2 DEF Dispatch, Assigned, AvailableInv
<1>4. PICK t \in center_queue :
        /\ center_queue' = center_queue \ {t}
        /\ to_worker' = Post(to_worker, v, TaskMsg("TASK_FROM_CENTER", t))
  BY <1>2 DEF Dispatch
<1>5. t \in Task /\ t <= issued
  BY <1>1 DEF TypeOK, CenterTypes, TaskInv, TaskTypes
<1>6. /\ process_state' \in [Worker -> {"AVAILABLE", "ASSIGNED", "RUNNING"}]
      /\ process_state'[v] # "AVAILABLE"
      /\ \A w \in Worker : w # v => process_state'[w] = process_state[w]
  BY <1>1, <1>3, <1>2 DEF TypeOK, CenterTypes
<1>7. /\ DetectorTypes' /\ WorldTypes' /\ DetectorInv' /\ PhaseInv' /\ AvailableInv'
      /\ nodes_available' \in 0 .. WorldSize - 1 /\ FullnessInv'
      /\ \A w \in Worker : \A x : x \in Messages(to_worker', w) <=>
           x \in Messages(to_worker, w) \/ (w = v /\ x = TaskMsg("TASK_FROM_CENTER", t))
  BY <1>3, <1>4, <1>2, <1>5, <1>6, Sending
<1>8. CenterTypes'
  BY <1>1, <1>3, <1>4, <1>6, <1>7 DEF TypeOK, CenterTypes, CenterPC
<1>9. SameSide
  BY <1>3 DEF SameSide
<1>10. TaskInv'
  <2>1. \A u, w : KeptBy(u, w)' <=> KeptBy(u, w)
    BY <1>3 DEF KeptBy
  <2>0. to_center' = to_center
    BY <1>3
  <2>2. CrossesAs(t, v)'
    BY <1>2, <1>7 DEF CrossesAs
  <2>4. \A u : \A w \in Worker : CrossesAs(u, w) => CrossesAs(u, w)'
    BY <1>7, <2>0 DEF CrossesAs
  <2>3. \A u : \A w \in Worker : CrossesAs(u, w)' => CrossesAs(u, w) \/ u = t
    <3>1. \A u : TaskMsg("TASK_FROM_CENTER", u) = TaskMsg("TASK_FROM_CENTER", t) => u = t
      BY MessageTypes
    <3> QED
      BY <3>1, <2>0, <1>7 DEF CrossesAs
  <2>5. \A u \in 1 .. issued :
          u \in executed \cup center_queue' \/ \E w \in Worker : CrossesAs(u, w)' \/ KeptBy(u, w)'
    <3>1. ASSUME NEW u \in 1 .. issued, u # t
          PROVE u \in executed \cup center_queue' \/ \E w \in Worker : CrossesAs(u, w)' \/ KeptBy(u, w)'
      <4>1. u \in executed \cup center_queue \/ \E w \in Worker : CrossesAs(u, w) \/ KeptBy(u, w)
        BY <1>1 DEF TaskInv
      <4> QED
        BY <3>1, <4>1, <1>4, <2>1, <2>4
    <3> QED
      BY <3>1, <1>2, <2>2
  <2>6. \A u \in Task, w \in Worker : CrossesAs(u, w)' \/ KeptBy(u, w)' => u <= issued
    BY <1>1, <1>5, <2>1, <2>3 DEF TaskInv
  <2>7. center_queue' \subseteq 1 .. issued
    BY <1>1, <1>4 DEF TaskInv
  <2> QED
    BY <1>3, <2>5, <2>6, <2>7 DEF TaskInv
<1> QED
  BY <1>1, <1>3, <1>7, <1>8, <1>9, <1>10, WorkerTypesFrame, ScoreTypesFrame, StreamTypesFrame,
     TaskTypesFrame, WorkerFrame, StreamFrame, ScoreFrame DEF IInv, TypeOK

\* Only the phase of the center changes, from one handing out tasks to the next.
LEMMA DispatchSentNext ==
    ASSUME IInv, DispatchSent
    PROVE  IInv'
<1>1. /\ TypeOK /\ WorkerInv /\ DetectorInv /\ PhaseInv /\ StreamInv /\ TaskInv /\ AvailableInv
      /\ FullnessInv /\ ScoreInv
  BY DEF IInv
<1>2. /\ cpc = "sending" /\ cpc' = "dispatch"
      /\ UNCHANGED <<detectorVars, pc, channelVars, is_center_full, busy, managerVars,
                     global_score, centerVars, collectVars, sentVars, receivedVars, worldVars,
                     score_updates, notices, proposal, historyVars>>
  BY DEF DispatchSent
<1>3. SameSide /\ CenterTypes' /\ FullnessInv'
  BY <1>1, <1>2, LoopFullness DEF SameSide, TypeOK, CenterTypes, CenterPC
<1>4. PhaseInv'
  BY <1>1, <1>2 DEF PhaseInv, Over, Announced
<1>5. AvailableInv'
  BY <1>1, <1>2 DEF AvailableInv, Available, Given, SaysAvailable
<1> QED
  BY <1>1, <1>2, <1>3, <1>4, <1>5, DetectorTypesFrame, WorkerTypesFrame, ScoreTypesFrame,
     StreamTypesFrame, WorldTypesFrame, TaskTypesFrame, WorkerFrame, DetectorFrame, StreamFrame,
     TaskFrame, ScoreFrame DEF IInv, TypeOK

\* A notice tells every worker the status that the center remembers from then on.
LEMMA NotifyKeeps ==
    ASSUME IInv, cpc \in {"loop", "dispatch"}, NotifyCenterStatus,
           UNCHANGED <<pc, is_center_full, score_updates_sent, receivedVars, score_updates>>
    PROVE  StreamTypes' /\ StreamInv' /\ FullnessInv' /\ last_full_status' \in BOOLEAN
<1>1. /\ TypeOK /\ PhaseInv /\ StreamInv /\ notices \in Net(Worker, BOOLEAN)
      /\ last_full_status \in BOOLEAN
  BY DEF IInv, TypeOK, StreamTypes, CenterTypes
<1>2. /\ last_full_status' = ~last_full_status /\ notices' = PostAll(notices, last_full_status')
      /\ notices_sent' = notices_sent + 1
  BY DEF NotifyCenterStatus
<1> DEFINE b == last_full_status'
           B == BOOLEAN
<1>3. b \in B /\ notices \in Net(Worker, B) /\ notices' = PostAll(notices, b)
  BY <1>1, <1>2
<1> HIDE DEF b, B
<1>4. notices' \in Net(Worker, B)
  BY <1>3, PostAllIn
<1>5. \A v \in Worker : /\ notices'[v] # <<>> /\ Last(notices'[v]) = b
                        /\ Len(notices'[v]) = Len(notices[v]) + 1
  BY <1>3, PostAllEach
<1>6. StreamTypes'
  <2>1. notices_sent' \in Nat
    BY <1>1, <1>2 DEF TypeOK, StreamTypes
  <2> QED
    BY <1>1, <1>4, <2>1 DEF TypeOK, StreamTypes, B
<1>7. StreamInv'
  <2>1. ASSUME NEW v \in Worker
        PROVE  notices_sent' = notices_received'[v] + Len(notices'[v])
    <3>1. notices_sent = notices_received[v] + Len(notices[v]) /\ notices_received[v] \in Nat
      BY <1>1 DEF StreamInv, TypeOK, StreamTypes
    <3>2. Len(notices[v]) \in Nat
      <4>1. notices[v] \in Seq(B)
        BY <1>3 DEF Net
      <4> QED
        BY <4>1
    <3> QED
      BY <1>2, <1>5, <3>1, <3>2
  <2>2. \A v \in Worker : pc'[v] \notin {"barrier", "result", "done"}
    BY <1>1 DEF PhaseInv, Announced
  <2> QED
    BY <1>1, <2>1, <2>2 DEF StreamInv
<1>8. FullnessInv'
  BY <1>5 DEF FullnessInv, Told, b
<1> QED
  BY <1>3, <1>6, <1>7, <1>8 DEF b, B

\* monitor_and_notify_center_status at the end of a round: a status that was forgotten is
\* announced again before the center waits for a message.
LEMMA MonitorNext ==
    ASSUME IInv, Monitor
    PROVE  IInv'
<1>1. /\ TypeOK /\ WorkerInv /\ DetectorInv /\ PhaseInv /\ StreamInv /\ TaskInv /\ AvailableInv
      /\ FullnessInv /\ ScoreInv
  BY DEF IInv
<1>2. /\ cpc = "dispatch" /\ ~CanDispatch /\ cpc' = "loop"
      /\ UNCHANGED <<detectorVars, pc, channelVars, is_center_full, busy, managerVars,
                     global_score, process_state, nodes_available, center_queue, collectVars,
                     score_updates_sent, receivedVars, worldVars, score_updates, proposal,
                     historyVars>>
  BY DEF Monitor
<1>3. StreamTypes' /\ StreamInv' /\ FullnessInv' /\ last_full_status' \in BOOLEAN
  <2>1. CASE NotifyCenterStatus
    BY <1>2, <2>1, NotifyKeeps
  <2>2. CASE \E memory \in current_memory :
               ~must_notify(memory) /\ UNCHANGED <<last_full_status, notices, notices_sent>>
    <3>1. UNCHANGED <<last_full_status, notices, notices_sent>>
      BY <2>2
    <3>2. ~Forgotten
      <4>1. SUFFICES ASSUME Forgotten PROVE \A memory : must_notify(memory)
        BY <2>2
      <4>2. center_queue \subseteq Task /\ IsFiniteSet(Task)
        BY <1>1, TaskAssumption, FS_Interval DEF TypeOK, CenterTypes, Task
      <4>3. Cardinality(center_queue) \in Nat
        BY <4>2, FS_Subset, FS_CardinalityType
      <4> QED
        BY <4>1, <4>3, Limits DEF Forgotten, must_notify
    <3>3. FullnessInv'
      BY <1>1, <1>2, <3>1, <3>2 DEF FullnessInv, Told
    <3>4. StreamTypes' /\ StreamInv'
      BY <1>1, <1>2, <3>1, StreamTypesFrame DEF StreamInv, TypeOK
    <3> QED
      BY <1>1, <3>1, <3>3, <3>4 DEF TypeOK, CenterTypes
  <2> QED
    BY <2>1, <2>2 DEF Monitor
<1>4. SameSide /\ CenterTypes'
  BY <1>1, <1>2, <1>3 DEF SameSide, TypeOK, CenterTypes, CenterPC
<1>5. PhaseInv'
  BY <1>1, <1>2 DEF PhaseInv, Over, Announced
<1>6. AvailableInv'
  BY <1>1, <1>2 DEF AvailableInv, Available, CanDispatch, Given, SaysAvailable
<1> QED
  BY <1>1, <1>2, <1>3, <1>4, <1>5, <1>6, DetectorTypesFrame, WorkerTypesFrame, ScoreTypesFrame,
     WorldTypesFrame, TaskTypesFrame, WorkerFrame, DetectorFrame, TaskFrame, ScoreFrame
     DEF IInv, TypeOK

\* monitor_and_notify_center_status while the center waits.
LEMMA MonitorIdleNext ==
    ASSUME IInv, MonitorIdle
    PROVE  IInv'
<1>1. /\ TypeOK /\ WorkerInv /\ DetectorInv /\ PhaseInv /\ StreamInv /\ TaskInv /\ AvailableInv
      /\ FullnessInv /\ ScoreInv
  BY DEF IInv
<1>2. /\ cpc = "loop" /\ NotifyCenterStatus
      /\ UNCHANGED <<detectorVars, pc, channelVars, is_center_full, busy, managerVars,
                     global_score, cpc, process_state, nodes_available, center_queue, collectVars,
                     score_updates_sent, receivedVars, worldVars, score_updates, proposal,
                     historyVars>>
  BY DEF MonitorIdle
<1>3. StreamTypes' /\ StreamInv' /\ FullnessInv' /\ last_full_status' \in BOOLEAN
  BY <1>2, NotifyKeeps
<1>4. SameSide /\ CenterTypes'
  BY <1>1, <1>2, <1>3 DEF SameSide, TypeOK, CenterTypes, CenterPC
<1>5. PhaseInv'
  BY <1>1, <1>2 DEF PhaseInv, Over, Announced
<1> QED
  BY <1>1, <1>2, <1>3, <1>4, <1>5, DetectorTypesFrame, WorkerTypesFrame, ScoreTypesFrame,
     WorldTypesFrame, TaskTypesFrame, WorkerFrame, DetectorFrame, TaskFrame, AvailableFrame,
     ScoreFrame DEF IInv, TypeOK

\* notify_termination: every worker is told how many messages were sent to it.
LEMMA NotifyTerminationNext ==
    ASSUME IInv, NotifyTermination
    PROVE  IInv'
<1> DEFINE m == [tag |-> "TERMINATION", counts |-> <<score_updates_sent, notices_sent>>]
<1>1. /\ TypeOK /\ WorkerInv /\ DetectorInv /\ PhaseInv /\ StreamInv /\ TaskInv /\ AvailableInv
      /\ FullnessInv /\ ScoreInv /\ to_worker \in Net(Worker, ToWorker)
  BY DEF IInv, TypeOK, WorldTypes
<1>2. /\ cpc = "notify" /\ cpc' = "barrier" /\ to_worker' = PostAll(to_worker, m)
      /\ UNCHANGED <<detectorVars, pc, channelVars, is_center_full, busy, managerVars,
                     global_score, centerVars, collectVars, sentVars, receivedVars, to_center,
                     score_updates, notices, proposal, historyVars>>
  BY DEF NotifyTermination
<1>3. /\ m \in ToWorker /\ m.tag = "TERMINATION"
      /\ m.counts = <<score_updates_sent, notices_sent>>
  BY <1>1 DEF TypeOK, StreamTypes, ToWorker
<1> HIDE DEF m
<1>4. /\ to_worker' \in Net(Worker, ToWorker)
      /\ \A v \in Worker : \A x : x \in Messages(to_worker', v) <=>
                                    x \in Messages(to_worker, v) \/ x = m
  BY <1>1, <1>2, <1>3, PostAllIn
<1>5. /\ Count(to_worker', Worker, "TASK_FROM_CENTER") = Count(to_worker, Worker, "TASK_FROM_CENTER")
      /\ \A v \in Worker :
           Count(to_worker', {v}, "TASK_RECEIVED") = Count(to_worker, {v}, "TASK_RECEIVED")
  <2>1. \A v \in Worker : {v} \in SUBSET Worker
    OBVIOUS
  <2> QED
    BY <2>1, <1>1, <1>2, <1>3, CountPostAll
<1>6. SameSide /\ CenterTypes' /\ FullnessInv'
  BY <1>1, <1>2, LoopFullness DEF SameSide, TypeOK, CenterTypes, CenterPC
<1>7. WorldTypes'
  BY <1>1, <1>2, <1>4 DEF TypeOK, WorldTypes
<1>8. DetectorInv'
  <2>1. Engaged' = Engaged
    BY <1>2 DEF Engaged
  <2> QED
    BY <1>1, <1>2, <1>5, <2>1 DEF DetectorInv
<1>9. PhaseInv'
  BY <1>1, <1>2, <1>3, <1>4 DEF PhaseInv, Over, Announced
<1>10. TaskInv'
  <2>1. \A u, v : KeptBy(u, v)' <=> KeptBy(u, v)
    BY <1>2 DEF KeptBy
  <2>2. \A u : TaskMsg("TASK_FROM_CENTER", u) # m
    BY <1>3, MessageTypes
  <2>3. \A u : \A v \in Worker : CrossesAs(u, v)' <=> CrossesAs(u, v)
    BY <1>2, <1>4, <2>2 DEF CrossesAs
  <2> QED
    BY <1>1, <1>2, <2>1, <2>3 DEF TaskInv
<1>11. AvailableInv'
  BY <1>1, <1>2 DEF AvailableInv, Available
<1> QED
  BY <1>1, <1>2, <1>6, <1>7, <1>8, <1>9, <1>10, <1>11, DetectorTypesFrame, WorkerTypesFrame,
     ScoreTypesFrame, StreamTypesFrame, TaskTypesFrame, WorkerFrame, StreamFrame, ScoreFrame
     DEF IInv, TypeOK

\* All ranks pass MPI_Barrier at once.
LEMMA BarrierNext ==
    ASSUME IInv, Barrier
    PROVE  IInv'
<1>1. /\ TypeOK /\ WorkerInv /\ DetectorInv /\ PhaseInv /\ StreamInv /\ TaskInv /\ AvailableInv
      /\ FullnessInv /\ ScoreInv
  BY DEF IInv
<1>2. /\ cpc = "barrier" /\ cpc' = "collect" /\ pc' = [w \in Worker |-> "result"]
      /\ \A w \in Worker : pc[w] = "barrier" /\ pc'[w] = "result"
      /\ UNCHANGED <<detectorVars, channelVars, is_center_full, busy, managerVars, global_score,
                     centerVars, collectVars, sentVars, receivedVars, worldVars, score_updates,
                     notices, proposal, historyVars>>
  BY DEF Barrier
<1>3. CenterTypes' /\ FullnessInv' /\ WorkerTypes'
  <2>1. CenterTypes' /\ FullnessInv'
    BY <1>1, <1>2, LoopFullness DEF TypeOK, CenterTypes, CenterPC
  <2> QED
    BY <2>1, <1>1, <1>2 DEF TypeOK, WorkerTypes, MainPC
<1>4. WorkerInv'
  BY <1>1, <1>2 DEF WorkerInv, Idle
<1>5. DetectorInv'
  BY <1>1, <1>2 DEF DetectorInv, Engaged, Idle
<1>6. PhaseInv'
  BY <1>1, <1>2 DEF PhaseInv, Over, Announced
<1>7. StreamInv'
  BY <1>1, <1>2 DEF StreamInv
<1>8. TaskInv'
  BY <1>1, <1>2 DEF TaskInv, CrossesAs, KeptBy
<1>9. AvailableInv'
  BY <1>1, <1>2 DEF AvailableInv, Available
<1> QED
  BY <1>1, <1>2, <1>3, <1>4, <1>5, <1>6, <1>7, <1>8, <1>9, DetectorTypesFrame, ScoreTypesFrame,
     StreamTypesFrame, WorldTypesFrame, TaskTypesFrame, ScoreFrame DEF IInv, TypeOK

\* receive_solution meets results and state messages only: every task and every
\* acknowledgement has been received by then.
LEMMA ReceiveSolutionNext ==
    ASSUME IInv, ReceiveSolution
    PROVE  IInv'
<1>1. /\ TypeOK /\ WorkerInv /\ DetectorInv /\ PhaseInv /\ StreamInv /\ TaskInv /\ AvailableInv
      /\ FullnessInv /\ ScoreInv /\ to_center \in Net(Worker, ToCenter)
  BY DEF IInv, TypeOK, WorldTypes
<1>2. PICK w \in Worker : w = collecting
  BY <1>1 DEF TypeOK, CenterTypes
<1> DEFINE h == Head(to_center[w])
           isResult == h.tag \in {"HAS_RESULT", "NO_RESULT"}
<1>3. /\ cpc = "collect" /\ to_center[w] # <<>> /\ to_center' = Drop(to_center, w)
      /\ collecting' = IF isResult /\ w # WorldSize - 1 THEN w + 1 ELSE w
      /\ h.tag \in {"HAS_RESULT", "NO_RESULT", "RUNNING_STATE", "AVAILABLE_STATE"} =>
           cpc' \in {"collect", "done"}
      /\ UNCHANGED <<detectorVars, pc, channelVars, is_center_full, busy, managerVars,
                     global_score, centerVars, sentVars, receivedVars, to_worker, score_updates,
                     notices, proposal, historyVars>>
  BY <1>2 DEF ReceiveSolution
<1>4. /\ to_center' \in Net(Worker, ToCenter) /\ h \in ToCenter /\ h \in Messages(to_center, w)
      /\ \A v \in Worker :
           /\ \A x \in Messages(to_center', v) : x \in Messages(to_center, v)
           /\ \A x \in Messages(to_center, v) : x \in Messages(to_center', v) \/ (v = w /\ x = h)
  <2>1. Arrived(to_center, w, h.tag)
    BY <1>3 DEF Arrived
  <2> QED
    BY <1>3, <2>1, CenterReads
<1>5. h.tag \in {"HAS_RESULT", "NO_RESULT", "RUNNING_STATE", "AVAILABLE_STATE"}
  <2>1. h.tag # "TASK_RECEIVED"
    BY <1>3, <1>4, StillOwed
  <2>2. h.tag # "TASK_FOR_CENTER"
    BY <1>3, <1>4, OwedTo, StillOwed
  <2> QED
    BY <1>4, <2>1, <2>2 DEF ToCenter
<1>6. cpc' \in {"collect", "done"} /\ collecting' \in Worker
  <2>1. w # WorldSize - 1 => w + 1 \in Worker
    BY SizeAssumption DEF Worker
  <2> QED
    BY <1>3, <1>5, <2>1
<1>7. /\ Count(to_center', Worker, "TASK_RECEIVED") = Count(to_center, Worker, "TASK_RECEIVED")
      /\ \A v \in Worker :
           Count(to_center', {v}, "TASK_FOR_CENTER") = Count(to_center, {v}, "TASK_FOR_CENTER")
  <2>1. \A v \in Worker : {v} \in SUBSET Worker
    OBVIOUS
  <2>2. h.tag # "TASK_RECEIVED" /\ h.tag # "TASK_FOR_CENTER"
    BY <1>5
  <2> QED
    BY <2>1, <2>2, <1>1, <1>3, Ranks, CountDrop
<1>8. \A u : TaskMsg("TASK_FOR_CENTER", u) # h
  BY <1>5, MessageTypes
<1> HIDE DEF h
<1>9. SameSide /\ CenterTypes' /\ FullnessInv' /\ WorldTypes'
  <2>1. SameSide /\ FullnessInv'
    BY <1>3, LoopFullness DEF SameSide
  <2> QED
    BY <2>1, <1>1, <1>3, <1>4, <1>6 DEF TypeOK, CenterTypes, CenterPC, WorldTypes
<1>10. DetectorInv'
  <2>1. Engaged' = Engaged
    BY <1>3 DEF Engaged
  <2> QED
    BY <1>1, <1>3, <1>7, <2>1 DEF DetectorInv
<1>11. PhaseInv'
  BY <1>1, <1>3, <1>6 DEF PhaseInv, Over, Announced
<1>12. TaskInv'
  <2>1. \A u, v : KeptBy(u, v)' <=> KeptBy(u, v)
    BY <1>3 DEF KeptBy
  <2>2. \A u : \A v \in Worker : CrossesAs(u, v)' <=> CrossesAs(u, v)
    BY <1>3, <1>4, <1>8 DEF CrossesAs
  <2> QED
    BY <1>1, <1>3, <2>1, <2>2 DEF TaskInv
<1>13. AvailableInv'
  BY <1>1, <1>3, <1>6 DEF AvailableInv, Available
<1> QED
  BY <1>1, <1>3, <1>9, <1>10, <1>11, <1>12, <1>13, DetectorTypesFrame, WorkerTypesFrame,
     ScoreTypesFrame, StreamTypesFrame, TaskTypesFrame, WorkerFrame, StreamFrame, ScoreFrame
     DEF IInv, TypeOK

-----------------------------------------------------------------------------
(* The invariant, and what follows from it *)

\* The invariant holds when run() is entered.
LEMMA InitInv == Init => IInv
<1> SUFFICES ASSUME Init PROVE IInv
  OBVIOUS
<1>1. /\ to_center = [w \in Worker |-> <<>>] /\ to_worker = [w \in Worker |-> <<>>]
      /\ score_updates = [w \in Worker |-> <<>>] /\ notices = [w \in Worker |-> <<>>]
  BY DEF Init
<1>2. /\ to_center \in Net(Worker, ToCenter) /\ to_worker \in Net(Worker, ToWorker)
      /\ score_updates \in Net(Worker, Scores)
      /\ \A w \in Worker : /\ Messages(to_center, w) = {} /\ Messages(to_worker, w) = {}
                           /\ Messages(score_updates, w) = {}
  BY <1>1 DEF Net, Messages
<1>3. notices \in Net(Worker, BOOLEAN)
  <2> DEFINE B == BOOLEAN
  <2> HIDE DEF B
  <2>1. notices \in Net(Worker, B)
    BY <1>1 DEF Net
  <2> QED
    BY <2>1 DEF B
<1>4. \A C \in SUBSET Worker : \A tag :
        Count(to_center, C, tag) = 0 /\ Count(to_worker, C, tag) = 0
  BY <1>2, Ranks, CountNat
<1>5. TypeOK
  <2>0. DetectorTypes
    BY DEF Init, DetectorTypes
  <2>1. CenterTypes /\ TaskTypes
    <3>1. CenterTypes
      <4>1. WorldSize - 1 \in 0 .. WorldSize - 1 /\ 1 \in Worker
        BY Ranks, SizeAssumption
      <4>2. /\ cpc = "start" /\ nodes_available = WorldSize - 1 /\ center_queue = {}
            /\ last_full_status = FALSE /\ collecting = 1
            /\ process_state = [w \in Worker |-> "AVAILABLE"]
        BY DEF Init
      <4> QED
        BY <4>1, <4>2 DEF CenterTypes, CenterPC
    <3>2. TaskTypes
      BY TaskAssumption DEF Init, TaskTypes
    <3> QED
      BY <3>1, <3>2
  <2>2. WorkerTypes
    BY DEF Init, WorkerTypes, MainPC
  <2>3. ScoreTypes
    BY DEF Init, ScoreTypes
  <2>4. StreamTypes
    BY <1>2, <1>3 DEF Init, StreamTypes
  <2> QED
    BY <1>2, <2>0, <2>1, <2>2, <2>3, <2>4 DEF TypeOK, WorldTypes
<1>6. WorkerInv
  BY DEF Init, WorkerInv
<1>7. DetectorInv
  <2>1. Engaged = {} /\ Cardinality(Engaged) = 0
    BY Ranks, FS_EmptySet DEF Init, Engaged
  <2>2. \A w \in Worker : /\ {w} \in SUBSET Worker /\ deficit[w] = 0 /\ parent[w] = None
                          /\ pc[w] = "probe"
    BY Ranks DEF Init
  <2>3. deficit[Center] = 0 /\ parent[Center] = None
    BY Ranks DEF Init
  <2> QED
    BY <1>4, <2>1, <2>2, <2>3 DEF DetectorInv, Idle
<1>8. Available = Worker /\ nodes_available = Cardinality(Available)
  BY Ranks DEF Init, Available
<1>9. PhaseInv
  BY <1>2, <1>8, Ranks DEF Init, PhaseInv, Over, Announced
<1>10. StreamInv
  <2>1. \A w \in Worker : Len(score_updates[w]) = 0 /\ Len(notices[w]) = 0
    BY <1>1
  <2> QED
    BY <1>1, <2>1 DEF Init, StreamInv
<1>11. TaskInv
  <2>2. \A u : \A w \in Worker : ~CrossesAs(u, w) /\ ~KeptBy(u, w)
    BY <1>2 DEF Init, CrossesAs, KeptBy
  <2>3. issued = 0 /\ center_queue = {}
    BY DEF Init
  <2> QED
    BY <2>2, <2>3 DEF TaskInv
<1>12. AvailableInv
  <2>1. \A w \in Worker : /\ ~Given(w) /\ ~SaysAvailable(w) /\ pc[w] = "probe"
                          /\ {w} \in SUBSET Worker
    BY <1>2 DEF Init, Given, SaysAvailable
  <2>2. \A w \in Worker : NoneBehind(to_center, w, "AVAILABLE_STATE", StateTags)
    BY <1>1 DEF NoneBehind
  <2>3. cpc = "start"
    BY DEF Init
  <2> QED
    BY <1>2, <1>4, <1>8, <2>1, <2>2, <2>3 DEF AvailableInv
<1>13. FullnessInv
  BY DEF Init, FullnessInv, Told
<1>14. ScoreInv
  BY <1>2 DEF Init, ScoreInv, Found
<1> QED
  BY <1>5, <1>6, <1>7, <1>9, <1>10, <1>11, <1>12, <1>13, <1>14 DEF IInv

\* A step that changes nothing keeps the invariant.
LEMMA Stutter == IInv /\ UNCHANGED vars => IInv'
<1> SUFFICES ASSUME IInv, UNCHANGED vars PROVE IInv'
  OBVIOUS
<1>1. SameSide
  BY DEF SameSide, vars
<1> QED
  BY <1>1, DetectorTypesFrame, WorkerTypesFrame, ScoreTypesFrame, CenterTypesFrame,
     StreamTypesFrame, WorldTypesFrame, TaskTypesFrame, WorkerFrame, DetectorFrame, PhaseFrame,
     StreamFrame, TaskFrame, AvailableFrame, FullnessFrame, ScoreFrame DEF IInv, TypeOK, vars

\* Every step of every rank keeps the invariant.
LEMMA NextInv == IInv /\ [Next]_vars => IInv'
<1> SUFFICES ASSUME IInv, [Next]_vars PROVE IInv'
  OBVIOUS
<1>1. ASSUME NEW w \in Worker, MainThread(w) PROVE IInv'
  <2>1. CASE FirstPop(w)
    BY <2>1, PopNext DEF FirstPop
  <2>2. CASE CheckQueue(w)
    BY <2>2, PopNext DEF CheckQueue
  <2> QED
    BY <1>1, <2>1, <2>2, ReceiveNoticeNext, ReceiveTaskNext, ReceiveAckNext,
       ReceiveTerminationNext, SendTaskNext, TaskSentNext, PollCenterNext, ProposalMatchedNext,
       CheckDoneNext, LeaveFunnelNext, SendSolutionNext DEF MainThread
<1>2. CASE CenterThread
  BY <1>2, StartNext, ProcessRunningNext, ProcessAvailableNext, ReceiveProposalNext,
     ReceiveTaskForCenterNext, CenterReceiveAckNext, DispatchNext, DispatchSentNext, MonitorNext,
     MonitorIdleNext, NotifyTerminationNext, BarrierNext, ReceiveSolutionNext DEF CenterThread
<1>3. CASE UNCHANGED vars
  BY <1>3, Stutter
<1> QED
  BY <1>1, <1>2, <1>3, PushNext, FindResultNext, PoolDoneNext DEF Next, Finished

\* The inductive invariant holds in every state of the scheduler.
THEOREM Invariance == Spec => []IInv
<1>1. Init => IInv
  BY InitInv
<1>2. IInv /\ [Next]_vars => IInv'
  BY NextInv
<1> QED
  BY <1>1, <1>2, PTL DEF Spec

\* Every variable of the centralized scheduler keeps its type: in particular no deficit and
\* no counter of received messages becomes negative.
THEOREM TypeCorrect == Spec => []TypeOK
<1>1. IInv => TypeOK
  BY DEF IInv
<1> QED
  BY <1>1, Invariance, PTL

\* No rank of the centralized scheduler throws: no acknowledgement is unexpected, no
\* termination meets work in progress, no queue gets a second bundle, and receive_solution
\* meets no unknown message.
THEOREM NeverThrows == Spec => []NoThrow
<1>1. IInv => NoThrow
  BY DEF IInv, NoThrow, WorkerInv, PhaseInv
<1> QED
  BY <1>1, Invariance, PTL

\* When the center announces termination every task that was created has been started and
\* no queue holds one: the exit condition of run() is right, for every number of ranks and tasks.
THEOREM NoTaskLost == Spec => []NothingLost
<1>1. ASSUME IInv PROVE NothingLost
  <2> SUFFICES ASSUME cpc \in Over
               PROVE  /\ executed = 1 .. issued /\ center_queue = {}
                      /\ \A w \in Worker : ~busy[w] /\ queue[w] = <<>> /\ bundle[w] = 0
    BY DEF NothingLost, Over
  <2>1. TypeOK /\ WorkerInv /\ DetectorInv /\ PhaseInv /\ TaskInv /\ center_queue = {}
    BY <1>1 DEF IInv, PhaseInv
  <2>2. ASSUME NEW w \in Worker PROVE parent[w] = None /\ ~Given(w)
    BY <1>1, StillOwed DEF Over
  <2>3. \A w \in Worker : \A m \in Messages(to_center, w) : m.tag # "TASK_FOR_CENTER"
    BY <1>1, <2>2, OwedTo
  <2>4. \A w \in Worker : /\ ~busy[w] /\ queue[w] = <<>> /\ bundle[w] = 0 /\ pc[w] \in Idle
    <3>1. \A w \in Worker : pc[w] \in Idle
      BY <2>1, <2>2 DEF DetectorInv
    <3> QED
      BY <2>1, <3>1 DEF WorkerInv, Idle
  <2>5. \A u : \A w \in Worker : ~CrossesAs(u, w)
    BY <2>2, <2>3, MessageTypes DEF CrossesAs, Given
  <2>6. \A u : \A w \in Worker : ~KeptBy(u, w)
    BY <2>4 DEF KeptBy, Idle
  <2>7. executed = 1 .. issued
    <3>1. 1 .. issued \subseteq executed
      BY <2>1, <2>5, <2>6 DEF TaskInv
    <3>2. executed \subseteq 1 .. issued
      BY <2>1 DEF TypeOK, TaskTypes
    <3> QED
      BY <3>1, <3>2
  <2> QED
    BY <2>1, <2>4, <2>7
<1> QED
  BY <1>1, Invariance, PTL

\* What m_process_state says of an AVAILABLE rank is true when a task is sent to it.
THEOREM AvailableRanksIdle == Spec => []AvailableIsIdle
<1>1. ASSUME IInv PROVE AvailableIsIdle
  <2> SUFFICES ASSUME cpc \in {"loop", "dispatch", "sending"}, NEW w \in Available
               PROVE  /\ pc[w] = "probe"
                      /\ \A i \in DOMAIN to_worker[w] : to_worker[w][i].tag # "TASK_FROM_CENTER"
                      /\ \A i \in DOMAIN to_center[w] : to_center[w][i].tag \notin StateTags
    BY DEF AvailableIsIdle, StateTags
  <2>1. /\ pc[w] = "probe" /\ ~Given(w)
        /\ \A m \in Messages(to_center, w) : m.tag \notin StateTags
    BY <1>1 DEF IInv, AvailableInv, Available
  <2> QED
    BY <2>1 DEF Given, Messages
<1> QED
  BY <1>1, Invariance, PTL

\* While the center waits for a message no task waits beside an available rank, and
\* m_nodes_available is their number.
THEOREM NobodyWaitsForATask == Spec => []NobodyWaits
<1>1. IInv => NobodyWaits
  BY DEF IInv, NobodyWaits, AvailableInv
<1> QED
  BY <1>1, Invariance, PTL

\* Once a worker has read its notices, m_is_center_full is what the center last announced.
THEOREM FullnessAgreed == Spec => []FullnessAgrees
<1>1. IInv => FullnessAgrees
  BY DEF IInv, FullnessAgrees, FullnessInv, Forgotten, Told
<1> QED
  BY <1>1, Invariance, PTL

\* drain_center_messages leaves no score update and no notice unread.
THEOREM AllMessagesRead == Spec => []CenterMessagesRead
<1>1. ASSUME IInv PROVE CenterMessagesRead
  <2> SUFFICES ASSUME cpc \in {"collect", "done"}, NEW w \in Worker
               PROVE  /\ score_updates[w] = <<>> /\ notices[w] = <<>> /\ proposal[w] = Nothing
                      /\ score_updates_received[w] = score_updates_sent
                      /\ notices_received[w] = notices_sent
    BY DEF CenterMessagesRead
  <2>1. pc[w] \in {"result", "done"} /\ StreamInv /\ TypeOK
    BY <1>1 DEF IInv, PhaseInv
  <2>2. score_updates[w] = <<>> /\ notices[w] = <<>>
    BY <2>1 DEF StreamInv
  <2>3. /\ score_updates_sent = score_updates_received[w] + 0
        /\ notices_sent = notices_received[w] + 0
    BY <2>1, <2>2 DEF StreamInv
  <2>4. score_updates_received[w] \in Nat /\ notices_received[w] \in Nat
    BY <2>1 DEF TypeOK, StreamTypes
  <2>5. proposal[w] = Nothing
    BY <1>1, <2>1 DEF IInv, WorkerInv
  <2> QED
    BY <2>2, <2>3, <2>4, <2>5
<1> QED
  BY <1>1, Invariance, PTL
=============================================================================
