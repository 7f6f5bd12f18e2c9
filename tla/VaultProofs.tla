------------------------------ MODULE VaultProofs -----------------------------
(***************************************************************************)
(* Theorems of VaultStore, and from "The dApp's side" on those of          *)
(* VaultSync, for every value of their constants.                          *)
(***************************************************************************)
EXTENDS VaultStore, VaultSync, FiniteSetTheorems, WellFoundedInduction, TLAPS

-----------------------------------------------------------------------------
(* Lemmas about the lane's head and about the log *)

\* The request that runs is a request, and what waits behind it stays typed.
LEMMA HeadOfLane ==
  ASSUME queue \in Seq(Request), queue # <<>>
  PROVE  /\ Req \in Request
         /\ Req.op = "put" => Req \in PutRequest
         /\ Req.op = "delete" => Req \in DeleteRequest
         /\ Tail(queue) \in Seq(Request)
<1>1. Req \in Request /\ Tail(queue) \in Seq(Request)
  BY DEF Req
<1>2. QED
  BY <1>1 DEF Request, PutRequest, DeleteRequest, PurgeRequest

\* Among the lines of one address there is a last one.
LEMMA LastLineExists ==
  ASSUME NEW l \in Seq(Line), NEW a,
         NEW lines, lines = {i \in 1..Len(l) : l[i].addr = a}, lines # {}
  PROVE  \E i \in lines : \A j \in lines : j <= i
<1> DEFINE back == {Len(l) - i : i \in lines}
<1>1. back \subseteq Nat /\ back # {}
  OBVIOUS
<1> HIDE DEF back
<1>2. PICK k \in back : \A m \in back : <<m, k>> \notin OpToRel(<, Nat)
  BY <1>1, NatLessThanWellFounded, WFMin, Zenon
<1>3. \A m \in back : ~ (m < k)
  BY <1>1, <1>2, Zenon DEF OpToRel
<1> USE DEF back
<1>4. PICK i \in lines : k = Len(l) - i
  OBVIOUS
<1>5. ASSUME NEW j \in lines PROVE j <= i
  <2>1. Len(l) - j \in back
    OBVIOUS
  <2>2. ~ (Len(l) - j < Len(l) - i)
    BY <1>3, <1>4, <2>1
  <2>3. i \in Nat /\ j \in Nat /\ Len(l) \in Nat
    OBVIOUS
  <2> HIDE DEF back
  <2>4. QED BY <2>2, <2>3
<1> QED BY <1>5

\* The idle worker holds a job of the right type.
LEMMA NoJobTyped == NoJob \in JobType
<1>1. NoRec \in File /\ {} \in SUBSET Copy
  BY DEF File
<1>2. QED
  BY <1>1 DEF NoJob, JobType

-----------------------------------------------------------------------------
(* Types *)

TypeInv == StoreTypeOK /\ LaneShape

\* A request that joins the lane leaves its head where it is.
LEMMA EnqueueTyped ==
  ASSUME TypeInv, NEW r \in Request, Enqueue(r)
  PROVE  TypeInv'
<1>1. queue' \in Seq(Request) /\ queue' # <<>> /\ (queue # <<>> => Req' = Req)
  BY DEF TypeInv, StoreTypeOK, Enqueue, Req
<1>2. UNCHANGED <<clock, sessions, diskVars, memVars, pc, job, histVars>>
  BY DEF Enqueue
<1>3. StoreTypeOK'
  BY <1>1, <1>2 DEF TypeInv, StoreTypeOK, diskVars, memVars, histVars
<1>4. LaneShape'
  <2>1. pc' = pc
    BY <1>2
  <2>2. QED
    BY <1>1, <2>1 DEF TypeInv, LaneShape, PutSteps, DeleteSteps, CopySteps
<1>5. QED
  BY <1>3, <1>4 DEF TypeInv

\* An answer leaves the lane typed, whatever the request behind it.
LEMMA FinishTyped ==
  ASSUME StoreTypeOK, queue # <<>>, NEW result, Finish(result)
  PROVE  /\ queue' \in Seq(Request) /\ pc' \in Steps /\ job' \in JobType
         /\ LaneShape'
<1>1. queue' \in Seq(Request) /\ pc' = "idle" /\ job' \in JobType
  BY NoJobTyped, HeadOfLane DEF Finish, StoreTypeOK
<1>2. QED
  BY <1>1 DEF LaneShape, PutSteps, DeleteSteps, CopySteps, Steps

\* A step that stays inside its request keeps the head of the lane.
LEMMA GotoTyped ==
  ASSUME StoreTypeOK, queue # <<>>, NEW step, Goto(step),
         \/ step \in PutSteps /\ Req \in PutRequest
         \/ step \in DeleteSteps /\ Req \in DeleteRequest
  PROVE  queue' \in Seq(Request) /\ pc' \in Steps /\ LaneShape'
BY DEF Goto, StoreTypeOK, LaneShape, PutSteps, DeleteSteps, CopySteps, Steps, Req

\* Whatever an interrupted append leaves, what parses of the log is lines.
LEMMA InterruptedTyped ==
  ASSUME TypeInv, pc = "append", InterruptedAppend
  PROVE  log' \in Seq(Line) /\ torn' \in BOOLEAN
<1>1. Req \in DeleteRequest
  BY DEF TypeInv, LaneShape, DeleteSteps
<1>2. [addr |-> Req.addr, at |-> job.at] \in Line
  BY <1>1 DEF TypeInv, StoreTypeOK, JobType, Line, DeleteRequest
<1>3. log' \in Seq(Line)
  <2>1. Append(log, [addr |-> Req.addr, at |-> job.at]) \in Seq(Line)
    BY <1>2 DEF TypeInv, StoreTypeOK
  <2>2. QED
    BY <2>1, Zenon DEF InterruptedAppend, LogWith, TypeInv, StoreTypeOK
<1>4. torn' \in BOOLEAN
  BY Zenon DEF InterruptedAppend, TypeInv, StoreTypeOK
<1>5. QED
  BY <1>3, <1>4

\* What a restart replays is a time per address.
LEMMA ReplayedTyped ==
  ASSUME TypeInv
  PROVE  Replayed \in [Addr -> Nat]
<1>1. SUFFICES ASSUME NEW a \in Addr PROVE Replayed[a] \in Nat
  BY DEF Replayed
<1> DEFINE lines == {i \in 1..Len(log) : log[i].addr = a}
<1>2. CASE lines = {}
  BY <1>2 DEF Replayed, TypeInv, StoreTypeOK
<1>3. CASE lines # {}
  <2>1. \E i \in lines : \A j \in lines : j <= i
    BY <1>3, LastLineExists DEF TypeInv, StoreTypeOK
  <2>2. (CHOOSE i \in lines : \A j \in lines : j <= i) \in lines
    BY <2>1
  <2>3. ASSUME NEW i \in lines PROVE log[i].at \in Nat
    <3>1. log \in Seq(Line) /\ i \in 1..Len(log)
      BY DEF TypeInv, StoreTypeOK
    <3>2. log[i] \in Line
      BY <3>1
    <3>3. QED BY <3>2 DEF Line
  <2>4. QED
    BY <1>3, <2>2, <2>3 DEF Replayed
<1>4. QED
  BY <1>2, <1>3

\* The store's files, maps, log and lane hold what their comments say: the part of
\* TypeOK that does not sum sizes.
THEOREM StoreTypes == Spec => []TypeInv
<1>1. Init => TypeInv
  <2>1. <<>> \in Seq(Request) /\ <<>> \in Seq(Line)
    OBVIOUS
  <2>2. {} \subseteq Copy /\ {} \subseteq [addr: Addr, iat: Nat]
    OBVIOUS
  <2>3. ASSUME Init PROVE StoreTypeOK
    <3>1. up \in BOOLEAN /\ torn \in BOOLEAN
      BY <2>3, Zenon DEF Init
    <3>2. /\ main \in [Addr -> File] /\ prev \in [Addr -> File]
      BY <2>3 DEF Init, File
    <3>3. queue \in Seq(Request) /\ log \in Seq(Line) /\ job \in JobType
      BY <2>1, <2>3, NoJobTyped, Zenon DEF Init
    <3>4. QED
      BY <2>2, <2>3, <3>1, <3>2, <3>3 DEF Init, StoreTypeOK, Steps
  <2>4. Init => LaneShape
    BY DEF Init, LaneShape, PutSteps, DeleteSteps, CopySteps
  <2>5. QED BY <2>3, <2>4 DEF TypeInv
<1>2. TypeInv /\ [Next]_vars => TypeInv'
  <2> SUFFICES ASSUME TypeInv, [Next]_vars PROVE TypeInv'
    OBVIOUS
  <2> USE DEF TypeInv, diskVars, memVars, histVars, boundVars
  <2>1. ASSUME NEW a \in Addr, Login(a) PROVE TypeInv'
    BY <2>1 DEF Login, laneVars, StoreTypeOK, LaneShape, Req
  <2>2. ASSUME NEW s \in sessions, Logout(s) PROVE TypeInv'
    BY <2>2 DEF Logout, laneVars, StoreTypeOK, LaneShape, Req
  <2>3. ASSUME NEW s \in sessions, NEW base \in 0..MaxRev, AskDelete(s, base)
        PROVE  TypeInv'
    <3>1. [op |-> "delete", addr |-> s.addr, writer |-> s.iat, baseRev |-> base,
           since |-> clock] \in Request
      BY DEF Request, DeleteRequest, StoreTypeOK
    <3> QED BY <2>3, <3>1, EnqueueTyped DEF AskDelete
  <2>4. ASSUME NEW s \in sessions, NEW base \in 0..MaxRev, NEW k \in KeyIds,
               NEW c \in Blobs, AskPut(s, base, k, c)
        PROVE  TypeInv'
    <3>1. [op |-> "put", addr |-> s.addr, writer |-> s.iat, baseRev |-> base,
           keyId |-> k, ct |-> c, since |-> clock] \in Request
      BY DEF Request, PutRequest, StoreTypeOK
    <3> QED BY <2>4, <3>1, EnqueueTyped DEF AskPut
  <2>5. CASE AskPurge
    <3>1. [op |-> "purge", since |-> clock] \in Request
      BY DEF Request, PurgeRequest, StoreTypeOK
    <3> QED BY <2>5, <3>1, EnqueueTyped DEF AskPurge
  <2>6. CASE LaneStep
    <3>1. CASE RefuseRevoked
      BY <3>1, FinishTyped DEF RefuseRevoked, Starts, StoreTypeOK
    <3>2. CASE RunPurge
      BY <3>2, FinishTyped DEF RunPurge, Starts, Purge, Erase, StoreTypeOK
    <3>3. CASE RefusePut
      BY <3>3, FinishTyped DEF RefusePut, PutAllowed, Starts, Purge, Erase, StoreTypeOK
    <3>4. CASE StartPut
      <4>1. queue # <<>> /\ Req \in PutRequest
        BY <3>4, HeadOfLane DEF StartPut, PutAllowed, Starts, StoreTypeOK
      <4>2. queue' \in Seq(Request) /\ pc' \in Steps /\ LaneShape'
        BY <3>4, <4>1, GotoTyped DEF StartPut, PutSteps
      <4>3. job' \in JobType
        BY <3>4, <4>1, NoJobTyped DEF StartPut, StoreTypeOK, JobType, PutRequest
      <4> QED
        BY <3>4, <4>2, <4>3 DEF StartPut, Purge, Erase, StoreTypeOK
    <3>5. CASE RotatePrev
      <4>1. queue # <<>> /\ Req \in PutRequest
        BY <3>5 DEF RotatePrev, LaneShape, PutSteps
      <4>2. queue' \in Seq(Request) /\ pc' \in Steps /\ LaneShape'
        BY <3>5, <4>1, GotoTyped DEF RotatePrev, PutSteps
      <4> QED
        BY <3>5, <4>1, <4>2 DEF RotatePrev, StoreTypeOK, JobType, PutRequest
    <3>6. CASE WriteMain
      <4>1. queue # <<>> /\ Req \in PutRequest
        BY <3>6 DEF WriteMain, LaneShape, PutSteps
      <4>2. queue' \in Seq(Request) /\ pc' \in Steps /\ job' \in JobType /\ LaneShape'
        BY <3>6, <4>1, FinishTyped DEF WriteMain
      <4>3. Rev(job.old) + 1 \in Nat
        BY DEF StoreTypeOK, JobType, File, Record, Rev
      <4>4. main' \in [Addr -> File]
        BY <3>6, <4>1, <4>3
        DEF WriteMain, StoreTypeOK, JobType, File, Record, PutRequest
      <4> QED
        BY <3>6, <4>2, <4>4 DEF WriteMain, StoreTypeOK
    <3>7. CASE RefuseDelete
      BY <3>7, FinishTyped DEF RefuseDelete, DeleteAllowed, Starts, StoreTypeOK
    <3>8. CASE StartDelete
      <4>1. queue # <<>> /\ Req \in DeleteRequest
        BY <3>8, HeadOfLane DEF StartDelete, DeleteAllowed, Starts, StoreTypeOK
      <4>2. queue' \in Seq(Request) /\ pc' \in Steps /\ LaneShape'
        BY <3>8, <4>1, GotoTyped DEF StartDelete, DeleteSteps
      <4>3. job' \in JobType
        BY <3>8, <4>1, NoJobTyped DEF StartDelete, StoreTypeOK, JobType, DeleteRequest
      <4> QED
        BY <3>8, <4>2, <4>3 DEF StartDelete, StoreTypeOK
    <3>9. CASE AppendRevocation
      <4>1. queue # <<>> /\ Req \in DeleteRequest
        BY <3>9 DEF AppendRevocation, LaneShape, DeleteSteps
      <4>2. queue' \in Seq(Request) /\ pc' \in Steps /\ LaneShape'
        BY <3>9, <4>1, GotoTyped DEF AppendRevocation, DeleteSteps
      <4>3. [addr |-> Req.addr, at |-> job.at] \in Line
        BY <4>1 DEF StoreTypeOK, JobType, Line, DeleteRequest
      <4>4. Append(log, [addr |-> Req.addr, at |-> job.at]) \in Seq(Line)
        BY <4>3 DEF StoreTypeOK
      <4>5. log' \in Seq(Line) /\ torn' \in BOOLEAN
        BY <3>9, <4>4, Zenon DEF AppendRevocation, LogWith, StoreTypeOK
      <4> QED
        BY <3>9, <4>2, <4>5 DEF AppendRevocation, StoreTypeOK
    <3>10. CASE WriteSnapshot
      <4>1. queue # <<>> /\ Req \in DeleteRequest
        BY <3>10 DEF WriteSnapshot, LaneShape, DeleteSteps
      <4>2. queue' \in Seq(Request) /\ pc' \in Steps /\ LaneShape'
        BY <3>10, <4>1, GotoTyped DEF WriteSnapshot, DeleteSteps
      <4> QED
        BY <3>10, <4>2 DEF WriteSnapshot, Pruned, StoreTypeOK
    <3>11. CASE UnlinkLog
      <4>1. queue # <<>> /\ Req \in DeleteRequest
        BY <3>11 DEF UnlinkLog, LaneShape, DeleteSteps
      <4>2. queue' \in Seq(Request) /\ pc' \in Steps /\ LaneShape'
        BY <3>11, <4>1, GotoTyped DEF UnlinkLog, DeleteSteps
      <4>3. <<>> \in Seq(Line)
        OBVIOUS
      <4>4. log' \in Seq(Line) /\ torn' \in BOOLEAN
        BY <3>11, <4>3, Zenon DEF UnlinkLog, StoreTypeOK
      <4> QED
        BY <3>11, <4>2, <4>4 DEF UnlinkLog, StoreTypeOK
    <3>12. CASE GatherDeleted
      <4>1. queue # <<>> /\ Req \in DeleteRequest
        BY <3>12 DEF GatherDeleted, LaneShape, DeleteSteps
      <4>2. CASE Finish("nothing") /\ acked' = [acked EXCEPT ![Req.addr] = job.at]
        BY <3>12, <4>1, <4>2, FinishTyped
        DEF GatherDeleted, Purge, Erase, StoreTypeOK, JobType, DeleteRequest
      <4>3. ASSUME NEW step \in CopySteps \cup {"unlinkMain"}, Goto(step),
                   job' = [job EXCEPT !.prev = prev[Req.addr]], acked' = acked
            PROVE  TypeInv'
        <5>1. queue' \in Seq(Request) /\ pc' \in Steps /\ LaneShape'
          BY <4>1, <4>3, GotoTyped DEF DeleteSteps
        <5>2. job' \in JobType
          BY <4>1, <4>3 DEF StoreTypeOK, JobType, DeleteRequest
        <5> QED
          BY <3>12, <4>3, <5>1, <5>2 DEF GatherDeleted, Purge, Erase, StoreTypeOK
      <4> QED
        BY <3>12, <4>2, <4>3 DEF GatherDeleted, CopySteps
    <3>13. CASE MakeRoom
      <4>1. queue # <<>> /\ Req \in DeleteRequest
        BY <3>13 DEF MakeRoom, LaneShape, DeleteSteps, CopySteps
      <4>2. queue' \in Seq(Request) /\ pc' \in Steps /\ LaneShape'
        BY <3>13, <4>1, GotoTyped DEF MakeRoom, DeleteSteps, CopySteps
      <4>3. job' \in JobType /\ deleted' \subseteq Copy
        BY <3>13 DEF MakeRoom, KeptFor, ButFirst, Purge, Erase, StoreTypeOK, JobType
      <4> QED
        BY <3>13, <4>2, <4>3 DEF MakeRoom, StoreTypeOK
    <3>14. CASE Evict
      <4>1. queue # <<>> /\ Req \in DeleteRequest
        BY <3>14 DEF Evict, LaneShape, DeleteSteps, CopySteps
      <4>2. queue' \in Seq(Request) /\ pc' \in Steps /\ LaneShape'
        BY <3>14, <4>1, GotoTyped DEF Evict, DeleteSteps, CopySteps
      <4> QED
        BY <3>14, <4>2 DEF Evict, Erase, StoreTypeOK
    <3>15. CASE KeepCopy
      <4>1. queue # <<>> /\ Req \in DeleteRequest
        BY <3>15 DEF KeepCopy, LaneShape, DeleteSteps, CopySteps
      <4>2. queue' \in Seq(Request) /\ pc' \in Steps /\ LaneShape'
        BY <3>15, <4>1, GotoTyped DEF KeepCopy, AfterTrim, DeleteSteps, CopySteps
      <4>3. \A t \in FreeTimes(Req.addr) : t \in Nat
        BY DEF FreeTimes, StoreTypeOK
      <4>4. deleted' \subseteq Copy
        BY <3>15, <4>1, <4>3 DEF KeepCopy, Copy, StoreTypeOK, JobType, DeleteRequest
      <4> QED
        BY <3>15, <4>2, <4>4 DEF KeepCopy, StoreTypeOK
    <3>16. CASE TrimCopy
      <4>1. queue # <<>> /\ Req \in DeleteRequest
        BY <3>16 DEF TrimCopy, LaneShape, DeleteSteps, CopySteps
      <4>2. CASE Finish("unavailable") /\ deleted' = deleted
        BY <3>16, <4>1, <4>2, FinishTyped DEF TrimCopy, StoreTypeOK
      <4>3. ASSUME NEW d \in Oldest(job.trim), NEW step \in CopySteps \cup {"unlinkMain"},
                   Goto(step), Erase(Named(d)), job' = [job EXCEPT !.trim = @ \ {d}]
            PROVE  TypeInv'
        <5>1. queue' \in Seq(Request) /\ pc' \in Steps /\ LaneShape'
          BY <4>1, <4>3, GotoTyped DEF DeleteSteps
        <5>2. job' \in JobType
          BY <4>3 DEF StoreTypeOK, JobType
        <5> QED
          BY <3>16, <4>3, <5>1, <5>2 DEF TrimCopy, Erase, StoreTypeOK
      <4> QED
        BY <3>16, <4>2, <4>3 DEF TrimCopy, AfterTrim, CopySteps
    <3>17. CASE UnlinkPrev
      <4>1. queue # <<>> /\ Req \in DeleteRequest
        BY <3>17 DEF UnlinkPrev, LaneShape, DeleteSteps, CopySteps
      <4>2. queue' \in Seq(Request) /\ pc' \in Steps /\ LaneShape'
        BY <3>17, <4>1, GotoTyped DEF UnlinkPrev, DeleteSteps
      <4> QED
        BY <3>17, <4>2 DEF UnlinkPrev, StoreTypeOK, File
    <3>18. CASE UnlinkMain
      <4>1. queue # <<>> /\ Req \in DeleteRequest
        BY <3>18 DEF UnlinkMain, LaneShape, DeleteSteps
      <4>2. queue' \in Seq(Request) /\ pc' \in Steps /\ job' \in JobType /\ LaneShape'
        BY <3>18, <4>1, FinishTyped DEF UnlinkMain
      <4> QED
        BY <3>18, <4>1, <4>2 DEF UnlinkMain, StoreTypeOK, File, JobType, DeleteRequest
    <3> QED
      BY <2>6, <3>1, <3>2, <3>3, <3>4, <3>5, <3>6, <3>7, <3>8, <3>9, <3>10, <3>11, <3>12,
         <3>13, <3>14, <3>15, <3>16, <3>17, <3>18 DEF LaneStep
  <2>7. CASE DiskError
    <3>1. queue # <<>>
      BY <2>7 DEF DiskError, PutAllowed, DeleteAllowed, Starts, LaneShape
    <3>2. queue' \in Seq(Request) /\ pc' \in Steps /\ job' \in JobType /\ LaneShape'
      BY <2>7, <3>1, FinishTyped DEF DiskError
    <3>3. log' \in Seq(Line) /\ torn' \in BOOLEAN
      <4>1. CASE pc = "append" /\ InterruptedAppend
        BY <4>1, InterruptedTyped
      <4> QED BY <2>7, <4>1 DEF DiskError, StoreTypeOK
    <3> QED
      BY <2>7, <3>2, <3>3 DEF DiskError, StoreTypeOK
  <2>8. CASE Crash
    <3>1. log' \in Seq(Line) /\ torn' \in BOOLEAN
      <4>1. CASE pc = "append" /\ InterruptedAppend
        BY <4>1, InterruptedTyped
      <4> QED BY <2>8, <4>1 DEF Crash, StoreTypeOK
    <3>2. queue' \in Seq(Request) /\ pc' \in Steps /\ job' \in JobType /\ LaneShape'
      BY <2>8, NoJobTyped DEF Crash, Steps, LaneShape, PutSteps, DeleteSteps, CopySteps
    <3> QED
      BY <2>8, <3>1, <3>2 DEF Crash, StoreTypeOK
  <2>9. CASE Restart
    <3>1. Replayed \in [Addr -> Nat]
      BY ReplayedTyped
    <3>2. revoked' \in [Addr -> Nat]
      BY <2>9, <3>1 DEF Restart
    <3> QED
      BY <2>9, <3>2 DEF Restart, laneVars, StoreTypeOK, LaneShape, Req
  <2>10. CASE Tick
    BY <2>10 DEF Tick, laneVars, StoreTypeOK, LaneShape, Req
  <2>11. CASE UNCHANGED vars
    BY <2>11 DEF vars, laneVars, StoreTypeOK, LaneShape, Req
  <2> QED
    BY <2>1, <2>2, <2>3, <2>4, <2>5, <2>6, <2>7, <2>8, <2>9, <2>10, <2>11
    DEF Next, Ask
<1> QED
  BY <1>1, <1>2, PTL DEF Spec
-----------------------------------------------------------------------------
(* The lane: what a request read is what it replaces *)

\* Between requests only .prev's age is claimed.
LEMMA IdleLane ==
  ASSUME LaneInv, pc' = "idle", UNCHANGED <<main, prev>>
  PROVE  LaneInv'
BY DEF LaneInv, LaneShape, PrevIsOlder, PutSteps, DeleteSteps, CopySteps

\* A step beside the lane changes nothing the lane relies on.
LEMMA SameHead ==
  ASSUME LaneInv, LaneShape', UNCHANGED <<main, prev, job, pc>>,
         queue # <<>> => Req' = Req
  PROVE  LaneInv'
<1>1. pc # "idle" => Req' = Req
  BY DEF LaneInv, LaneShape
<1>2. pc \in PutSteps \cup DeleteSteps => pc # "idle"
  BY DEF PutSteps, DeleteSteps, CopySteps
<1>3. QED
  BY <1>1, <1>2
  DEF LaneInv, PrevIsOlder, Rotates, PutSteps, DeleteSteps, CopySteps

\* A step inside a DELETE that leaves the list and its .prev alone.
LEMMA DeleteGoesOn ==
  ASSUME LaneInv, LaneShape', NEW step, Goto(step), pc # "idle",
         UNCHANGED <<main, prev>>, job'.old = job.old,
         step \in DeleteSteps,
         step \in CopySteps => job'.prev = prev[Req.addr],
         step = "unlinkMain" => prev[Req.addr] = NoRec
  PROVE  LaneInv'
<1>1. Req' = Req /\ pc' = step
  BY DEF Goto, Req
<1>2. step \notin PutSteps
  BY DEF PutSteps, DeleteSteps, CopySteps
<1>3. QED
  BY <1>1, <1>2 DEF LaneInv, PrevIsOlder, PutSteps, DeleteSteps, CopySteps

\* Between the disk steps of the request at its head, the lane keeps what that
\* request read and checked.
THEOREM LaneInvariant == Spec => []LaneInv
<1>1. Init => LaneInv
  BY DEF Init, LaneInv, LaneShape, PrevIsOlder, PutSteps, DeleteSteps, CopySteps
<1>2. LaneInv /\ TypeInv /\ TypeInv' /\ [Next]_vars => LaneInv'
  <2> SUFFICES ASSUME LaneInv, TypeInv, TypeInv', [Next]_vars PROVE LaneInv'
    OBVIOUS
  <2> USE DEF diskVars, memVars, histVars, boundVars
  <2>0. LaneShape' /\ queue \in Seq(Request)
    BY DEF TypeInv, StoreTypeOK
  <2>1. ASSUME NEW a \in Addr, Login(a) PROVE LaneInv'
    BY <2>0, <2>1, SameHead DEF Login, laneVars, Req
  <2>2. ASSUME NEW s \in sessions, Logout(s) PROVE LaneInv'
    BY <2>0, <2>2, SameHead DEF Logout, laneVars, Req
  <2>3. ASSUME NEW r, Enqueue(r) PROVE LaneInv'
    <3>1. queue # <<>> => Req' = Req
      BY <2>0, <2>3 DEF Enqueue, Req
    <3>2. UNCHANGED <<main, prev, job, pc>>
      BY <2>3 DEF Enqueue
    <3> QED BY <2>0, <3>1, <3>2, SameHead
  <2>4. CASE Ask
    BY <2>3, <2>4, Zenon DEF Ask, AskPut, AskDelete, AskPurge
  <2>5. CASE RefuseRevoked \/ RunPurge \/ RefusePut \/ RefuseDelete \/ DiskError \/ Crash
    BY <2>5, IdleLane
    DEF RefuseRevoked, RunPurge, RefusePut, RefuseDelete, DiskError, Crash, Finish
  <2>6. CASE StartPut
    <3>1. /\ pc = "idle" /\ queue # <<>> /\ Req \in PutRequest
          /\ UNCHANGED <<main, prev, queue>>
      BY <2>0, <2>6, HeadOfLane DEF StartPut, PutAllowed, Starts, Goto
    <3>2. job'.old = main[Req.addr] /\ Req' = Req
      BY <2>6, <3>1 DEF StartPut, NoJob, Req
    <3>3. /\ Req.baseRev = Rev(main[Req.addr])
          /\ main[Req.addr] # NoRec => main[Req.addr].keyId = Req.keyId
      BY <2>6 DEF StartPut, PutVerdict
    <3>4. CASE Rotates(Req)
      <4>1. pc' = "rotate"
        BY <2>6, <3>4 DEF StartPut, Goto
      <4> QED
        BY <2>0, <3>1, <3>2, <3>3, <3>4, <4>1
        DEF LaneInv, PrevIsOlder, Rotates, PutSteps, DeleteSteps, CopySteps
    <3>5. CASE ~ Rotates(Req)
      <4>1. pc' = "write"
        BY <2>6, <3>5 DEF StartPut, Goto
      <4>2. main[Req.addr] = NoRec \/ main[Req.addr].writer = Req.writer
        BY <3>5 DEF Rotates
      <4> QED
        BY <2>0, <3>1, <3>2, <3>3, <4>1, <4>2
        DEF LaneInv, PrevIsOlder, PutSteps, DeleteSteps, CopySteps
    <3> QED BY <3>4, <3>5
  <2>7. CASE RotatePrev
    <3>1. /\ pc = "rotate" /\ pc' = "write" /\ Req' = Req
          /\ Req \in PutRequest /\ UNCHANGED <<main, job>>
          /\ prev' = [prev EXCEPT ![Req.addr] = main[Req.addr]]
      BY <2>7 DEF RotatePrev, Goto, Req, LaneInv, LaneShape, PutSteps
    <3>2. main[Req.addr] # NoRec /\ prev' [Req.addr] = main[Req.addr]
      BY <3>1 DEF LaneInv, Rotates, TypeInv, StoreTypeOK, PutRequest
    <3>3. PrevIsOlder'
      BY <3>1, <3>2 DEF LaneInv, PrevIsOlder, TypeInv, StoreTypeOK
    <3> QED
      BY <2>0, <3>1, <3>2, <3>3 DEF LaneInv, PutSteps, DeleteSteps, CopySteps
  <2>8. CASE WriteMain
    <3>1. /\ pc = "write" /\ pc' = "idle" /\ Req \in PutRequest /\ UNCHANGED prev
          /\ job.old = main[Req.addr]
      BY <2>8 DEF WriteMain, Finish, LaneInv, LaneShape, PutSteps
    <3> DEFINE new == [rev |-> Rev(job.old) + 1, writer |-> Req.writer,
                       keyId |-> Req.keyId, ct |-> Req.ct]
    <3>2. main' = [main EXCEPT ![Req.addr] = new]
      BY <2>8 DEF WriteMain
    <3>3. Rev(main[Req.addr]) \in Nat
      BY <3>1 DEF TypeInv, StoreTypeOK, File, Record, Rev, PutRequest
    <3>4. new \in Record /\ new.rev = Rev(main[Req.addr]) + 1
      BY <3>1, <3>3 DEF Record, PutRequest
    <3>5. new # NoRec
      BY <3>4, NoRecAssumption DEF Record
    <3>6. ASSUME NEW a \in Addr, prev[a] # NoRec
          PROVE  main'[a] # NoRec /\ (prev[a] = main'[a] \/ prev[a].rev < main'[a].rev)
      <4>1. main[a] # NoRec /\ (prev[a] = main[a] \/ prev[a].rev < main[a].rev)
        BY <3>6 DEF LaneInv, PrevIsOlder
      <4>2. CASE a # Req.addr
        BY <3>2, <4>1, <4>2 DEF TypeInv, StoreTypeOK
      <4>3. CASE a = Req.addr
        <5>1. main'[a] = new
          BY <3>2, <4>3 DEF TypeInv, StoreTypeOK
        <5>2. new.rev = main[a].rev + 1
          BY <3>4, <4>1, <4>3 DEF Rev
        <5>3. prev[a].rev \in Nat /\ main[a].rev \in Nat
          BY <3>6, <4>1 DEF TypeInv, StoreTypeOK, File, Record
        <5>4. prev[a].rev <= main[a].rev
          BY <4>1, <5>3
        <5>5. prev[a].rev < main'[a].rev
          BY <5>1, <5>2, <5>3, <5>4
        <5> QED BY <3>5, <5>1, <5>5
      <4> QED BY <4>2, <4>3
    <3>7. PrevIsOlder'
      BY <3>1, <3>6 DEF PrevIsOlder
    <3> QED
      BY <2>0, <3>1, <3>7 DEF LaneInv, PutSteps, DeleteSteps, CopySteps
  <2>9. CASE StartDelete
    <3>1. /\ pc = "idle" /\ queue # <<>> /\ Req \in DeleteRequest
          /\ UNCHANGED <<main, prev, queue>> /\ Req' = Req
          /\ pc' \in {"snapshot", "append"}
      BY <2>0, <2>9, HeadOfLane DEF StartDelete, DeleteAllowed, Starts, Goto, Req
    <3>2. job'.old = main[Req.addr] /\ Req.baseRev = Rev(main[Req.addr])
      BY <2>9, <3>1 DEF StartDelete, NoJob
    <3> QED
      BY <2>0, <3>1, <3>2 DEF LaneInv, PrevIsOlder, PutSteps, DeleteSteps, CopySteps
  <2>10. CASE AppendRevocation \/ WriteSnapshot \/ UnlinkLog
    <3>1. \E step \in {"gather", "unlinkLog"} : Goto(step)
      BY <2>10 DEF AppendRevocation, WriteSnapshot, UnlinkLog
    <3>2. pc # "idle" /\ UNCHANGED <<main, prev, job>>
      BY <2>10 DEF AppendRevocation, WriteSnapshot, UnlinkLog
    <3> QED
      BY <2>0, <3>1, <3>2, DeleteGoesOn DEF DeleteSteps, CopySteps
  <2>11. CASE GatherDeleted
    <3>1. CASE Finish("nothing")
      BY <2>11, <3>1, IdleLane DEF GatherDeleted, Finish
    <3>2. CASE /\ job' = [job EXCEPT !.prev = prev[Req.addr]]
               /\ Goto(IF KeepDeleted > 0 THEN "room"
                       ELSE IF prev[Req.addr] # NoRec THEN "unlinkPrev" ELSE "unlinkMain")
      <4>1. /\ job'.prev = prev[Req.addr] /\ job'.old = job.old
            /\ pc # "idle" /\ UNCHANGED <<main, prev>>
        BY <2>11, <3>2 DEF GatherDeleted, TypeInv, StoreTypeOK, JobType
      <4>2. PICK step : /\ Goto(step) /\ step \in {"room", "unlinkPrev", "unlinkMain"}
                        /\ step = "unlinkMain" => prev[Req.addr] = NoRec
        BY <3>2
      <4> QED
        BY <2>0, <4>1, <4>2, DeleteGoesOn DEF DeleteSteps, CopySteps
    <3> QED BY <2>11, <3>1, <3>2 DEF GatherDeleted
  <2>12. CASE MakeRoom \/ Evict
    <3>1. PICK step : Goto(step) /\ step \in {"evict", "keep"}
      BY <2>12 DEF MakeRoom, Evict
    <3>2. /\ job'.prev = job.prev /\ job'.old = job.old
          /\ pc \in CopySteps /\ pc # "idle" /\ UNCHANGED <<main, prev>>
      BY <2>12 DEF MakeRoom, Evict, CopySteps, TypeInv, StoreTypeOK, JobType
    <3>3. job.prev = prev[Req.addr]
      BY <3>2 DEF LaneInv
    <3> QED
      BY <2>0, <3>1, <3>2, <3>3, DeleteGoesOn DEF DeleteSteps, CopySteps
  <2>13. CASE KeepCopy
    <3>1. job.prev = prev[Req.addr]
      BY <2>13 DEF KeepCopy, LaneInv, CopySteps
    <3>2. PICK step : /\ Goto(step) /\ step \in {"trim", "unlinkPrev", "unlinkMain"}
                      /\ step = "unlinkMain" => job.prev = NoRec
      BY <2>13 DEF KeepCopy, AfterTrim
    <3>3. pc # "idle" /\ UNCHANGED <<main, prev, job>>
      BY <2>13 DEF KeepCopy
    <3> QED
      BY <2>0, <3>1, <3>2, <3>3, DeleteGoesOn DEF DeleteSteps, CopySteps
  <2>14. CASE TrimCopy
    <3>1. CASE Finish("unavailable")
      BY <2>14, <3>1, IdleLane DEF TrimCopy, Finish
    <3>2. ASSUME NEW d, job' = [job EXCEPT !.trim = @ \ {d}],
                 Goto(IF job.trim = {d} THEN AfterTrim ELSE "trim")
          PROVE  LaneInv'
      <4>1. job.prev = prev[Req.addr]
        BY <2>14 DEF TrimCopy, LaneInv, CopySteps
      <4>2. PICK step : /\ Goto(step) /\ step \in {"trim", "unlinkPrev", "unlinkMain"}
                        /\ step = "unlinkMain" => job.prev = NoRec
        BY <3>2 DEF AfterTrim
      <4>3. /\ pc # "idle" /\ UNCHANGED <<main, prev>>
            /\ job'.prev = job.prev /\ job'.old = job.old
        BY <2>14, <3>2 DEF TrimCopy, TypeInv, StoreTypeOK, JobType
      <4> QED
        BY <2>0, <4>1, <4>2, <4>3, DeleteGoesOn DEF DeleteSteps, CopySteps
    <3> QED BY <2>14, <3>1, <3>2 DEF TrimCopy
  <2>15. CASE UnlinkPrev
    <3>1. /\ pc = "unlinkPrev" /\ pc' = "unlinkMain" /\ Req' = Req
          /\ Req \in DeleteRequest /\ UNCHANGED <<main, job>>
          /\ prev' = [prev EXCEPT ![Req.addr] = NoRec]
      BY <2>15 DEF UnlinkPrev, Goto, Req, LaneInv, LaneShape, DeleteSteps, CopySteps
    <3>2. prev'[Req.addr] = NoRec
      BY <3>1 DEF TypeInv, StoreTypeOK, DeleteRequest
    <3>3. PrevIsOlder'
      BY <3>1 DEF LaneInv, PrevIsOlder, TypeInv, StoreTypeOK
    <3> QED
      BY <2>0, <3>1, <3>2, <3>3 DEF LaneInv, PutSteps, DeleteSteps, CopySteps
  <2>16. CASE UnlinkMain
    <3>1. /\ pc = "unlinkMain" /\ pc' = "idle" /\ UNCHANGED prev
          /\ main' = [main EXCEPT ![Req.addr] = NoRec]
      BY <2>16 DEF UnlinkMain, Finish
    <3>2. prev[Req.addr] = NoRec
      BY <3>1 DEF LaneInv
    <3>3. PrevIsOlder'
      BY <3>1, <3>2 DEF LaneInv, PrevIsOlder, TypeInv, StoreTypeOK
    <3> QED
      BY <2>0, <3>1, <3>3 DEF LaneInv, PutSteps, DeleteSteps, CopySteps
  <2>17. CASE Restart
    BY <2>0, <2>17, SameHead DEF Restart, laneVars, Req
  <2>18. CASE Tick
    BY <2>0, <2>18, SameHead DEF Tick, laneVars, Req
  <2>19. CASE UNCHANGED vars
    BY <2>0, <2>19, SameHead DEF vars, laneVars, Req
  <2> QED
    BY <2>1, <2>2, <2>4, <2>5, <2>6, <2>7, <2>8, <2>9, <2>10, <2>11, <2>12, <2>13,
       <2>14, <2>15, <2>16, <2>17, <2>18, <2>19
    DEF Next, LaneStep
<1> QED
  BY <1>1, <1>2, StoreTypes, PTL DEF Spec
-----------------------------------------------------------------------------
(* What the lane promises a list *)

\* Only the rename that ends a put and the unlink that ends a DELETE touch a list,
\* and only a put's rotation and a DELETE's unlink touch a .prev.
LEMMA OnlyWritesTouchFiles ==
  ASSUME Next
  PROVE  /\ UNCHANGED main \/ WriteMain \/ UnlinkMain
         /\ UNCHANGED prev \/ RotatePrev \/ UnlinkPrev
BY DEF Next, Login, Logout, Ask, AskPut, AskDelete, AskPurge, Enqueue, LaneStep,
       RefuseRevoked, RunPurge, RefusePut, StartPut, RotatePrev, WriteMain,
       RefuseDelete, StartDelete, AppendRevocation, WriteSnapshot, UnlinkLog,
       GatherDeleted, MakeRoom, Evict, KeepCopy, TrimCopy, UnlinkPrev, UnlinkMain,
       DiskError, Crash, Restart, Tick, diskVars

\* A write or a DELETE that lands names the rev of the very list it replaces, and
\* a write keeps the list's key, whatever fails, crashes or waits in between.
THEOREM ChangesNameTheirRev == Spec => ChangeNamesTheRevItReplaces
<1>1. ASSUME LaneInv, TypeInv, Next, NEW a \in Addr, main'[a] # main[a]
      PROVE  /\ Req.addr = a
             /\ Req.baseRev = Rev(main[a])
             /\ main'[a] # NoRec /\ main[a] # NoRec => main'[a].keyId = main[a].keyId
  <2>1. CASE WriteMain
    <3>1. pc = "write" /\ pc \in PutSteps /\ pc # "idle"
      BY <2>1 DEF WriteMain, PutSteps
    <3>2. Req.addr = a
      BY <1>1, <2>1 DEF WriteMain, TypeInv, StoreTypeOK
    <3>3. main'[a].keyId = Req.keyId
      BY <1>1, <2>1, <3>2 DEF WriteMain, TypeInv, StoreTypeOK
    <3> QED BY <1>1, <3>1, <3>2, <3>3 DEF LaneInv
  <2>2. CASE UnlinkMain
    <3>1. Req.addr = a /\ main'[a] = NoRec
      BY <1>1, <2>2 DEF UnlinkMain, TypeInv, StoreTypeOK
    <3> QED BY <1>1, <2>2, <3>1 DEF LaneInv, UnlinkMain
  <2> QED BY <1>1, <2>1, <2>2, OnlyWritesTouchFiles
<1>2. LaneInv /\ TypeInv /\ [Next]_vars =>
        [\A a \in Addr : main'[a] # main[a] =>
           /\ Req.addr = a
           /\ Req.baseRev = Rev(main[a])
           /\ main'[a] # NoRec /\ main[a] # NoRec =>
                main'[a].keyId = main[a].keyId]_vars
  BY <1>1
<1> QED
  BY <1>2, StoreTypes, LaneInvariant, PTL DEF Spec, ChangeNamesTheRevItReplaces

\* The writes of one session never take away the newest version on disk that
\* another session wrote, whichever of them fails or is cut short.
THEOREM OtherVersionsSurvive == Spec => OneSessionKeepsTheOthersVersion
<1>1. ASSUME LaneInv, TypeInv, Next, pc \in PutSteps,
             NEW f \in NewestOther(Req.addr, Req.writer)
      PROVE  f \in {main'[Req.addr], prev'[Req.addr]}
  <2> DEFINE a == Req.addr
  <2>1. /\ a \in Addr /\ f \in {main[a], prev[a]} /\ f # NoRec /\ f.writer # Req.writer
        /\ main[a] # NoRec /\ main[a].writer # Req.writer => main[a].rev <= f.rev
    BY <1>1 DEF NewestOther, LaneInv, LaneShape, PutRequest
  <2>2. CASE UNCHANGED <<main, prev>>
    BY <2>1, <2>2
  <2>3. CASE RotatePrev
    <3>1. pc = "rotate" /\ main'[a] = main[a] /\ prev'[a] = main[a] /\ main[a] # NoRec
      BY <1>1, <2>1, <2>3 DEF RotatePrev, LaneInv, Rotates, TypeInv, StoreTypeOK
    <3>2. CASE f = prev[a]
      <4>1. main[a].writer # Req.writer
        BY <1>1, <2>1, <3>1, <3>2 DEF LaneInv, Rotates
      <4>2. main[a].rev <= prev[a].rev
        BY <2>1, <3>1, <3>2, <4>1
      <4>3. main[a].rev \in Nat /\ prev[a].rev \in Nat
        BY <1>1, <2>1, <3>1, <3>2 DEF TypeInv, StoreTypeOK, File, Record
      <4>4. prev[a] = main[a] \/ prev[a].rev < main[a].rev
        BY <1>1, <2>1, <3>2 DEF LaneInv, PrevIsOlder
      <4>5. prev[a] = main[a]
        BY <4>2, <4>3, <4>4
      <4> QED BY <3>1, <3>2, <4>5
    <3> QED BY <2>1, <3>1, <3>2
  <2>4. CASE WriteMain
    <3>1. pc = "write" /\ prev'[a] = prev[a]
      BY <2>4 DEF WriteMain
    <3>2. f = prev[a]
      BY <1>1, <2>1, <3>1 DEF LaneInv
    <3> QED BY <3>1, <3>2
  <2> QED
    BY <1>1, <2>2, <2>3, <2>4, OnlyWritesTouchFiles
    DEF PutSteps, UnlinkMain, UnlinkPrev, RotatePrev, WriteMain
<1>2. LaneInv /\ TypeInv /\ [Next]_vars =>
        [(pc \in {"rotate", "write"} =>
            NewestOther(Req.addr, Req.writer)
              \subseteq {main'[Req.addr], prev'[Req.addr]})]_vars
  BY <1>1 DEF PutSteps
<1> QED
  BY <1>2, StoreTypes, LaneInvariant, PTL DEF Spec, OneSessionKeepsTheOthersVersion

\* The rev a client reads is the rev of the list.
LEMMA ShownRev ==
  ASSUME TypeInv, NEW a \in Addr
  PROVE  /\ Register!RevOf(Shown[a]) = Rev(main[a])
         /\ Shown[a] = NoRec <=> main[a] = NoRec
  BY NoRecAssumption DEF TypeInv, StoreTypeOK, File, Record, Shown, Rev, Register!RevOf

\* The store, with every disk step, error and crash of it, implements the register
\* VaultRegister.
THEOREM StoreIsARegister == Spec => ImplementsRegister
<1>1. Init => Register!RegisterInit
  BY DEF Init, Shown, Register!RegisterInit
<1>2. ASSUME LaneInv, TypeInv, TypeInv', Next
      PROVE  Register!RegisterNext \/ UNCHANGED Shown
  <2>1. CASE WriteMain
    <3> DEFINE a == Req.addr
               new == [rev |-> Rev(job.old) + 1, writer |-> Req.writer,
                       keyId |-> Req.keyId, ct |-> Req.ct]
               b == Register!RevOf(Shown[a])
    <3>1. /\ pc = "write" /\ a \in Addr
          /\ Req.keyId \in KeyIds /\ Req.ct \in Blobs /\ Req.writer \in Nat
          /\ job.old = main[a]
          /\ main[a] # NoRec => main[a].keyId = Req.keyId
          /\ main' = [main EXCEPT ![a] = new]
      BY <1>2, <2>1 DEF WriteMain, LaneInv, LaneShape, PutSteps, PutRequest
    <3>2. new # NoRec
      <4>1. Rev(main[a]) \in Nat
        BY <1>2, <3>1, NoRecAssumption DEF TypeInv, StoreTypeOK, File, Record, Rev
      <4>2. new \in [rev: Nat, writer: Nat, keyId: KeyIds, ct: Blobs]
        BY <3>1, <4>1
      <4> QED BY <4>2, NoRecAssumption
    <3>3. b = Rev(main[a])
      BY <1>2, <3>1, ShownRev
    <3>4. Register!CanSave(a, b, Req.keyId)
      BY <1>2, <3>1, ShownRev DEF Register!CanSave, Shown
    <3>5. Shown' = Register!Saved(a, b, Req.keyId, Req.ct)
      <4> HIDE DEF b
      <4>1. main \in [Addr -> File]
        BY <1>2 DEF TypeInv, StoreTypeOK
      <4>2. \A c \in Addr : main'[c] = IF c = a THEN new ELSE main[c]
        BY <3>1, <4>1
      <4>3. Shown' = [c \in Addr |->
                 IF c = a THEN [rev |-> b + 1, keyId |-> Req.keyId, ct |-> Req.ct]
                 ELSE Shown[c]]
        BY <3>1, <3>2, <3>3, <4>2 DEF Shown
      <4> QED BY <3>1, <4>3 DEF Register!Saved, Shown
    <3> QED BY <3>1, <3>4, <3>5 DEF Register!RegisterNext
  <2>2. CASE UnlinkMain
    <3> DEFINE a == Req.addr
               b == Register!RevOf(Shown[a])
    <3>1. a \in Addr /\ main' = [main EXCEPT ![a] = NoRec]
      BY <1>2, <2>2
      DEF UnlinkMain, LaneInv, LaneShape, DeleteSteps, DeleteRequest
    <3>2. Shown' = Register!Deleted(a)
      <4>1. main \in [Addr -> File]
        BY <1>2 DEF TypeInv, StoreTypeOK
      <4>2. \A c \in Addr : main'[c] = IF c = a THEN NoRec ELSE main[c]
        BY <3>1, <4>1
      <4> QED BY <3>1, <4>2 DEF Shown, Register!Deleted
    <3>3. Register!CanDelete(a, b)
      BY DEF Register!CanDelete
    <3> QED BY <3>1, <3>2, <3>3 DEF Register!RegisterNext
  <2>3. CASE UNCHANGED main
    BY <2>3 DEF Shown
  <2> QED BY <1>2, <2>1, <2>2, <2>3, OnlyWritesTouchFiles DEF RotatePrev, UnlinkPrev
<1>3. LaneInv /\ TypeInv /\ TypeInv' /\ [Next]_vars => [Register!RegisterNext]_Shown
  BY <1>2 DEF vars, diskVars, Shown
<1> QED
  BY <1>1, <1>3, StoreTypes, LaneInvariant, PTL
  DEF Spec, ImplementsRegister, Register!RegisterSpec

-----------------------------------------------------------------------------
(* A deleted list is kept *)

\* A copy of what the request j takes away from a is among D, or its name was listed.
CopyIsDown(a, j, D) ==
  \/ \E e \in j.kept : e.addr = a /\ j.at <= e.at
  \/ \E d \in D : d.addr = a /\ d.cur = j.old /\ d.prev = j.prev /\ j.at <= d.at

\* The copies a DELETE is to erase were listed before it made its own, which is dated
\* from its own time on: none of them is the new one under another name.
KeepInv ==
  /\ pc # "idle" => up
  /\ pc \in DeleteSteps => job.at <= clock
  /\ pc \in {"evict", "keep", "trim"} =>
       job.trim \subseteq job.kept /\ \A e \in job.kept : e.addr = Req.addr
  /\ KeepDeleted > 0 /\ pc \in {"trim", "unlinkPrev", "unlinkMain"} =>
       CopyIsDown(Req.addr, job, deleted)

\* What lies beside the lane leaves the request at its head alone.
LEMMA BesideTheLane ==
  ASSUME TypeInv, KeepInv, UNCHANGED <<pc, job, deleted>>,
         queue # <<>> => Req' = Req, pc # "idle" => up', clock <= clock', clock' \in Nat
  PROVE  KeepInv'
<1>1. pc # "idle" => Req' = Req
  BY DEF TypeInv, LaneShape
<1>2. clock \in Nat /\ job.at \in Nat
  BY DEF TypeInv, StoreTypeOK, JobType
<1>3. job.at <= clock => job.at <= clock'
  BY <1>2
<1> QED
  BY <1>1, <1>3 DEF KeepInv, DeleteSteps, CopySteps

LEMMA NextKeepInv == TypeInv /\ KeepInv /\ [Next]_vars => KeepInv'
<1> SUFFICES ASSUME TypeInv, KeepInv, [Next]_vars PROVE KeepInv'
  OBVIOUS
<1>0. clock \in Nat /\ queue \in Seq(Request) /\ job \in JobType /\ deleted \subseteq Copy
  BY DEF TypeInv, StoreTypeOK
<1>1. CASE UNCHANGED vars \/ (\E a \in Addr : Login(a)) \/ \E s \in sessions : Logout(s)
  <2>1. UNCHANGED <<pc, job, deleted, queue, up, clock>>
    BY <1>1 DEF vars, Login, Logout, laneVars, diskVars, memVars
  <2> QED
    BY <1>0, <2>1, BesideTheLane DEF Req, KeepInv
<1>2. ASSUME NEW r, Enqueue(r)
      PROVE  KeepInv'
  <2>1. UNCHANGED <<pc, job, deleted, up, clock>> /\ queue' = Append(queue, r)
    BY <1>2 DEF Enqueue, diskVars, memVars
  <2>2. queue # <<>> => Req' = Req
    BY <1>0, <2>1 DEF Req
  <2> QED
    BY <1>0, <2>1, <2>2, BesideTheLane DEF KeepInv
<1>3. CASE Tick
  <2>1. UNCHANGED <<pc, job, deleted, queue, up>> /\ clock' = clock + 1
    BY <1>3 DEF Tick, laneVars, diskVars, memVars
  <2> QED
    BY <1>0, <2>1, BesideTheLane DEF Req, KeepInv
<1>4. ASSUME pc' = "idle"
      PROVE  KeepInv'
  BY <1>4 DEF KeepInv, DeleteSteps, CopySteps
<1>5. CASE Restart
  <2>1. pc' = "idle"
    BY <1>5 DEF Restart, KeepInv, laneVars
  <2> QED
    BY <1>4, <2>1
<1>6. CASE \/ RefuseRevoked \/ RunPurge \/ RefusePut \/ WriteMain \/ RefuseDelete \/ UnlinkMain
           \/ DiskError \/ Crash
  <2>1. pc' = "idle"
    BY <1>6 DEF RefuseRevoked, RunPurge, RefusePut, WriteMain, RefuseDelete, UnlinkMain, DiskError,
                Crash, Finish
  <2> QED
    BY <1>4, <2>1
<1>7. CASE StartPut \/ RotatePrev
  <2>1. pc' \in PutSteps /\ up'
    BY <1>7 DEF StartPut, PutAllowed, Starts, RotatePrev, Goto, PutSteps, KeepInv
  <2> QED
    BY <2>1 DEF KeepInv, PutSteps, DeleteSteps, CopySteps
<1>8. CASE StartDelete
  <2>1. pc' \in {"snapshot", "append"} /\ up' /\ job'.at = clock /\ clock' = clock
    BY <1>8 DEF StartDelete, DeleteAllowed, Starts, Goto, NoJob
  <2> QED
    BY <1>0, <2>1 DEF KeepInv, DeleteSteps, CopySteps
<1>9. CASE AppendRevocation \/ WriteSnapshot \/ UnlinkLog
  <2>1. pc' \in {"gather", "unlinkLog"} /\ pc \in DeleteSteps /\ UNCHANGED <<up, job, clock>>
    BY <1>9 DEF AppendRevocation, WriteSnapshot, UnlinkLog, Goto, DeleteSteps
  <2> QED
    BY <2>1 DEF KeepInv, DeleteSteps, CopySteps
<1>10. CASE GatherDeleted
  <2>1. CASE Finish("nothing")
    BY <1>4, <2>1 DEF Finish
  <2>2. CASE /\ job' = [job EXCEPT !.prev = prev[Req.addr]]
             /\ Goto(IF KeepDeleted > 0 THEN "room"
                     ELSE IF prev[Req.addr] # NoRec THEN "unlinkPrev" ELSE "unlinkMain")
    <3>1. /\ job'.at = job.at /\ clock' = clock /\ up' /\ pc \in DeleteSteps
          /\ pc' \in {"room", "unlinkPrev", "unlinkMain"} /\ (KeepDeleted > 0 => pc' = "room")
      BY <1>0, <1>10, <2>2 DEF GatherDeleted, Goto, JobType, KeepInv, DeleteSteps
    <3> QED
      BY <3>1 DEF KeepInv, DeleteSteps, CopySteps
  <2> QED
    BY <1>10, <2>1, <2>2 DEF GatherDeleted
<1>11. CASE MakeRoom
  <2>1. /\ job' = [job EXCEPT !.kept = KeptFor(Req.addr), !.trim = ButFirst(KeptFor(Req.addr))]
        /\ pc' \in {"evict", "keep"} /\ Req' = Req /\ pc \in DeleteSteps /\ clock' = clock /\ up' = up
        /\ pc # "idle"
    BY <1>11 DEF MakeRoom, Goto, Req, DeleteSteps, CopySteps
  <2>2. job'.kept = KeptFor(Req.addr) /\ job'.trim = ButFirst(KeptFor(Req.addr)) /\ job'.at = job.at
    BY <1>0, <2>1 DEF JobType
  <2>3. job'.trim \subseteq job'.kept /\ \A e \in job'.kept : e.addr = Req.addr
    BY <2>2 DEF ButFirst, KeptFor
  <2> QED
    BY <2>1, <2>2, <2>3 DEF KeepInv
<1>12. CASE Evict
  <2>1. /\ pc' \in {"evict", "keep"} /\ pc = "evict" /\ Req' = Req
        /\ UNCHANGED <<job, clock, up>>
    BY <1>12 DEF Evict, Goto, Req
  <2> QED
    BY <2>1 DEF KeepInv, DeleteSteps, CopySteps
<1>13. CASE KeepCopy
  <2>1. PICK t \in FreeTimes(Req.addr) :
          deleted' = deleted \cup {[addr |-> Req.addr, at |-> t, cur |-> job.old, prev |-> job.prev]}
    BY <1>13 DEF KeepCopy
  <2>2. /\ pc' \in {"trim", "unlinkPrev", "unlinkMain"} /\ pc = "keep" /\ pc \in DeleteSteps
        /\ Req' = Req /\ UNCHANGED <<job, clock, up>>
    BY <1>13 DEF KeepCopy, AfterTrim, Goto, Req, DeleteSteps, CopySteps
  <2>3. job.at <= t
    <3>1. t \in Nat /\ clock <= t
      BY <1>0 DEF FreeTimes
    <3>2. job.at \in Nat /\ job.at <= clock
      BY <1>0, <2>2 DEF JobType, KeepInv
    <3> QED
      BY <1>0, <3>1, <3>2
  <2>4. CopyIsDown(Req.addr, job, deleted')
    <3> DEFINE c == [addr |-> Req.addr, at |-> t, cur |-> job.old, prev |-> job.prev]
    <3>1. /\ c \in deleted' /\ c.addr = Req.addr /\ c.at = t
          /\ c.cur = job.old /\ c.prev = job.prev
      BY <2>1
    <3> HIDE DEF c
    <3> QED
      BY <2>3, <3>1 DEF CopyIsDown
  <2> QED
    BY <2>2, <2>4 DEF KeepInv
<1>14. CASE TrimCopy
  <2>1. CASE Finish("unavailable")
    BY <1>4, <2>1 DEF Finish
  <2>2. ASSUME NEW d \in Oldest(job.trim), Erase(Named(d)), job' = [job EXCEPT !.trim = @ \ {d}],
               Goto(IF job.trim = {d} THEN AfterTrim ELSE "trim")
        PROVE  KeepInv'
    <3>1. /\ pc' \in {"trim", "unlinkPrev", "unlinkMain"} /\ pc = "trim" /\ pc \in DeleteSteps
          /\ Req' = Req /\ UNCHANGED <<clock, up>> /\ deleted' = deleted \ Named(d)
      BY <1>14, <2>2 DEF TrimCopy, AfterTrim, Goto, Req, DeleteSteps, CopySteps, Erase
    <3>2. /\ job'.at = job.at /\ job'.kept = job.kept /\ job'.old = job.old /\ job'.prev = job.prev
          /\ job'.trim \subseteq job.trim
      BY <1>0, <2>2 DEF JobType
    <3>3. d \in job.kept /\ d.addr = Req.addr
      BY <2>2, <3>1 DEF Oldest, KeepInv
    <3>4. KeepDeleted > 0 => CopyIsDown(Req.addr, job', deleted')
      <4> SUFFICES ASSUME KeepDeleted > 0, ~ \E e \in job.kept : e.addr = Req.addr /\ job.at <= e.at
                   PROVE  CopyIsDown(Req.addr, job', deleted')
        BY <3>2 DEF CopyIsDown
      <4>1. PICK c \in deleted : c.addr = Req.addr /\ c.cur = job.old /\ c.prev = job.prev /\ job.at <= c.at
        BY <3>1 DEF KeepInv, CopyIsDown
      <4>2. c \notin Named(d)
        BY <3>3, <4>1 DEF Named
      <4> QED
        BY <3>1, <3>2, <4>1, <4>2 DEF CopyIsDown
    <3> QED
      BY <3>1, <3>2, <3>4 DEF KeepInv
  <2> QED
    BY <1>14, <2>1, <2>2 DEF TrimCopy
<1>15. CASE UnlinkPrev
  <2>1. /\ pc' = "unlinkMain" /\ pc = "unlinkPrev" /\ pc \in DeleteSteps
        /\ Req' = Req /\ UNCHANGED <<job, clock, up, deleted>>
    BY <1>15 DEF UnlinkPrev, Goto, Req, DeleteSteps, CopySteps
  <2> QED
    BY <2>1 DEF KeepInv
<1> QED
  BY <1>1, <1>2, <1>3, <1>5, <1>6, <1>7, <1>8, <1>9, <1>10, <1>11, <1>12, <1>13, <1>14, <1>15
  DEF Next, Ask, AskPut, AskDelete, AskPurge, LaneStep

\* A list and its .prev are unlinked only with a copy of both on disk, whichever of the
\* steps before failed, was cut short by a crash, or was tried again: but for a clock that
\* stands still or goes back between two deletions of the address.
THEOREM DeletedListsAreKept == KeepDeleted > 0 => (Spec => DeletedListIsKept)
<1> SUFFICES ASSUME KeepDeleted > 0 PROVE Spec => DeletedListIsKept
  OBVIOUS
<1>1. Init => KeepInv
  BY DEF Init, KeepInv, DeleteSteps, CopySteps
<1>2. TypeInv /\ KeepInv /\ [Next]_vars => KeepInv'
  BY NextKeepInv
<1>3. ASSUME LaneInv, TypeInv, KeepInv, Next, NEW a \in Addr, main[a] # NoRec, main'[a] = NoRec
      PROVE  \/ \E d \in deleted' : d.addr = a /\ d.cur = main[a] /\ d.prev = job.prev
             \/ NameStillToCome(a)
  <2>1. UnlinkMain
    <3>1. ASSUME WriteMain PROVE FALSE
      <4>1. Req.addr = a /\ main'[a] = [rev |-> Rev(job.old) + 1, writer |-> Req.writer,
                                        keyId |-> Req.keyId, ct |-> Req.ct]
        BY <1>3, <3>1 DEF WriteMain, TypeInv, StoreTypeOK
      <4>2. Rev(job.old) + 1 \in Nat /\ Req \in PutRequest
        BY <1>3, <3>1, NoRecAssumption
        DEF WriteMain, TypeInv, StoreTypeOK, JobType, File, Record, Rev, LaneShape, PutSteps
      <4> QED
        BY <1>3, <4>1, <4>2, NoRecAssumption DEF PutRequest
    <3> QED
      BY <1>3, <3>1, OnlyWritesTouchFiles
  <2>2. /\ pc = "unlinkMain" /\ Req.addr = a /\ job.old = main[a] /\ deleted' = deleted
    BY <1>3, <2>1 DEF UnlinkMain, TypeInv, StoreTypeOK, LaneInv
  <2> QED
    BY <1>3, <2>2 DEF KeepInv, CopyIsDown, NameStillToCome
<1>4. ASSUME LaneInv, TypeInv, KeepInv, Next, NEW a \in Addr, prev[a] # NoRec, prev'[a] = NoRec
      PROVE  \/ \E d \in deleted' : d.addr = a /\ d.cur = main[a] /\ d.prev = prev[a]
             \/ NameStillToCome(a)
  <2>1. UnlinkPrev
    <3>1. ASSUME RotatePrev PROVE FALSE
      <4>1. Req.addr = a /\ prev'[a] = job.old /\ job.old = main[a] /\ Rotates(Req)
        BY <1>4, <3>1 DEF RotatePrev, TypeInv, StoreTypeOK, LaneInv
      <4> QED
        BY <1>4, <4>1 DEF Rotates
    <3> QED
      BY <1>4, <3>1, OnlyWritesTouchFiles
  <2>2. /\ pc = "unlinkPrev" /\ Req.addr = a /\ job.old = main[a] /\ job.prev = prev[a]
        /\ deleted' = deleted
    BY <1>4, <2>1 DEF UnlinkPrev, TypeInv, StoreTypeOK, LaneInv, CopySteps
  <2> QED
    BY <1>4, <2>2 DEF KeepInv, CopyIsDown, NameStillToCome
<1>5. LaneInv /\ TypeInv /\ KeepInv /\ [Next]_vars =>
        [\A a \in Addr :
           /\ main[a] # NoRec /\ main'[a] = NoRec =>
                \/ \E d \in deleted' : d.addr = a /\ d.cur = main[a] /\ d.prev = job.prev
                \/ NameStillToCome(a)
           /\ prev[a] # NoRec /\ prev'[a] = NoRec =>
                \/ \E d \in deleted' : d.addr = a /\ d.cur = main[a] /\ d.prev = prev[a]
                \/ NameStillToCome(a)]_vars
  BY <1>3, <1>4
<1> QED
  BY <1>1, <1>2, <1>5, StoreTypes, LaneInvariant, PTL DEF Spec, DeletedListIsKept

-----------------------------------------------------------------------------
(* Revocations outlive crashes, where no append tears and the log goes when asked *)

\* The log is gone when its unlink was tried: otherwise its old lines would be read over
\* the newer snapshot.
UnlinkWorks == [][pc = "unlinkLog" /\ pc' = "gather" => log' = <<>>]_vars

\* The line of a that counts, of the lines at the places S.
LastOf(S) == CHOOSE i \in S : \A j \in S : j <= i
PlacesOf(a, l) == {i \in 1..Len(l) : l[i].addr = a}
ReplayOf(a, l, s) == IF PlacesOf(a, l) = {} THEN s ELSE l[LastOf(PlacesOf(a, l))].at

LEMMA ReplayedIs == \A a \in Addr : Replayed[a] = ReplayOf(a, log, snap[a])
BY DEF Replayed, ReplayOf, PlacesOf, LastOf

\* A line that is appended counts for its address, and changes nothing for the others.
LEMMA AppendReplays ==
  ASSUME NEW l \in Seq(Line), NEW line \in Line, NEW a, NEW s
  PROVE  ReplayOf(a, Append(l, line), s) =
           IF a = line.addr THEN line.at ELSE ReplayOf(a, l, s)
<1> DEFINE m == Append(l, line)
           n == Len(l) + 1
<1>1. /\ Len(m) = n /\ n \in Nat /\ m[n] = line /\ n \in 1..Len(m)
      /\ \A i \in 1..Len(l) : m[i] = l[i] /\ i \in 1..Len(m) /\ i < n
      /\ \A i \in 1..Len(m) : i = n \/ i \in 1..Len(l)
  OBVIOUS
<1> HIDE DEF m, n
<1>2. CASE a = line.addr
  <2>1. n \in PlacesOf(a, m) /\ \A j \in PlacesOf(a, m) : j <= n /\ j \in Nat
    BY <1>1, <1>2 DEF PlacesOf
  <2>2. LastOf(PlacesOf(a, m)) = n
    <3> DEFINE k == LastOf(PlacesOf(a, m))
    <3>1. k \in PlacesOf(a, m) /\ \A j \in PlacesOf(a, m) : j <= k
      BY <2>1 DEF LastOf
    <3> HIDE DEF k
    <3>2. k \in Nat /\ k <= n /\ n <= k
      BY <2>1, <3>1
    <3>3. k = n
      BY <1>1, <3>2
    <3> QED
      BY <3>3 DEF k
  <2> QED
    BY <1>1, <1>2, <2>1, <2>2 DEF ReplayOf, m
<1>3. CASE a # line.addr
  <2>1. PlacesOf(a, m) = PlacesOf(a, l)
    BY <1>1, <1>3 DEF PlacesOf
  <2>2. PlacesOf(a, l) # {} => LastOf(PlacesOf(a, l)) \in 1..Len(l)
    <3> SUFFICES ASSUME PlacesOf(a, l) # {} PROVE LastOf(PlacesOf(a, l)) \in 1..Len(l)
      OBVIOUS
    <3>1. \E i \in PlacesOf(a, l) : \A j \in PlacesOf(a, l) : j <= i
      BY LastLineExists DEF PlacesOf
    <3> QED
      BY <3>1 DEF LastOf, PlacesOf
  <2> QED
    BY <1>1, <1>3, <2>1, <2>2 DEF ReplayOf, m
<1> QED
  BY <1>2, <1>3

\* A revocation of time t that no session still alive was issued before.
Lasts(t, now) == now - RevocationKeep <= t

\* A request waits no longer than LaneWait, and came with a session that lived.
WaitInv ==
  \A i \in 1..Len(queue) :
    /\ queue[i].since <= clock /\ clock <= queue[i].since + LaneWait
    /\ queue[i].op # "purge" => queue[i].since < queue[i].writer + SessionTTL

\* What was answered is in the map and on disk, for as long as it lasts.
AckInv ==
  /\ torn = FALSE
  /\ \A a \in Addr :
       /\ acked[a] <= clock
       /\ up /\ Lasts(acked[a], clock) => acked[a] <= revoked[a]
       /\ Lasts(acked[a], clock) => acked[a] <= Replayed[a]

\* A request that runs came with a session later than any revocation answered; a DELETE
\* has its own in the map, and on disk before it goes on to the files.
RunInv ==
  /\ pc # "idle" => acked[Req.addr] < Req.writer
  /\ pc \in DeleteSteps => /\ Req.since <= job.at /\ acked[Req.addr] <= job.at
                           /\ revoked[Req.addr] = job.at
  /\ pc = "unlinkLog" => /\ snap[Req.addr] = job.at
                         /\ \A a \in Addr : Lasts(acked[a], clock) => acked[a] <= snap[a]
  /\ pc \in {"gather", "unlinkMain"} \cup CopySteps => job.at <= Replayed[Req.addr]

\* A revocation is kept for longer than a session lives and a write waits.
KeepsLongEnough == SessionTTL + LaneWait <= RevocationKeep

LEMMA Limits == /\ RevocationKeep \in Nat /\ LaneWait \in Nat /\ SessionTTL \in Nat
BY LimitAssumption

\* What the types say, in the form the steps use them.
LEMMA RevTypes ==
  ASSUME TypeInv
  PROVE  /\ clock \in Nat /\ job.at \in Nat /\ queue \in Seq(Request) /\ log \in Seq(Line)
         /\ revoked \in [Addr -> Nat] /\ snap \in [Addr -> Nat] /\ acked \in [Addr -> Nat]
         /\ Replayed \in [Addr -> Nat]
         /\ pc # "idle" => queue # <<>>
         /\ pc \in DeleteSteps => Req.addr \in Addr /\ Req.writer \in Nat /\ Req.since \in Nat
         /\ pc \in PutSteps => Req.addr \in Addr /\ Req.writer \in Nat /\ Req.since \in Nat
BY ReplayedTyped DEF TypeInv, StoreTypeOK, JobType, LaneShape, DeleteRequest, PutRequest

\* Every request in the lane is typed.
LEMMA InLane ==
  ASSUME queue \in Seq(Request), NEW i \in 1..Len(queue)
  PROVE  /\ queue[i] \in Request /\ queue[i].since \in Nat
         /\ queue[i].op # "purge" => queue[i].writer \in Nat /\ queue[i].addr \in Addr
<1>1. queue[i] \in Request
  OBVIOUS
<1> QED
  BY <1>1 DEF Request, PutRequest, DeleteRequest, PurgeRequest

\* Time goes on and requests come: what is in force stays in force or runs out.
LEMMA RevBesideTheLane ==
  ASSUME TypeInv, AckInv, RunInv, UNCHANGED <<pc, job, acked, revoked, snap, log, torn, up>>,
         queue # <<>> => Req' = Req, clock <= clock', clock' \in Nat
  PROVE  AckInv' /\ RunInv'
<1> USE RevTypes, Limits
<1>1. Replayed' = Replayed
  BY DEF Replayed
<1>2. \A a \in Addr : /\ Lasts(acked[a], clock') => Lasts(acked[a], clock)
                      /\ acked[a] <= clock => acked[a] <= clock'
  <2> SUFFICES ASSUME NEW a \in Addr
               PROVE  /\ Lasts(acked[a], clock') => Lasts(acked[a], clock)
                      /\ acked[a] <= clock => acked[a] <= clock'
    OBVIOUS
  <2>1. acked[a] \in Nat
    OBVIOUS
  <2> QED
    BY <2>1 DEF Lasts
<1>3. AckInv'
  BY <1>1, <1>2 DEF AckInv
<1>4. pc # "idle" => Req' = Req
  OBVIOUS
<1>5. RunInv'
  <2>1. pc \in DeleteSteps \cup {"unlinkLog", "gather", "unlinkMain"} \cup CopySteps => pc # "idle"
    BY DEF DeleteSteps, CopySteps
  <2> QED
    BY <1>1, <1>2, <1>4, <2>1 DEF RunInv
<1> QED
  BY <1>3, <1>5

\* The lane moves up, and no request waits longer for it.
LEMMA WaitsNoLonger ==
  ASSUME TypeInv, WaitInv, clock' = clock,
         queue' = queue \/ queue' = <<>> \/ (queue # <<>> /\ queue' = Tail(queue))
  PROVE  WaitInv'
<1>1. queue \in Seq(Request)
  BY RevTypes
<1>2. CASE queue' = queue
  BY <1>2 DEF WaitInv
<1>3. CASE queue' = <<>>
  BY <1>3 DEF WaitInv
<1>4. CASE queue # <<>> /\ queue' = Tail(queue)
  <2>1. \A i \in 1..Len(queue') : i + 1 \in 1..Len(queue) /\ queue'[i] = queue[i + 1]
    BY <1>1, <1>4
  <2> QED
    BY <2>1 DEF WaitInv
<1> QED
  BY <1>2, <1>3, <1>4

LEMMA NextWaitInv == TypeInv /\ KeepInv /\ WaitInv /\ [Next]_vars => WaitInv'
<1> SUFFICES ASSUME TypeInv, KeepInv, WaitInv, [Next]_vars PROVE WaitInv'
  OBVIOUS
<1> USE RevTypes, Limits
<1>1. ASSUME NEW r, Enqueue(r), r.since = clock,
             r.op # "purge" => clock < r.writer + SessionTTL
      PROVE  WaitInv'
  <2>1. queue' = Append(queue, r) /\ clock' = clock
    BY <1>1 DEF Enqueue
  <2>2. \A i \in 1..Len(queue') : queue'[i] = r \/ (i \in 1..Len(queue) /\ queue'[i] = queue[i])
    BY <2>1
  <2>3. clock <= clock + LaneWait
    OBVIOUS
  <2> QED
    BY <1>1, <2>1, <2>2, <2>3 DEF WaitInv
<1>2. CASE Ask
  <2>1. ASSUME NEW s \in sessions, NEW base \in 0..MaxRev, AskDelete(s, base)
        PROVE  WaitInv'
    BY <1>1, <2>1 DEF AskDelete, Admitted, SessionLive
  <2>2. ASSUME NEW s \in sessions, NEW base \in 0..MaxRev, NEW k \in KeyIds, NEW c \in Blobs,
               AskPut(s, base, k, c)
        PROVE  WaitInv'
    BY <1>1, <2>2 DEF AskPut, Admitted, SessionLive
  <2>3. CASE AskPurge
    BY <1>1, <2>3 DEF AskPurge
  <2> QED
    BY <1>2, <2>1, <2>2, <2>3 DEF Ask
<1>3. CASE Tick
  <2>1. queue' = queue /\ clock' = clock + 1 /\ \A i \in 1..Len(queue) : clock < queue[i].since + LaneWait
    BY <1>3 DEF Tick, laneVars
  <2>2. \A i \in 1..Len(queue) : queue[i].since <= clock + 1 /\ clock + 1 <= queue[i].since + LaneWait
    BY <2>1, InLane DEF WaitInv
  <2> QED
    BY <2>1, <2>2 DEF WaitInv
<1>4. CASE UNCHANGED vars \/ (\E a \in Addr : Login(a)) \/ (\E s \in sessions : Logout(s)) \/ Restart
  <2>1. UNCHANGED <<queue, clock>>
    BY <1>4 DEF vars, Login, Logout, laneVars, Restart
  <2> QED
    BY <2>1, WaitsNoLonger
<1>5. CASE LaneStep \/ DiskError \/ Crash
  <2>1. clock' = clock
    BY <1>5
    DEF LaneStep, RefuseRevoked, RunPurge, RefusePut, StartPut, RotatePrev, WriteMain,
        RefuseDelete, StartDelete, AppendRevocation, WriteSnapshot, UnlinkLog,
        GatherDeleted, MakeRoom, Evict, KeepCopy, TrimCopy, UnlinkPrev, UnlinkMain, DiskError, Crash
  <2>2. (\E result : Finish(result)) \/ (\E step : Goto(step)) \/ queue' = <<>>
    BY <1>5, Zenon
    DEF LaneStep, RefuseRevoked, RunPurge, RefusePut, StartPut, RotatePrev, WriteMain,
        RefuseDelete, StartDelete, AppendRevocation, WriteSnapshot, UnlinkLog,
        GatherDeleted, MakeRoom, Evict, KeepCopy, TrimCopy, UnlinkPrev, UnlinkMain, DiskError, Crash
  <2>3. queue # <<>> \/ Crash
    <3>1. pc # "idle" => queue # <<>>
      OBVIOUS
    <3> HIDE RevTypes, Limits
    <3> QED
      BY <1>5, <3>1
      DEF LaneStep, RefuseRevoked, RunPurge, RefusePut, StartPut, RotatePrev, WriteMain,
          RefuseDelete, StartDelete, AppendRevocation, WriteSnapshot, UnlinkLog, Starts, PutAllowed,
          DeleteAllowed, GatherDeleted, MakeRoom, Evict, KeepCopy, TrimCopy, UnlinkPrev, UnlinkMain,
          DiskError
  <2>4. Crash => queue' = <<>>
    BY DEF Crash
  <2> QED
    BY <2>1, <2>2, <2>3, <2>4, WaitsNoLonger DEF Finish, Goto
<1> QED
  BY <1>2, <1>3, <1>4, <1>5 DEF Next

\* Who passes the check at the head of the lane came after every DELETE answered: the
\* map still has its revocation, or it is older than the session can be.
LEMMA StartsAfterRevocations ==
  ASSUME KeepsLongEnough, TypeInv, WaitInv, AckInv, up, queue # <<>>, Req.op # "purge",
         Req.writer > revoked[Req.addr]
  PROVE  acked[Req.addr] < Req.writer
<1> USE RevTypes, Limits
<1>1. 1 \in 1..Len(queue) /\ Req = queue[1]
  BY DEF Req
<1>2. Req.addr \in Addr /\ Req.writer \in Nat /\ Req.since \in Nat
  BY <1>1, InLane
<1>3. acked[Req.addr] \in Nat /\ revoked[Req.addr] \in Nat
  BY <1>2
<1>4. CASE Lasts(acked[Req.addr], clock)
  BY <1>2, <1>3, <1>4 DEF AckInv
<1>5. CASE ~ Lasts(acked[Req.addr], clock)
  <2>1. clock <= Req.since + LaneWait /\ Req.since < Req.writer + SessionTTL
    BY <1>1 DEF WaitInv
  <2> QED
    BY <1>2, <1>3, <1>5, <2>1 DEF Lasts, KeepsLongEnough
<1> QED
  BY <1>4, <1>5

\* The revocation of the DELETE that runs is not old enough to be forgotten.
LEMMA OwnRevocationLasts ==
  ASSUME KeepsLongEnough, TypeInv, WaitInv, RunInv, pc \in DeleteSteps
  PROVE  Lasts(job.at, clock)
<1> USE RevTypes, Limits
<1>1. 1 \in 1..Len(queue) /\ Req = queue[1]
  BY DEF Req, DeleteSteps, CopySteps
<1>2. clock <= Req.since + LaneWait /\ Req.since <= job.at
  BY <1>1 DEF WaitInv, RunInv
<1> QED
  BY <1>2 DEF Lasts, KeepsLongEnough

\* An interrupted append leaves what is on disk, or adds the DELETE's own line.
LEMMA InterruptedReplays ==
  ASSUME ~Tears, TypeInv, AckInv, RunInv, pc = "append", InterruptedAppend, snap' = snap
  PROVE  /\ torn' = FALSE
         /\ \A a \in Addr : Replayed[a]' = Replayed[a] \/ Replayed[a]' = job.at
         /\ \A a \in Addr : Replayed[a]' # Replayed[a] => a = Req.addr
<1> USE RevTypes
<1>1. Req.addr \in Addr /\ [addr |-> Req.addr, at |-> job.at] \in Line
  BY DEF DeleteSteps, Line
<1> DEFINE line == [addr |-> Req.addr, at |-> job.at]
<1>2. torn' = FALSE /\ (log' = log \/ log' = Append(log, line))
  BY DEF InterruptedAppend, LogWith, AckInv
<1>3. CASE log' = log
  BY <1>2, <1>3 DEF Replayed
<1>4. CASE log' = Append(log, line)
  <2>1. line.addr = Req.addr /\ line.at = job.at /\ line \in Line
    BY <1>1
  <2> HIDE DEF line
  <2>2. \A a \in Addr : Replayed[a]' = ReplayOf(a, log', snap[a])
    BY DEF Replayed, ReplayOf, PlacesOf, LastOf
  <2>3. \A a \in Addr : Replayed[a]' = IF a = Req.addr THEN job.at ELSE ReplayOf(a, log, snap[a])
    BY <1>4, <2>1, <2>2, AppendReplays
  <2> QED
    BY <1>2, <2>3, ReplayedIs
<1> QED
  BY <1>2, <1>3, <1>4

\* Between its own revocation and the last file a DELETE touches no revocation.
LEMMA DeleteKeepsRevocations ==
  ASSUME TypeInv, AckInv, RunInv, UNCHANGED <<acked, revoked, snap, log, torn, up, clock>>,
         pc \in {"gather"} \cup CopySteps, NEW step \in CopySteps \cup {"unlinkMain"}, Goto(step),
         job'.at = job.at
  PROVE  AckInv' /\ RunInv'
<1>1. Replayed' = Replayed /\ Req' = Req /\ pc' = step
  BY DEF Replayed, Goto, Req
<1>2. pc \in DeleteSteps /\ pc # "idle" /\ step # "unlinkLog" /\ step # "idle"
  BY DEF DeleteSteps, CopySteps
<1> QED
  BY <1>1, <1>2 DEF AckInv, RunInv, Lasts

LEMMA NextRevInv ==
  ASSUME ~Tears, KeepsLongEnough, TypeInv, TypeInv', KeepInv, WaitInv, AckInv, RunInv, [Next]_vars,
         pc = "unlinkLog" /\ pc' = "gather" => log' = <<>>
  PROVE  AckInv' /\ RunInv'
<1> USE RevTypes, Limits
<1>1. CASE UNCHANGED vars \/ (\E a \in Addr : Login(a)) \/ \E s \in sessions : Logout(s)
  <2>1. UNCHANGED <<pc, job, acked, revoked, snap, log, torn, up, queue, clock>>
    BY <1>1 DEF vars, Login, Logout, laneVars, diskVars, memVars, histVars
  <2> QED
    BY <2>1, RevBesideTheLane DEF Req
<1>2. ASSUME NEW r, Enqueue(r)
      PROVE  AckInv' /\ RunInv'
  <2>1. UNCHANGED <<pc, job, acked, revoked, snap, log, torn, up, clock>> /\ queue' = Append(queue, r)
    BY <1>2 DEF Enqueue, diskVars, memVars, histVars
  <2>2. queue # <<>> => Req' = Req
    BY <2>1 DEF Req
  <2> QED
    BY <2>1, <2>2, RevBesideTheLane
<1>3. CASE Tick
  <2>1. UNCHANGED <<pc, job, acked, revoked, snap, log, torn, up, queue>> /\ clock' = clock + 1
    BY <1>3 DEF Tick, laneVars, diskVars, memVars, histVars
  <2> QED
    BY <2>1, RevBesideTheLane DEF Req
<1>4. ASSUME pc' = "idle", AckInv'
      PROVE  AckInv' /\ RunInv'
  BY <1>4 DEF RunInv, DeleteSteps, CopySteps
<1>5. ASSUME pc' = "idle", UNCHANGED <<acked, revoked, snap, log, torn, up, clock>>
      PROVE  AckInv' /\ RunInv'
  <2>1. Replayed' = Replayed
    BY <1>5 DEF Replayed
  <2> QED
    BY <1>4, <1>5, <2>1 DEF AckInv
<1>6. CASE RefuseRevoked \/ RunPurge \/ RefusePut \/ WriteMain \/ RefuseDelete
  <2>1. pc' = "idle" /\ UNCHANGED <<acked, revoked, snap, log, torn, up, clock>>
    BY <1>6 DEF RefuseRevoked, RunPurge, RefusePut, WriteMain, RefuseDelete, Finish, diskVars,
                memVars, histVars
  <2> QED
    BY <1>5, <2>1
<1>7. ASSUME pc' = "idle", pc \in {"gather", "unlinkMain"},
             UNCHANGED <<revoked, snap, log, torn, up, clock>>,
             acked' = [acked EXCEPT ![Req.addr] = job.at]
      PROVE  AckInv' /\ RunInv'
  <2>1. pc \in DeleteSteps
    BY <1>7 DEF DeleteSteps
  <2>2. /\ job.at <= clock /\ revoked[Req.addr] = job.at /\ job.at <= Replayed[Req.addr]
        /\ Replayed' = Replayed
    BY <1>7, <2>1 DEF KeepInv, RunInv, Replayed
  <2>3. \A a \in Addr : acked'[a] = IF a = Req.addr THEN job.at ELSE acked[a]
    BY <1>7
  <2>4. AckInv'
    BY <1>7, <2>2, <2>3 DEF AckInv
  <2> QED
    BY <1>4, <1>7, <2>4
<1>8. CASE UnlinkMain
  BY <1>7, <1>8 DEF UnlinkMain, Finish
<1>9. CASE DiskError
  <2>1. pc' = "idle" /\ UNCHANGED <<acked, revoked, snap, up, clock>>
    BY <1>9 DEF DiskError, Finish, memVars, histVars
  <2>2. CASE UNCHANGED <<log, torn>>
    BY <1>5, <2>1, <2>2
  <2>3. CASE pc = "append" /\ InterruptedAppend
    <3>1. /\ torn' = FALSE
          /\ \A a \in Addr : Replayed[a]' = Replayed[a] \/ (a = Req.addr /\ Replayed[a]' = job.at)
      BY <2>1, <2>3, InterruptedReplays
    <3>2. acked[Req.addr] <= job.at
      BY <2>3 DEF RunInv, DeleteSteps
    <3>3. AckInv'
      BY <2>1, <3>1, <3>2 DEF AckInv
    <3> QED
      BY <1>4, <2>1, <3>3
  <2> QED
    BY <1>9, <2>2, <2>3 DEF DiskError
<1>10. CASE Crash
  <2>1. pc' = "idle" /\ UNCHANGED <<acked, snap, clock>> /\ up' = FALSE
    BY <1>10 DEF Crash, histVars
  <2>2. /\ torn' = FALSE
        /\ \A a \in Addr : \/ Replayed[a]' = Replayed[a]
                           \/ a = Req.addr /\ Replayed[a]' = job.at /\ acked[a] <= job.at
    <3>1. CASE pc = "append" /\ InterruptedAppend
      <4>1. acked[Req.addr] <= job.at
        BY <3>1 DEF RunInv, DeleteSteps
      <4> QED
        BY <2>1, <3>1, <4>1, InterruptedReplays
    <3>2. CASE UNCHANGED <<log, torn>>
      BY <2>1, <3>2 DEF Replayed, AckInv
    <3> QED
      BY <1>10, <3>1, <3>2 DEF Crash
  <2>3. AckInv'
    BY <2>1, <2>2 DEF AckInv
  <2> QED
    BY <1>4, <2>1, <2>3
<1>11. CASE Restart
  <2>1. pc' = "idle" /\ UNCHANGED <<acked, snap, log, torn, clock>>
    BY <1>11 DEF Restart, laneVars, histVars, KeepInv
  <2>2. \A a \in Addr : revoked'[a] = IF Replayed[a] < clock - RevocationKeep THEN 0 ELSE Replayed[a]
    BY <1>11 DEF Restart
  <2>3. Replayed' = Replayed
    BY <2>1 DEF Replayed
  <2>4. \A a \in Addr : Lasts(acked[a], clock) => acked[a] <= revoked'[a]
    <3> SUFFICES ASSUME NEW a \in Addr, Lasts(acked[a], clock) PROVE acked[a] <= revoked'[a]
      OBVIOUS
    <3>1. acked[a] <= Replayed[a] /\ acked[a] \in Nat /\ Replayed[a] \in Nat
      BY DEF AckInv
    <3> QED
      BY <2>2, <3>1 DEF Lasts
  <2>5. AckInv'
    BY <2>1, <2>3, <2>4 DEF AckInv
  <2> QED
    BY <1>4, <2>1, <2>5
<1>12. CASE StartPut
  <2>1. /\ pc' \in {"rotate", "write"} /\ Req' = Req
        /\ UNCHANGED <<acked, revoked, snap, log, torn, up, clock>>
    BY <1>12 DEF StartPut, Goto, Req, histVars
  <2>2. acked[Req.addr] < Req.writer
    BY <1>12, StartsAfterRevocations DEF StartPut, PutAllowed, Starts
  <2>3. Replayed' = Replayed
    BY <2>1 DEF Replayed
  <2> QED
    BY <2>1, <2>2, <2>3 DEF AckInv, RunInv, DeleteSteps, CopySteps
<1>13. CASE RotatePrev
  <2>1. /\ pc' = "write" /\ pc = "rotate" /\ Req' = Req
        /\ UNCHANGED <<acked, revoked, snap, log, torn, up, clock>>
    BY <1>13 DEF RotatePrev, Goto, Req, histVars
  <2>2. Replayed' = Replayed
    BY <2>1 DEF Replayed
  <2> QED
    BY <2>1, <2>2 DEF AckInv, RunInv, DeleteSteps, CopySteps
<1>14. CASE StartDelete
  <2>1. /\ pc' \in {"snapshot", "append"} /\ Req' = Req /\ job'.at = clock
        /\ UNCHANGED <<acked, snap, log, torn, up, clock>>
        /\ revoked' = [revoked EXCEPT ![Req.addr] = clock]
        /\ up /\ queue # <<>> /\ Req.op = "delete" /\ Req.writer > revoked[Req.addr]
    BY <1>14 DEF StartDelete, DeleteAllowed, Starts, Goto, Req, histVars, diskVars, NoJob
  <2>2. acked[Req.addr] < Req.writer
    BY <2>1, StartsAfterRevocations
  <2>3. Replayed' = Replayed
    BY <2>1 DEF Replayed
  <2>4. Req.addr \in Addr /\ Req.since <= clock
    <3>1. 1 \in 1..Len(queue) /\ Req = queue[1]
      BY <2>1 DEF Req
    <3> QED
      BY <2>1, <3>1, InLane DEF WaitInv
  <2>5. \A a \in Addr : revoked'[a] = IF a = Req.addr THEN clock ELSE revoked[a]
    BY <2>1
  <2>6. AckInv'
    BY <2>1, <2>3, <2>5 DEF AckInv
  <2>7. RunInv'
    BY <2>1, <2>2, <2>4, <2>5 DEF RunInv, AckInv, DeleteSteps, CopySteps
  <2> QED
    BY <2>6, <2>7
<1>15. CASE AppendRevocation
  <2> DEFINE line == [addr |-> Req.addr, at |-> job.at]
  <2>1. /\ pc = "append" /\ pc' = "gather" /\ Req' = Req /\ torn' = FALSE
        /\ UNCHANGED <<acked, revoked, snap, job, up, clock>>
        /\ log' = Append(log, line)
    BY <1>15 DEF AppendRevocation, LogWith, Goto, Req, histVars, AckInv
  <2>2. /\ Req.addr \in Addr /\ line \in Line /\ line.addr = Req.addr /\ line.at = job.at
        /\ acked[Req.addr] <= job.at /\ revoked[Req.addr] = job.at /\ Req.since <= job.at
        /\ acked[Req.addr] < Req.writer
    BY <2>1 DEF DeleteSteps, Line, RunInv
  <2> HIDE DEF line
  <2>3. \A a \in Addr : Replayed[a]' = IF a = Req.addr THEN job.at ELSE Replayed[a]
    <3>1. \A a \in Addr : Replayed[a]' = ReplayOf(a, log', snap'[a])
      BY DEF Replayed, ReplayOf, PlacesOf, LastOf
    <3> QED
      BY <2>1, <2>2, <3>1, ReplayedIs, AppendReplays
  <2>4. AckInv'
    BY <2>1, <2>2, <2>3 DEF AckInv
  <2>5. RunInv'
    BY <2>1, <2>2, <2>3 DEF RunInv, DeleteSteps, CopySteps
  <2> QED
    BY <2>4, <2>5
<1>16. CASE WriteSnapshot
  <2>1. /\ pc = "snapshot" /\ pc' = "unlinkLog" /\ Req' = Req
        /\ UNCHANGED <<acked, log, torn, job, up, clock>>
        /\ revoked' = Pruned(revoked) /\ snap' = Pruned(revoked)
    BY <1>16 DEF WriteSnapshot, Goto, Req, histVars
  <2>2. /\ Req.addr \in Addr /\ acked[Req.addr] <= job.at /\ revoked[Req.addr] = job.at
        /\ Req.since <= job.at /\ acked[Req.addr] < Req.writer /\ up
    BY <2>1 DEF DeleteSteps, RunInv, KeepInv
  <2>3. \A a \in Addr : /\ snap'[a] = revoked'[a]
                        /\ revoked'[a] = IF revoked[a] < clock - RevocationKeep THEN 0 ELSE revoked[a]
    BY <2>1 DEF Pruned
  <2>4. snap'[Req.addr] = job.at
    <3>1. Lasts(job.at, clock)
      BY <2>1, OwnRevocationLasts DEF DeleteSteps
    <3> QED
      BY <2>2, <2>3, <3>1 DEF Lasts
  <2>5. \A a \in Addr : Lasts(acked[a], clock) => acked[a] <= snap'[a]
    <3> SUFFICES ASSUME NEW a \in Addr, Lasts(acked[a], clock) PROVE acked[a] <= snap'[a]
      OBVIOUS
    <3>1. acked[a] <= revoked[a] /\ acked[a] \in Nat /\ revoked[a] \in Nat
      BY <2>2 DEF AckInv
    <3> QED
      BY <2>3, <3>1 DEF Lasts
  <2>6. \A a \in Addr : Replayed[a]' = Replayed[a] \/ Replayed[a]' = snap'[a]
    <3>1. \A a \in Addr : Replayed[a]' = ReplayOf(a, log', snap'[a])
      BY DEF Replayed, ReplayOf, PlacesOf, LastOf
    <3> QED
      BY <2>1, <3>1, ReplayedIs DEF ReplayOf
  <2>7. AckInv'
    BY <2>1, <2>3, <2>5, <2>6 DEF AckInv
  <2>8. RunInv'
    BY <2>1, <2>2, <2>3, <2>4, <2>5 DEF RunInv, DeleteSteps, CopySteps
  <2> QED
    BY <2>7, <2>8
<1>17. CASE UnlinkLog
  <2>1. /\ pc = "unlinkLog" /\ pc' = "gather" /\ Req' = Req /\ log' = <<>>
        /\ UNCHANGED <<acked, revoked, snap, job, up, clock>> /\ torn' = FALSE
    BY <1>17 DEF UnlinkLog, Goto, Req, histVars, AckInv
  <2>2. \A a \in Addr : Replayed[a]' = snap[a]
    <3>1. \A a \in Addr : Replayed[a]' = ReplayOf(a, log', snap[a])
      BY <2>1 DEF Replayed, ReplayOf, PlacesOf, LastOf
    <3>2. \A a : PlacesOf(a, <<>>) = {}
      BY DEF PlacesOf
    <3> QED
      BY <2>1, <3>1, <3>2 DEF ReplayOf
  <2>3. Req.addr \in Addr
    BY <2>1 DEF DeleteSteps
  <2>4. AckInv'
    BY <2>1, <2>2 DEF AckInv, RunInv
  <2>5. RunInv'
    BY <2>1, <2>2, <2>3 DEF RunInv, DeleteSteps, CopySteps
  <2> QED
    BY <2>4, <2>5
<1>18. CASE GatherDeleted
  <2>1. pc = "gather" /\ UNCHANGED <<revoked, snap, log, torn, up, clock>>
    BY <1>18 DEF GatherDeleted
  <2>2. CASE Finish("nothing") /\ acked' = [acked EXCEPT ![Req.addr] = job.at]
    BY <1>7, <2>1, <2>2 DEF Finish
  <2>3. CASE /\ job' = [job EXCEPT !.prev = prev[Req.addr]] /\ acked' = acked
             /\ Goto(IF KeepDeleted > 0 THEN "room"
                     ELSE IF prev[Req.addr] # NoRec THEN "unlinkPrev" ELSE "unlinkMain")
    <3>1. job'.at = job.at
      BY <2>3 DEF TypeInv, StoreTypeOK, JobType
    <3>2. PICK step \in CopySteps \cup {"unlinkMain"} : Goto(step)
      BY <2>3 DEF CopySteps
    <3> QED
      BY <2>1, <2>3, <3>1, <3>2, DeleteKeepsRevocations
  <2> QED
    BY <1>18, <2>2, <2>3 DEF GatherDeleted
<1>19. CASE MakeRoom \/ Evict \/ KeepCopy \/ UnlinkPrev
  <2>1. /\ pc \in CopySteps /\ UNCHANGED <<acked, revoked, snap, log, torn, up, clock>>
        /\ \E step \in CopySteps \cup {"unlinkMain"} : Goto(step)
    BY <1>19 DEF MakeRoom, Evict, KeepCopy, AfterTrim, UnlinkPrev, histVars, CopySteps
  <2>2. job'.at = job.at
    BY <1>19 DEF MakeRoom, Evict, KeepCopy, UnlinkPrev, TypeInv, StoreTypeOK, JobType
  <2> QED
    BY <2>1, <2>2, DeleteKeepsRevocations
<1>20. CASE TrimCopy
  <2>1. pc = "trim" /\ UNCHANGED <<acked, revoked, snap, log, torn, up, clock>>
    BY <1>20 DEF TrimCopy, histVars
  <2>2. CASE Finish("unavailable")
    BY <1>5, <2>1, <2>2 DEF Finish
  <2>3. ASSUME NEW d, job' = [job EXCEPT !.trim = @ \ {d}],
               Goto(IF job.trim = {d} THEN AfterTrim ELSE "trim")
        PROVE  AckInv' /\ RunInv'
    <3>1. job'.at = job.at
      BY <2>3 DEF TypeInv, StoreTypeOK, JobType
    <3>2. PICK step \in CopySteps \cup {"unlinkMain"} : Goto(step)
      BY <2>3 DEF CopySteps, AfterTrim
    <3>3. pc \in {"gather"} \cup CopySteps
      BY <2>1 DEF CopySteps
    <3> QED
      BY <2>1, <3>1, <3>2, <3>3, DeleteKeepsRevocations
  <2> QED
    BY <1>20, <2>2, <2>3 DEF TrimCopy
<1> QED
  BY <1>1, <1>2, <1>3, <1>6, <1>8, <1>9, <1>10, <1>11, <1>12, <1>13, <1>14, <1>15, <1>16, <1>17,
     <1>18, <1>19, <1>20
  DEF Next, Ask, AskPut, AskDelete, AskPurge, LaneStep

LEMMA SpecRevInv ==
  ~Tears /\ KeepsLongEnough => (Spec /\ UnlinkWorks => [](WaitInv /\ AckInv /\ RunInv))
<1> SUFFICES ASSUME ~Tears, KeepsLongEnough
             PROVE  Spec /\ UnlinkWorks => [](WaitInv /\ AckInv /\ RunInv)
  OBVIOUS
<1>1. Init => KeepInv /\ WaitInv /\ AckInv /\ RunInv
  <2> SUFFICES ASSUME Init PROVE KeepInv /\ WaitInv /\ AckInv /\ RunInv
    OBVIOUS
  <2>1. \A a \in Addr : Replayed[a] = 0
    BY DEF Init, Replayed
  <2> QED
    BY <2>1 DEF Init, KeepInv, WaitInv, AckInv, RunInv, DeleteSteps, CopySteps
<1>2. TypeInv /\ KeepInv /\ [Next]_vars => KeepInv'
  BY NextKeepInv
<1>3. TypeInv /\ KeepInv /\ WaitInv /\ [Next]_vars => WaitInv'
  BY NextWaitInv
<1>4. /\ TypeInv /\ TypeInv' /\ KeepInv /\ WaitInv /\ AckInv /\ RunInv /\ [Next]_vars
      /\ [pc = "unlinkLog" /\ pc' = "gather" => log' = <<>>]_vars
      => AckInv' /\ RunInv'
  <2> SUFFICES ASSUME TypeInv, TypeInv', KeepInv, WaitInv, AckInv, RunInv, [Next]_vars,
                      [pc = "unlinkLog" /\ pc' = "gather" => log' = <<>>]_vars
               PROVE  AckInv' /\ RunInv'
    OBVIOUS
  <2>1. pc = "unlinkLog" /\ pc' = "gather" => log' = <<>>
    BY DEF vars, laneVars
  <2> QED
    BY <2>1, NextRevInv
<1> QED
  BY <1>1, <1>2, <1>3, <1>4, StoreTypes, PTL DEF Spec, UnlinkWorks

\* The list a DELETE takes away goes only when a restart would find the revocation: also
\* when disk steps of this and of earlier DELETEs failed, and crashes fell between them.
THEOREM RevokedBeforeGone ==
  ~Tears /\ KeepsLongEnough => (Spec /\ UnlinkWorks => RevocationIsDownFirst)
<1> SUFFICES ASSUME ~Tears, KeepsLongEnough PROVE Spec /\ UnlinkWorks => RevocationIsDownFirst
  OBVIOUS
<1>1. ASSUME TypeInv, RunInv, Next, NEW a \in Addr, main[a] # NoRec, main'[a] = NoRec
      PROVE  Replayed[a] >= job.at
  <2>1. UnlinkMain
    <3>1. ASSUME WriteMain PROVE FALSE
      <4>1. Req.addr = a /\ main'[a] = [rev |-> Rev(job.old) + 1, writer |-> Req.writer,
                                        keyId |-> Req.keyId, ct |-> Req.ct]
        BY <1>1, <3>1 DEF WriteMain, TypeInv, StoreTypeOK
      <4>2. Rev(job.old) + 1 \in Nat /\ Req \in PutRequest
        BY <1>1, <3>1, NoRecAssumption
        DEF WriteMain, TypeInv, StoreTypeOK, JobType, File, Record, Rev, LaneShape, PutSteps
      <4> QED
        BY <1>1, <4>1, <4>2, NoRecAssumption DEF PutRequest
    <3> QED
      BY <1>1, <3>1, OnlyWritesTouchFiles
  <2>2. pc = "unlinkMain" /\ Req.addr = a
    BY <1>1, <2>1 DEF UnlinkMain, TypeInv, StoreTypeOK
  <2>3. job.at <= Replayed[a] /\ job.at \in Nat /\ Replayed[a] \in Nat
    BY <1>1, <2>2, RevTypes DEF RunInv
  <2> QED
    BY <2>3
<1>2. TypeInv /\ RunInv /\ [Next]_vars =>
        [\A a \in Addr : main[a] # NoRec /\ main'[a] = NoRec => Replayed[a] >= job.at]_vars
  BY <1>1
<1> QED
  BY <1>2, StoreTypes, SpecRevInv, PTL DEF Spec, RevocationIsDownFirst

\* Once a DELETE has been answered, no session issued up to it changes the list again,
\* whatever was queued, failed, crashed and restarted since, and however many DELETEs and
\* compactions of the log came in between.
THEOREM RevokedForGood ==
  ~Tears /\ KeepsLongEnough => (Spec /\ UnlinkWorks => RevokedSessionChangesNothing)
<1> SUFFICES ASSUME ~Tears, KeepsLongEnough
             PROVE  Spec /\ UnlinkWorks => RevokedSessionChangesNothing
  OBVIOUS
<1>1. ASSUME TypeInv, RunInv, Next, NEW a \in Addr, main'[a] # main[a]
      PROVE  Req.writer > acked[a]
  <2>1. pc \in {"write", "unlinkMain"} /\ Req.addr = a
    BY <1>1, OnlyWritesTouchFiles DEF WriteMain, UnlinkMain, TypeInv, StoreTypeOK
  <2>2. acked[a] < Req.writer /\ acked[a] \in Nat /\ Req.writer \in Nat
    BY <1>1, <2>1, RevTypes DEF RunInv, DeleteSteps, PutSteps
  <2> QED
    BY <2>2
<1>2. TypeInv /\ RunInv /\ [Next]_vars => [\A a \in Addr : main'[a] # main[a] => Req.writer > acked[a]]_vars
  BY <1>1
<1> QED
  BY <1>2, StoreTypes, SpecRevInv, PTL DEF Spec, RevokedSessionChangesNothing

-----------------------------------------------------------------------------
(* Sums over finite sets *)

\* Which member a sum adds next; h adds up F over every part of S.
Pick(s) == CHOOSE x \in s : TRUE
Adds(h, F, S) ==
  h = [s \in SUBSET S |-> IF s = {} THEN 0 ELSE F[Pick(s)] + h[s \ {Pick(s)}]]
Total(F, S) == (CHOOSE h : Adds(h, F, S))[S]

\* A set of naturals that is not empty has a least one.
LEMMA LeastExists ==
  ASSUME NEW T \in SUBSET Nat, T # {}
  PROVE  \E n \in T : \A m \in T : n <= m
<1>1. PICK n \in T : \A m \in T : <<m, n>> \notin OpToRel(<, Nat)
  BY NatLessThanWellFounded, WFMin, Zenon
<1>2. \A m \in T : ~ (m < n)
  BY <1>1, Zenon DEF OpToRel
<1> QED BY <1>2

\* A part of a finite set that is not empty has a member, and is smaller without it.
LEMMA SmallerWithout ==
  ASSUME NEW S, IsFiniteSet(S), NEW s \in SUBSET S, NEW x \in s
  PROVE  /\ s \ {x} \in SUBSET S
         /\ Cardinality(s) \in Nat /\ Cardinality(s \ {x}) \in Nat
         /\ Cardinality(s \ {x}) < Cardinality(s)
<1>1. IsFiniteSet(s)
  BY FS_Subset
<1>2. IsFiniteSet(s \ {x}) /\ Cardinality(s \ {x}) = Cardinality(s) - 1
  BY <1>1, FS_RemoveElement
<1> QED BY <1>1, <1>2, FS_CardinalityType

\* Of the parts of a finite set with a property, one is smallest.
LEMMA SmallestPart ==
  ASSUME NEW S, IsFiniteSet(S), NEW B \in SUBSET SUBSET S, B # {}
  PROVE  \E s \in B : \A r \in B : ~ (Cardinality(r) < Cardinality(s))
<1> DEFINE T == {Cardinality(s) : s \in B}
<1>1. T \in SUBSET Nat /\ T # {}
  BY FS_Subset, FS_CardinalityType
<1>2. PICK n \in T : \A m \in T : n <= m
  BY <1>1, LeastExists
<1>3. PICK s \in B : n = Cardinality(s)
  BY <1>2
<1>4. ASSUME NEW r \in B PROVE ~ (Cardinality(r) < Cardinality(s))
  <2>1. Cardinality(r) \in T /\ Cardinality(r) \in Nat /\ Cardinality(s) \in Nat
    BY <1>1
  <2>2. Cardinality(s) <= Cardinality(r)
    BY <1>2, <1>3, <2>1
  <2> QED BY <2>1, <2>2
<1> QED BY <1>4

\* What is picked from a set that is not empty is a member of it.
LEMMA PickIn == ASSUME NEW s, s # {} PROVE Pick(s) \in s
BY DEF Pick

\* What h is at one part.
LEMMA AddsAt ==
  ASSUME NEW S, NEW F, NEW h, Adds(h, F, S), NEW s \in SUBSET S
  PROVE  h[s] = IF s = {} THEN 0 ELSE F[Pick(s)] + h[s \ {Pick(s)}]
<1>1. h = [t \in SUBSET S |-> IF t = {} THEN 0 ELSE F[Pick(t)] + h[t \ {Pick(t)}]]
  BY DEF Adds
<1> HIDE DEF Pick
<1> QED BY <1>1, Zenon

\* The sum over the parts of a finite set exists.
LEMMA SumExists ==
  ASSUME NEW S, IsFiniteSet(S), NEW F
  PROVE  \E h : Adds(h, F, S)
<1> DEFINE D(n) == {s \in SUBSET S : Cardinality(s) <= n}
           Next1(h, s) == IF s = {} THEN 0 ELSE F[Pick(s)] + h[s \ {Pick(s)}]
           Up(n, h) == h = [s \in D(n) |-> Next1(h, s)]
           Bad == {n \in Nat : ~ \E h : Up(n, h)}
<1>1. ASSUME NEW n \in Nat, NEW h, Up(n, h) PROVE \E g : Up(n + 1, g)
  <2> DEFINE g == [s \in D(n + 1) |-> Next1(h, s)]
  <2>1. ASSUME NEW s \in D(n + 1) PROVE Next1(g, s) = Next1(h, s)
    <3>1. CASE s = {}
      BY <3>1
    <3>2. CASE s # {}
      <4> DEFINE r == s \ {Pick(s)}
      <4>1. /\ r \in SUBSET S /\ Cardinality(r) \in Nat /\ Cardinality(s) \in Nat
            /\ Cardinality(r) < Cardinality(s)
        BY <3>2, PickIn, SmallerWithout
      <4>2. r \in D(n) /\ r \in D(n + 1)
        BY <4>1
      <4>3. g[r] = Next1(h, r) /\ h[r] = Next1(h, r)
        <5> HIDE DEF Next1, D, r
        <5> QED BY <1>1, <4>2
      <4> QED BY <4>3
    <3> QED BY <3>1, <3>2
  <2>2. g = [s \in D(n + 1) |-> Next1(g, s)]
    <3> HIDE DEF Next1, D
    <3> QED BY <2>1
  <2> HIDE DEF g
  <2> QED BY <2>2
<1>2. \E h : Up(0, h)
  <2> DEFINE h == [s \in D(0) |-> 0]
  <2>1. ASSUME NEW s \in D(0) PROVE Next1(h, s) = 0
    <3>1. IsFiniteSet(s) /\ Cardinality(s) \in Nat /\ Cardinality(s) <= 0
      BY FS_Subset, FS_CardinalityType
    <3>2. s = {}
      BY <3>1, FS_EmptySet
    <3> QED BY <3>2
  <2>2. h = [s \in D(0) |-> Next1(h, s)]
    <3> HIDE DEF Next1, D
    <3> QED BY <2>1
  <2> HIDE DEF h
  <2> QED BY <2>2
<1>3. Bad = {}
  <2> SUFFICES ASSUME Bad # {} PROVE FALSE
    OBVIOUS
  <2> HIDE DEF Up
  <2>1. PICK n \in Bad : \A m \in Bad : n <= m
    BY LeastExists
  <2>2. n # 0
    BY <1>2
  <2>3. n - 1 \in Nat /\ ~ (n <= n - 1)
    BY <2>2
  <2>4. n - 1 \notin Bad
    BY <2>1, <2>3
  <2>5. PICK h : Up(n - 1, h)
    BY <2>3, <2>4
  <2>6. \E g : Up((n - 1) + 1, g)
    BY <1>1, <2>3, <2>5
  <2>7. (n - 1) + 1 = n
    BY <2>1
  <2> QED BY <2>6, <2>7
<1>4. Cardinality(S) \in Nat
  BY FS_CardinalityType
<1>5. PICK h : Up(Cardinality(S), h)
  <2> HIDE DEF Up
  <2> QED BY <1>3, <1>4
<1>6. D(Cardinality(S)) = SUBSET S
  BY FS_Subset, FS_CardinalityType
<1> HIDE DEF D
<1> QED BY <1>5, <1>6 DEF Adds

\* A sum of naturals is one.
LEMMA SumTyped ==
  ASSUME NEW S, IsFiniteSet(S), NEW F, \A x \in S : F[x] \in Nat, NEW h, Adds(h, F, S),
         NEW s \in SUBSET S
  PROVE  h[s] \in Nat
<1> DEFINE Bad == {r \in SUBSET S : h[r] \notin Nat}
<1> SUFFICES ASSUME Bad # {} PROVE FALSE
  OBVIOUS
<1>1. PICK r \in Bad : \A q \in Bad : ~ (Cardinality(q) < Cardinality(r))
  BY SmallestPart
<1>2. CASE r = {}
  <2>1. h[r] = 0
    BY <1>2, AddsAt
  <2> QED BY <2>1
<1>3. CASE r # {}
  <2>1. Pick(r) \in r
    BY <1>3, PickIn
  <2>2. r \ {Pick(r)} \in SUBSET S /\ Cardinality(r \ {Pick(r)}) < Cardinality(r)
    BY <2>1, SmallerWithout
  <2>3. h[r \ {Pick(r)}] \in Nat
    BY <1>1, <2>2
  <2>4. F[Pick(r)] \in Nat
    BY <2>1
  <2>5. h[r] = F[Pick(r)] + h[r \ {Pick(r)}]
    BY <1>3, AddsAt
  <2> QED BY <1>1, <2>3, <2>4, <2>5
<1> QED BY <1>2, <1>3

\* Any member may be added last.
LEMMA SumWithout ==
  ASSUME NEW S, IsFiniteSet(S), NEW F, \A x \in S : F[x] \in Nat, NEW h, Adds(h, F, S),
         NEW s \in SUBSET S, NEW y \in s
  PROVE  h[s] = F[y] + h[s \ {y}]
<1> DEFINE Bad == {r \in SUBSET S : \E z \in r : h[r] # F[z] + h[r \ {z}]}
<1> SUFFICES ASSUME Bad # {} PROVE FALSE
  OBVIOUS
<1>1. PICK r \in Bad : \A q \in Bad : ~ (Cardinality(q) < Cardinality(r))
  BY SmallestPart
<1>2. PICK z \in r : h[r] # F[z] + h[r \ {z}]
  OBVIOUS
<1> DEFINE x == Pick(r)
<1>3. x \in r
  BY PickIn
<1>4. h[r] = F[x] + h[r \ {x}]
  BY AddsAt
<1>5. x # z
  BY <1>2, <1>4
<1>6. /\ r \ {x} \in SUBSET S /\ Cardinality(r \ {x}) < Cardinality(r)
      /\ r \ {z} \in SUBSET S /\ Cardinality(r \ {z}) < Cardinality(r)
  BY <1>3, SmallerWithout
<1>7. r \ {x} \notin Bad /\ r \ {z} \notin Bad
  BY <1>1, <1>6
<1> HIDE DEF x
<1>8. h[r \ {x}] = F[z] + h[(r \ {x}) \ {z}] /\ h[r \ {z}] = F[x] + h[(r \ {z}) \ {x}]
  BY <1>3, <1>5, <1>6, <1>7
<1>9. (r \ {x}) \ {z} = (r \ {z}) \ {x}
  OBVIOUS
<1>10. h[(r \ {x}) \ {z}] \in Nat /\ F[x] \in Nat /\ F[z] \in Nat
  BY <1>3, SumTyped
<1>11. \A i, j, k \in Nat : i + (j + k) = j + (i + k)
  OBVIOUS
<1>12. h[r] = F[x] + (F[z] + h[(r \ {x}) \ {z}])
  BY <1>4, <1>8
<1>13. F[z] + h[r \ {z}] = F[z] + (F[x] + h[(r \ {x}) \ {z}])
  BY <1>8, <1>9
<1> QED BY <1>2, <1>10, <1>11, <1>12, <1>13

\* Sums over two sets agree on a part of both where what is added agrees.
LEMMA SumsAgree ==
  ASSUME NEW S, IsFiniteSet(S), NEW R, NEW F, NEW G, NEW h, Adds(h, F, S), NEW g, Adds(g, G, R),
         NEW s \in SUBSET S, s \subseteq R, \A x \in s : F[x] = G[x]
  PROVE  h[s] = g[s]
<1> DEFINE Bad == {r \in SUBSET s : h[r] # g[r]}
<1> SUFFICES ASSUME Bad # {} PROVE FALSE
  OBVIOUS
<1>1. PICK r \in Bad : \A q \in Bad : ~ (Cardinality(q) < Cardinality(r))
  BY FS_Subset, SmallestPart
<1>2. CASE r = {}
  BY <1>1, <1>2, AddsAt
<1>3. CASE r # {}
  <2>1. Pick(r) \in r
    BY <1>3, PickIn
  <2>2. r \ {Pick(r)} \in SUBSET s /\ Cardinality(r \ {Pick(r)}) < Cardinality(r)
    BY <2>1, SmallerWithout
  <2>3. h[r \ {Pick(r)}] = g[r \ {Pick(r)}]
    BY <1>1, <2>2
  <2>4. F[Pick(r)] = G[Pick(r)]
    BY <2>1
  <2>5. h[r] = F[Pick(r)] + h[r \ {Pick(r)}] /\ g[r] = G[Pick(r)] + g[r \ {Pick(r)}]
    BY <1>3, AddsAt
  <2> QED BY <1>1, <2>3, <2>4, <2>5
<1> QED BY <1>2, <1>3

\* The total of F over a finite set.
LEMMA TotalAdds ==
  ASSUME NEW S, IsFiniteSet(S), NEW F
  PROVE  \E h : Adds(h, F, S) /\ Total(F, S) = h[S]
BY SumExists DEF Total

\* It is a natural when the shares are.
LEMMA TotalTyped ==
  ASSUME NEW S, IsFiniteSet(S), NEW F, \A x \in S : F[x] \in Nat
  PROVE  Total(F, S) \in Nat
BY TotalAdds, SumTyped

\* Of nothing it is 0.
LEMMA TotalOfNone == ASSUME NEW F PROVE Total(F, {}) = 0
<1>1. PICK h : Adds(h, F, {}) /\ Total(F, {}) = h[{}]
  BY TotalAdds, FS_EmptySet
<1> QED BY <1>1, AddsAt

\* A member's share apart, the rest may be added up with anything that agrees there.
LEMMA TotalApart ==
  ASSUME NEW S, IsFiniteSet(S), NEW F, \A x \in S : F[x] \in Nat, NEW y \in S,
         NEW G, \A x \in S \ {y} : G[x] = F[x]
  PROVE  Total(F, S) = F[y] + Total(G, S \ {y}) /\ Total(G, S \ {y}) \in Nat
<1>1. PICK h : Adds(h, F, S) /\ Total(F, S) = h[S]
  BY TotalAdds
<1>2. IsFiniteSet(S \ {y})
  BY FS_Subset
<1>3. PICK g : Adds(g, G, S \ {y}) /\ Total(G, S \ {y}) = g[S \ {y}]
  BY <1>2, TotalAdds
<1>4. h[S] = F[y] + h[S \ {y}]
  BY <1>1, SumWithout
<1>5. g[S \ {y}] = h[S \ {y}]
  BY <1>1, <1>2, <1>3, SumsAgree
<1>6. Total(G, S \ {y}) \in Nat
  BY <1>2, TotalTyped
<1> QED BY <1>1, <1>3, <1>4, <1>5, <1>6

\* One share changes.
LEMMA TotalChanges ==
  ASSUME NEW S, IsFiniteSet(S), NEW F, \A x \in S : F[x] \in Nat, NEW y \in S,
         NEW G, \A x \in S : G[x] \in Nat, \A x \in S \ {y} : G[x] = F[x]
  PROVE  Total(G, S) = Total(F, S) + G[y] - F[y]
<1>1. Total(F, S) = F[y] + Total(G, S \ {y}) /\ Total(G, S \ {y}) \in Nat
  BY TotalApart
<1>2. Total(G, S) = G[y] + Total(G, S \ {y})
  BY TotalApart
<1>3. F[y] \in Nat /\ G[y] \in Nat
  OBVIOUS
<1> HIDE DEF Total
<1> QED BY <1>1, <1>2, <1>3

\* What is taken out, and what stays.
LEMMA TotalSplits ==
  ASSUME NEW S, IsFiniteSet(S), NEW F, \A x \in S : F[x] \in Nat, NEW T \in SUBSET S
  PROVE  Total(F, S \ T) = Total(F, S) - Total(F, T)
<1> DEFINE Bad == {R \in SUBSET T : Total(F, S \ R) # Total(F, S) - Total(F, R)}
<1> HIDE DEF Bad
<1> SUFFICES ASSUME Bad # {} PROVE FALSE
  BY DEF Bad
<1>1. PICK R \in Bad : \A q \in Bad : ~ (Cardinality(q) < Cardinality(R))
  BY FS_Subset, SmallestPart DEF Bad
<1>2. R \in SUBSET T /\ Total(F, S \ R) # Total(F, S) - Total(F, R)
  BY DEF Bad
<1>3. CASE R = {}
  <2>1. S \ R = S /\ Total(F, R) = 0 /\ Total(F, S) \in Nat
    BY <1>3, TotalOfNone, TotalTyped
  <2> QED BY <1>2, <2>1
<1>4. CASE R # {}
  <2>1. PICK y \in R : TRUE
    BY <1>4
  <2>2. /\ R \ {y} \in SUBSET S /\ Cardinality(R \ {y}) < Cardinality(R)
        /\ IsFiniteSet(R) /\ IsFiniteSet(S \ R) /\ IsFiniteSet(S \ (R \ {y}))
    BY <1>2, SmallerWithout, FS_Subset
  <2>3. R \ {y} \notin Bad
    BY <1>1, <2>2
  <2>4. Total(F, S \ (R \ {y})) = Total(F, S) - Total(F, R \ {y})
    BY <1>2, <2>3 DEF Bad
  <2>5. Total(F, R) = F[y] + Total(F, R \ {y}) /\ Total(F, R \ {y}) \in Nat
    BY <1>2, <2>2, TotalApart
  <2>6. (S \ (R \ {y})) \ {y} = S \ R
    BY <1>2
  <2>7. y \in S \ (R \ {y})
    BY <1>2
  <2>8. Total(F, S \ (R \ {y})) = F[y] + Total(F, S \ R) /\ Total(F, S \ R) \in Nat
    <3> DEFINE U == S \ (R \ {y})
    <3>1. \A x \in U : F[x] \in Nat
      OBVIOUS
    <3>2. IsFiniteSet(U) /\ y \in U /\ U \ {y} = S \ R
      BY <2>2, <2>6, <2>7
    <3> HIDE DEF U
    <3>3. Total(F, U) = F[y] + Total(F, U \ {y}) /\ Total(F, U \ {y}) \in Nat
      BY <3>1, <3>2, TotalApart
    <3>4. U = S \ (R \ {y})
      BY DEF U
    <3> QED BY <3>2, <3>3, <3>4
  <2>9. F[y] \in Nat /\ Total(F, S) \in Nat
    BY <1>2, TotalTyped
  <2> QED BY <1>2, <2>4, <2>5, <2>8, <2>9
<1> QED BY <1>3, <1>4

\* Shares of 0 add up to 0.
LEMMA TotalOfZeros ==
  ASSUME NEW S, IsFiniteSet(S), NEW F, \A x \in S : F[x] = 0
  PROVE  Total(F, S) = 0
<1>1. PICK h : Adds(h, F, S) /\ Total(F, S) = h[S]
  BY TotalAdds
<1> DEFINE Bad == {r \in SUBSET S : h[r] # 0}
<1> SUFFICES ASSUME Bad # {} PROVE FALSE
  BY <1>1
<1>2. PICK r \in Bad : \A q \in Bad : ~ (Cardinality(q) < Cardinality(r))
  BY SmallestPart
<1>3. r # {}
  BY <1>1, AddsAt
<1>4. Pick(r) \in r
  BY <1>3, PickIn
<1>5. r \ {Pick(r)} \in SUBSET S /\ Cardinality(r \ {Pick(r)}) < Cardinality(r)
  BY <1>4, SmallerWithout
<1>6. h[r \ {Pick(r)}] = 0
  BY <1>2, <1>5
<1>7. F[Pick(r)] = 0
  BY <1>4
<1>8. h[r] = F[Pick(r)] + h[r \ {Pick(r)}]
  <2>1. Adds(h, F, S) /\ r \in SUBSET S
    BY <1>1
  <2> QED BY <1>3, <2>1, AddsAt
<1> QED BY <1>6, <1>7, <1>8

-----------------------------------------------------------------------------
(* The tallies *)

\* What the tallies count: the bytes of an address and of a kept copy, and the totals.
LiveOf == [a \in Addr |-> LiveBytesOf(a)]
KeptBytes == [d \in Copy |-> CopyBytes(d)]
ListCount == Cardinality({a \in Addr : main[a] # NoRec})
LiveTotal == MapThenSumSet(LiveBytesOf, Addr)
KeptTotal(S) == MapThenSumSet(CopyBytes, S)

\* A file, and no file, has a size.
LEMMA BytesTyped == \A f \in File : Bytes(f) \in Nat
BY SizeAssumption DEF File, Record, Bytes

\* A kept copy has a size.
LEMMA KeptBytesTyped ==
  ASSUME NEW S \in SUBSET Copy
  PROVE  \A d \in S : KeptBytes[d] \in Nat
<1> TAKE d \in S
<1>1. d.cur \in File /\ d.prev \in File
  BY DEF Copy
<1>2. Bytes(d.cur) \in Nat /\ Bytes(d.prev) \in Nat
  BY <1>1, BytesTyped
<1> QED BY <1>2 DEF KeptBytes, CopyBytes

\* The live bytes, which the model adds with MapThenSumSet, are a total.
LEMMA LiveIsTotal == LiveTotal = Total(LiveOf, Addr)
<1> DEFINE P(h) == h = [s \in SUBSET Addr |->
                          IF s = {} THEN 0 ELSE LiveBytesOf(Pick(s)) + h[s \ {Pick(s)}]]
<1>1. LiveTotal = (CHOOSE h : P(h))[Addr]
  BY DEF LiveTotal, MapThenSumSet, MapThenFoldSet, Pick
<1>2. ASSUME NEW h PROVE P(h) <=> Adds(h, LiveOf, Addr)
  <2>1. ASSUME NEW s \in SUBSET Addr, s # {} PROVE LiveOf[Pick(s)] = LiveBytesOf(Pick(s))
    BY <2>1, PickIn DEF LiveOf
  <2> HIDE DEF LiveOf
  <2> QED BY <2>1 DEF Adds
<1>3. \E h : Adds(h, LiveOf, Addr) /\ Total(LiveOf, Addr) = h[Addr]
  BY AddrAssumption, TotalAdds
<1>4. P(CHOOSE h : P(h))
  <2> HIDE DEF P
  <2> QED BY <1>2, <1>3, Zenon
<1>5. Adds(CHOOSE h : P(h), LiveOf, Addr)
  <2> HIDE DEF P
  <2> QED BY <1>2, <1>4
<1> QED
  <2> HIDE DEF P
  <2>1. Addr \in SUBSET Addr /\ Addr \subseteq Addr
    OBVIOUS
  <2> QED BY <1>1, <1>3, <1>5, <2>1, AddrAssumption, SumsAgree

\* So are the kept bytes.
LEMMA KeptIsTotal ==
  ASSUME NEW S \in SUBSET Copy, IsFiniteSet(S)
  PROVE  KeptTotal(S) = Total(KeptBytes, S)
<1> DEFINE P(h) == h = [s \in SUBSET S |->
                          IF s = {} THEN 0 ELSE CopyBytes(Pick(s)) + h[s \ {Pick(s)}]]
<1>1. KeptTotal(S) = (CHOOSE h : P(h))[S]
  BY DEF KeptTotal, MapThenSumSet, MapThenFoldSet, Pick
<1>2. ASSUME NEW h PROVE P(h) <=> Adds(h, KeptBytes, S)
  <2>1. ASSUME NEW s \in SUBSET S, s # {} PROVE KeptBytes[Pick(s)] = CopyBytes(Pick(s))
    BY <2>1, PickIn DEF KeptBytes
  <2> HIDE DEF KeptBytes
  <2> QED BY <2>1 DEF Adds
<1>3. \E h : Adds(h, KeptBytes, S) /\ Total(KeptBytes, S) = h[S]
  BY TotalAdds
<1>4. P(CHOOSE h : P(h))
  <2> HIDE DEF P
  <2> QED BY <1>2, <1>3, Zenon
<1>5. Adds(CHOOSE h : P(h), KeptBytes, S)
  <2> HIDE DEF P
  <2> QED BY <1>2, <1>4
<1> QED
  <2> HIDE DEF P
  <2>1. S \in SUBSET S /\ S \subseteq S
    OBVIOUS
  <2> QED BY <1>1, <1>3, <1>5, <2>1, SumsAgree

\* The same after a step.
LEMMA LiveIsTotalNext == LiveTotal' = Total(LiveOf', Addr)
<1>1. (LiveTotal = Total(LiveOf, Addr))'
  BY LiveIsTotal, PTL
<1> QED BY <1>1

\* One address' files change.
LEMMA LiveChanges ==
  ASSUME NEW a \in Addr, main \in [Addr -> File], prev \in [Addr -> File],
         main' \in [Addr -> File], prev' \in [Addr -> File],
         \A x \in Addr \ {a} : main'[x] = main[x] /\ prev'[x] = prev[x]
  PROVE  LiveTotal' = LiveTotal + (Bytes(main'[a]) + Bytes(prev'[a]))
                                - (Bytes(main[a]) + Bytes(prev[a]))
<1>1. \A x \in Addr : LiveOf[x] \in Nat /\ LiveOf'[x] \in Nat
  BY BytesTyped DEF LiveOf, LiveBytesOf
<1>2. \A x \in Addr \ {a} : LiveOf'[x] = LiveOf[x]
  BY DEF LiveOf, LiveBytesOf
<1>3. Total(LiveOf', Addr) = Total(LiveOf, Addr) + LiveOf'[a] - LiveOf[a]
  BY <1>1, <1>2, AddrAssumption, TotalChanges
<1>4. /\ LiveOf'[a] = Bytes(main'[a]) + Bytes(prev'[a])
      /\ LiveOf[a] = Bytes(main[a]) + Bytes(prev[a])
  BY DEF LiveOf, LiveBytesOf
<1> QED BY <1>3, <1>4, LiveIsTotal, LiveIsTotalNext

\* Both counts are naturals.
LEMMA LiveTyped ==
  ASSUME main \in [Addr -> File], prev \in [Addr -> File]
  PROVE  LiveTotal \in Nat /\ ListCount \in Nat
<1>1. \A x \in Addr : LiveOf[x] \in Nat
  BY BytesTyped DEF LiveOf, LiveBytesOf
<1>2. IsFiniteSet({a \in Addr : main[a] # NoRec})
  BY AddrAssumption, FS_Subset
<1> QED BY <1>1, <1>2, AddrAssumption, LiveIsTotal, TotalTyped, FS_CardinalityType
        DEF ListCount

\* A list that is created or goes.
LEMMA AccountsChange ==
  ASSUME NEW a \in Addr, NEW f, main \in [Addr -> File], main' = [main EXCEPT ![a] = f]
  PROVE  ListCount' = ListCount + (IF f = NoRec THEN 0 ELSE 1)
                              - (IF main[a] = NoRec THEN 0 ELSE 1)
<1> DEFINE A == {x \in Addr : main[x] # NoRec}
           B == {x \in Addr : main'[x] # NoRec}
<1>1. IsFiniteSet(A) /\ IsFiniteSet(B) /\ Cardinality(A) \in Nat /\ Cardinality(B) \in Nat
  BY AddrAssumption, FS_Subset, FS_CardinalityType
<1>2. ListCount = Cardinality(A) /\ ListCount' = Cardinality(B)
  BY DEF ListCount
<1>3. A \ {a} = B \ {a} /\ (a \in A <=> main[a] # NoRec) /\ (a \in B <=> f # NoRec)
  OBVIOUS
<1> HIDE DEF A, B
<1>4. Cardinality(A \ {a}) = IF a \in A THEN Cardinality(A) - 1 ELSE Cardinality(A)
  BY <1>1, FS_RemoveElement
<1>5. Cardinality(B \ {a}) = IF a \in B THEN Cardinality(B) - 1 ELSE Cardinality(B)
  BY <1>1, FS_RemoveElement
<1>6. CASE main[a] = NoRec
  BY <1>1, <1>2, <1>3, <1>4, <1>5, <1>6
<1>7. CASE main[a] # NoRec
  BY <1>1, <1>2, <1>3, <1>4, <1>5, <1>7
<1> QED BY <1>6, <1>7

\* The kept copies that are erased.
LEMMA KeptErased ==
  ASSUME NEW D \in SUBSET Copy, IsFiniteSet(D), NEW S \in SUBSET D
  PROVE  /\ KeptTotal(D \ S) = KeptTotal(D) - KeptTotal(S)
         /\ IsFiniteSet(D \ S) /\ KeptTotal(D) \in Nat
<1>1. IsFiniteSet(S) /\ IsFiniteSet(D \ S)
  BY FS_Subset
<1>2. \A d \in D : KeptBytes[d] \in Nat
  BY KeptBytesTyped
<1>3. Total(KeptBytes, D \ S) = Total(KeptBytes, D) - Total(KeptBytes, S)
  BY <1>2, TotalSplits
<1>4. /\ KeptTotal(D) = Total(KeptBytes, D) /\ KeptTotal(S) = Total(KeptBytes, S)
      /\ KeptTotal(D \ S) = Total(KeptBytes, D \ S)
  BY <1>1, KeptIsTotal
<1> QED BY <1>1, <1>2, <1>3, <1>4, TotalTyped

\* The copy that is kept.
LEMMA KeptAdded ==
  ASSUME NEW D \in SUBSET Copy, IsFiniteSet(D), NEW d \in Copy, d \notin D
  PROVE  /\ KeptTotal(D \cup {d}) = KeptTotal(D) + CopyBytes(d)
         /\ IsFiniteSet(D \cup {d})
<1> DEFINE E == D \cup {d}
<1>1. IsFiniteSet(E) /\ d \in E /\ E \ {d} = D /\ E \in SUBSET Copy
  BY FS_AddElement
<1> HIDE DEF E
<1>2. \A e \in E : KeptBytes[e] \in Nat
  BY <1>1, KeptBytesTyped
<1>3. /\ Total(KeptBytes, E) = KeptBytes[d] + Total(KeptBytes, E \ {d})
      /\ Total(KeptBytes, E \ {d}) \in Nat
  BY <1>1, <1>2, TotalApart
<1>4. KeptBytes[d] = CopyBytes(d) /\ KeptBytes[d] \in Nat
  BY <1>1, <1>2 DEF KeptBytes
<1>5. KeptTotal(E) = CopyBytes(d) + KeptTotal(D)
  BY <1>1, <1>3, <1>4, KeptIsTotal
<1>6. KeptTotal(D) \in Nat
  BY <1>1, <1>3, KeptIsTotal
<1>7. KeptTotal(E) = KeptTotal(D) + CopyBytes(d)
  BY <1>4, <1>5, <1>6
<1> QED BY <1>1, <1>7 DEF E

\* While the store is up its tallies are what is on disk, and they are read off the disk
\* again when it starts.
Tallied == IF up THEN tally = [accounts |-> ListCount, live |-> LiveTotal,
                               deleted |-> KeptTotal(deleted)]
           ELSE tally = EmptyTally
\* Between the steps of a save, which .prev there was is remembered.
TallyInv ==
  /\ IsFiniteSet(deleted)
  /\ Tallied
  /\ pc # "idle" => up
  /\ pc = "rotate" => job.prev = prev[Req.addr]

\* Erasing listed copies.
LEMMA EraseTallied ==
  ASSUME TypeInv, TallyInv, up, NEW S \in SUBSET deleted, Erase(S)
  PROVE  /\ IsFiniteSet(deleted')
         /\ tally' = [accounts |-> ListCount, live |-> LiveTotal,
                      deleted |-> KeptTotal(deleted')]
<1>1. deleted \in SUBSET Copy /\ IsFiniteSet(deleted)
  BY DEF TypeInv, StoreTypeOK, TallyInv
<1>2. deleted' = deleted \ S
  BY DEF Erase
<1>3. KeptTotal(deleted') = KeptTotal(deleted) - KeptTotal(S) /\ IsFiniteSet(deleted')
  BY <1>1, <1>2, KeptErased
<1>4. tally' = [tally EXCEPT !.deleted = @ - KeptTotal(S)]
  BY DEF Erase, KeptTotal
<1>5. tally = [accounts |-> ListCount, live |-> LiveTotal, deleted |-> KeptTotal(deleted)]
  BY DEF TallyInv, Tallied
<1> QED BY <1>3, <1>4, <1>5

\* The lists and .prevs stay.
LEMMA SameFiles ==
  ASSUME UNCHANGED <<main, prev>> PROVE UNCHANGED <<LiveTotal, ListCount>>
<1>1. LiveOf' = LiveOf /\ ListCount' = ListCount
  BY DEF LiveOf, LiveBytesOf, ListCount
<1> QED BY <1>1, LiveIsTotal, LiveIsTotalNext

\* A step that leaves the files, the copies, the tallies and the process alone, or goes
\* on with or ends a request.
LEMMA TalliesStay ==
  ASSUME TallyInv, UNCHANGED <<main, prev, deleted, tally, up>>,
         pc' # "idle" => up, pc' = "rotate" => job'.prev = prev[Req'.addr]
  PROVE  TallyInv'
<1>1. UNCHANGED <<LiveTotal, ListCount>>
  BY SameFiles
<1>2. KeptTotal(deleted)' = KeptTotal(deleted)
  BY DEF KeptTotal, MapThenSumSet, MapThenFoldSet, CopyBytes, Bytes
<1>3. Tallied'
  BY <1>1, <1>2 DEF TallyInv, Tallied
<1> QED BY <1>3 DEF TallyInv

\* A step that erases copies, and leaves the rest alone.
LEMMA ErasesTallied ==
  ASSUME TypeInv, TallyInv, up, UNCHANGED <<main, prev, up>>,
         NEW S \in SUBSET deleted, Erase(S),
         pc' = "rotate" => job'.prev = prev[Req'.addr]
  PROVE  TallyInv'
<1>1. UNCHANGED <<LiveTotal, ListCount>>
  BY SameFiles
<1>2. /\ IsFiniteSet(deleted')
      /\ tally' = [accounts |-> ListCount, live |-> LiveTotal, deleted |-> KeptTotal(deleted')]
  BY EraseTallied
<1>3. KeptTotal(deleted)' = KeptTotal(deleted')
  BY DEF KeptTotal, MapThenSumSet, MapThenFoldSet, CopyBytes, Bytes
<1>4. Tallied'
  BY <1>1, <1>2, <1>3 DEF Tallied
<1> QED BY <1>2, <1>4 DEF TallyInv

\* A step of the lane that changes one address's files and tallies it.
LEMMA FilesTallied ==
  ASSUME TypeInv, TypeInv', TallyInv, up, UNCHANGED <<deleted, up>>, pc' # "rotate",
         NEW a \in Addr,
         \A x \in Addr \ {a} : main'[x] = main[x] /\ prev'[x] = prev[x],
         tally' = [accounts |-> ListCount',
                   live |-> LiveTotal + (Bytes(main'[a]) + Bytes(prev'[a]))
                                      - (Bytes(main[a]) + Bytes(prev[a])),
                   deleted |-> KeptTotal(deleted)]
  PROVE  TallyInv'
<1>1. LiveTotal' = LiveTotal + (Bytes(main'[a]) + Bytes(prev'[a]))
                                - (Bytes(main[a]) + Bytes(prev[a]))
  BY LiveChanges DEF TypeInv, StoreTypeOK
<1>2. KeptTotal(deleted)' = KeptTotal(deleted)
  BY DEF KeptTotal, MapThenSumSet, MapThenFoldSet, CopyBytes, Bytes
<1>3. Tallied'
  BY <1>1, <1>2 DEF Tallied
<1> QED BY <1>3 DEF TallyInv

\* Which request runs, while none is answered.
LEMMA SameReq == ASSUME UNCHANGED queue PROVE Req' = Req
BY DEF Req

\* The tallies are what is on disk, after every step.
LEMMA NextTallyInv == TallyInv /\ LaneInv /\ TypeInv /\ TypeInv' /\ [Next]_vars => TallyInv'
<1> SUFFICES ASSUME TallyInv, LaneInv, TypeInv, TypeInv', [Next]_vars PROVE TallyInv'
  OBVIOUS
<1> USE DEF diskVars, memVars, histVars, boundVars
<1>0. (pc # "idle" => up) /\ (pc = "rotate" => job.prev = prev[Req.addr])
  BY DEF TallyInv
<1>1. CASE (\E a \in Addr : Login(a)) \/ (\E s \in sessions : Logout(s)) \/ Tick \/ UNCHANGED vars
  <2>1. UNCHANGED <<main, prev, deleted, tally, up, pc, job, queue>>
    BY <1>1 DEF Login, Logout, Tick, vars, laneVars
  <2> QED BY <1>0, <2>1, SameReq, TalliesStay
<1>2. ASSUME NEW r, Enqueue(r) PROVE TallyInv'
  <2>1. UNCHANGED <<main, prev, deleted, tally, up, pc, job>>
    BY <1>2 DEF Enqueue
  <2>2. pc # "idle" => Req' = Req
    BY <1>2 DEF Enqueue, Req, TypeInv, StoreTypeOK, LaneShape
  <2> QED BY <1>0, <2>1, <2>2, TalliesStay
<1>3. CASE Ask
  BY <1>2, <1>3, Zenon DEF Ask, AskPut, AskDelete, AskPurge
<1>4. CASE RefuseRevoked \/ RefuseDelete \/ DiskError
  <2>1. UNCHANGED <<main, prev, deleted, tally, up>> /\ pc' = "idle"
    BY <1>4 DEF RefuseRevoked, RefuseDelete, DiskError, Finish
  <2> QED BY <2>1, TalliesStay
<1>5. CASE StartDelete \/ AppendRevocation \/ WriteSnapshot \/ UnlinkLog
  <2>1. UNCHANGED <<main, prev, deleted, tally, up>> /\ pc' # "rotate" /\ up
    BY <1>0, <1>5 DEF StartDelete, AppendRevocation, WriteSnapshot, UnlinkLog, Goto,
                      DeleteAllowed, Starts
  <2> QED BY <2>1, TalliesStay
<1>6. CASE RunPurge \/ RefusePut
  <2>1. /\ UNCHANGED <<main, prev, up>> /\ pc' = "idle" /\ up
        /\ Erase({d \in deleted : Expired(d)})
    BY <1>6 DEF RunPurge, RefusePut, PutAllowed, Starts, Finish, Purge
  <2> QED BY <2>1, ErasesTallied
<1>7. CASE StartPut
  <2>1. /\ UNCHANGED <<main, prev, up, queue>> /\ up /\ job' = [NoJob EXCEPT !.old = main[Req.addr],
                                                              !.prev = prev[Req.addr]]
        /\ Erase({d \in deleted : Expired(d)})
    BY <1>7 DEF StartPut, PutAllowed, Starts, Goto, Purge
  <2>2. job'.prev = prev[Req'.addr]
    BY <2>1, SameReq DEF NoJob
  <2> QED BY <2>1, <2>2, ErasesTallied
<1>8. CASE GatherDeleted
  <2>1. /\ UNCHANGED <<main, prev, up>> /\ up /\ pc' # "rotate"
        /\ Erase({d \in deleted : Expired(d)})
    BY <1>0, <1>8 DEF GatherDeleted, Purge, Finish, Goto
  <2> QED BY <2>1, ErasesTallied
<1>9. CASE MakeRoom
  <2>1. UNCHANGED <<main, prev, up>> /\ up /\ pc' # "rotate"
    BY <1>0, <1>9 DEF MakeRoom, Goto
  <2>2. Erase({d \in deleted : Expired(d)}) \/ UNCHANGED <<deleted, tally>>
    BY <1>9 DEF MakeRoom, Purge
  <2> QED BY <2>1, <2>2, ErasesTallied, TalliesStay
<1>10. CASE Evict
  <2>1. PICK d \in NextToEvict : Erase({d})
    BY <1>10 DEF Evict
  <2>2. {d} \in SUBSET deleted
    BY DEF NextToEvict, Oldest, Spare, ButFirst, KeptFor
  <2>3. UNCHANGED <<main, prev, up>> /\ up /\ pc' # "rotate"
    BY <1>0, <1>10 DEF Evict, Goto
  <2> QED BY <2>1, <2>2, <2>3, ErasesTallied
<1>11. CASE TrimCopy
  <2>1. UNCHANGED <<main, prev, up>> /\ up /\ pc' # "rotate"
    BY <1>0, <1>11 DEF TrimCopy, AfterTrim, Goto, Finish
  <2>2. (\E d : Erase(Named(d))) \/ UNCHANGED <<deleted, tally>>
    BY <1>11 DEF TrimCopy
  <2>3. \A d : Named(d) \in SUBSET deleted
    BY DEF Named
  <2> QED BY <2>1, <2>2, <2>3, ErasesTallied, TalliesStay
<1>12. CASE KeepCopy
  <2>1. PICK t \in FreeTimes(Req.addr) :
          deleted' = deleted \cup {[addr |-> Req.addr, at |-> t,
                                    cur |-> job.old, prev |-> job.prev]}
    BY <1>12 DEF KeepCopy
  <2> DEFINE d == [addr |-> Req.addr, at |-> t, cur |-> job.old, prev |-> job.prev]
  <2>2. /\ UNCHANGED <<main, prev, up>> /\ up /\ pc' # "rotate" /\ pc = "keep"
        /\ tally' = [tally EXCEPT !.deleted = @ + (Bytes(job.old) + Bytes(job.prev))]
    BY <1>0, <1>12 DEF KeepCopy, AfterTrim, Goto, NewCopyBytes
  <2>3. d \notin deleted
    BY DEF FreeTimes, Taken
  <2>4. deleted \in SUBSET Copy /\ d \in Copy /\ IsFiniteSet(deleted)
    <3>1. deleted' \subseteq Copy /\ deleted \subseteq Copy
      BY DEF TypeInv, StoreTypeOK
    <3> QED BY <2>1, <3>1 DEF TallyInv
  <2>5. CopyBytes(d) = Bytes(job.old) + Bytes(job.prev)
    BY DEF CopyBytes
  <2>6. deleted' = deleted \cup {d}
    BY <2>1
  <2> HIDE DEF d
  <2>7. KeptTotal(deleted') = KeptTotal(deleted) + CopyBytes(d) /\ IsFiniteSet(deleted')
    BY <2>3, <2>4, <2>6, KeptAdded
  <2>8. tally = [accounts |-> ListCount, live |-> LiveTotal, deleted |-> KeptTotal(deleted)]
    BY <2>2 DEF TallyInv, Tallied
  <2>9. tally' = [accounts |-> ListCount, live |-> LiveTotal, deleted |-> KeptTotal(deleted')]
    BY <2>2, <2>5, <2>7, <2>8
  <2>10. UNCHANGED <<LiveTotal, ListCount>>
    BY <2>2, SameFiles
  <2>11. KeptTotal(deleted)' = KeptTotal(deleted')
    BY DEF KeptTotal, MapThenSumSet, MapThenFoldSet, CopyBytes, Bytes
  <2>12. Tallied'
    BY <2>2, <2>9, <2>10, <2>11 DEF Tallied
  <2> QED BY <2>2, <2>7, <2>12 DEF TallyInv
<1>13. CASE RotatePrev
  <2> DEFINE a == Req.addr
  <2>1. /\ pc = "rotate" /\ UNCHANGED <<main, deleted, up>> /\ up /\ pc' # "rotate"
        /\ prev' = [prev EXCEPT ![a] = job.old]
        /\ tally' = [tally EXCEPT !.live = @ + Bytes(job.old) - Bytes(job.prev)]
    BY <1>0, <1>13 DEF RotatePrev, Goto
  <2>2. a \in Addr /\ job.prev = prev[a] /\ job.old \in File /\ main[a] \in File /\ prev[a] \in File
    BY <1>0, <2>1 DEF TypeInv, StoreTypeOK, JobType, LaneShape, PutSteps, PutRequest
  <2>3. prev'[a] = job.old /\ main'[a] = main[a] /\ \A x \in Addr \ {a} : prev'[x] = prev[x]
    BY <2>1, <2>2 DEF TypeInv, StoreTypeOK
  <2>4. tally = [accounts |-> ListCount, live |-> LiveTotal, deleted |-> KeptTotal(deleted)]
    BY <2>1 DEF TallyInv, Tallied
  <2>5. ListCount' = ListCount
    BY <2>1 DEF ListCount
  <2>6. LiveTotal \in Nat
    BY LiveTyped DEF TypeInv, StoreTypeOK
  <2> HIDE DEF a
  <2>7. \A n, i, j, k \in Nat : n + (i + j) - (i + k) = n + j - k
    OBVIOUS
  <2>8. tally' = [accounts |-> ListCount',
                      live |-> LiveTotal + (Bytes(main'[a]) + Bytes(prev'[a]))
                                         - (Bytes(main[a]) + Bytes(prev[a])),
                      deleted |-> KeptTotal(deleted)]
    <3>1. /\ Bytes(main[a]) \in Nat /\ Bytes(prev[a]) \in Nat /\ Bytes(job.old) \in Nat
      BY <2>2, BytesTyped
    <3>2. LiveTotal + (Bytes(main'[a]) + Bytes(prev'[a])) - (Bytes(main[a]) + Bytes(prev[a]))
            = LiveTotal + Bytes(job.old) - Bytes(job.prev)
      BY <2>2, <2>3, <2>6, <2>7, <3>1
    <3> QED BY <2>1, <2>4, <2>5, <3>2
  <2>9. \A x \in Addr \ {a} : main'[x] = main[x] /\ prev'[x] = prev[x]
    BY <2>1, <2>3
  <2>10. pc' # "rotate" /\ up /\ UNCHANGED <<deleted, up>>
    BY <2>1
  <2> QED BY <2>2, <2>5, <2>8, <2>9, <2>10, FilesTallied
<1>14. CASE UnlinkPrev
  <2> DEFINE a == Req.addr
  <2>1. /\ pc = "unlinkPrev" /\ UNCHANGED <<main, deleted, up>> /\ up /\ pc' # "rotate"
        /\ prev' = [prev EXCEPT ![a] = NoRec]
        /\ tally' = [tally EXCEPT !.live = @ - Bytes(job.prev)]
    BY <1>0, <1>14 DEF UnlinkPrev, Goto
  <2>2. a \in Addr /\ job.prev = prev[a] /\ main[a] \in File /\ prev[a] \in File
    BY <2>1 DEF TypeInv, StoreTypeOK, LaneShape, LaneInv, DeleteSteps, CopySteps, DeleteRequest
  <2>3. /\ prev'[a] = NoRec /\ main'[a] = main[a] /\ Bytes(prev'[a]) = 0
        /\ \A x \in Addr \ {a} : prev'[x] = prev[x]
    BY <2>1, <2>2 DEF TypeInv, StoreTypeOK, Bytes
  <2>4. tally = [accounts |-> ListCount, live |-> LiveTotal, deleted |-> KeptTotal(deleted)]
    BY <2>1 DEF TallyInv, Tallied
  <2>5. ListCount' = ListCount
    BY <2>1 DEF ListCount
  <2>6. LiveTotal \in Nat
    BY LiveTyped DEF TypeInv, StoreTypeOK
  <2> HIDE DEF a
  <2>7. \A n, i, k \in Nat : n + (i + 0) - (i + k) = n - k
    OBVIOUS
  <2>8. tally' = [accounts |-> ListCount',
                      live |-> LiveTotal + (Bytes(main'[a]) + Bytes(prev'[a]))
                                         - (Bytes(main[a]) + Bytes(prev[a])),
                      deleted |-> KeptTotal(deleted)]
    <3>1. /\ Bytes(main[a]) \in Nat /\ Bytes(prev[a]) \in Nat
      BY <2>2, BytesTyped
    <3>2. LiveTotal + (Bytes(main'[a]) + Bytes(prev'[a])) - (Bytes(main[a]) + Bytes(prev[a]))
            = LiveTotal - Bytes(job.prev)
      BY <2>2, <2>3, <2>6, <2>7, <3>1
    <3> QED BY <2>1, <2>4, <2>5, <3>2
  <2>9. \A x \in Addr \ {a} : main'[x] = main[x] /\ prev'[x] = prev[x]
    BY <2>1, <2>3
  <2>10. pc' # "rotate" /\ up /\ UNCHANGED <<deleted, up>>
    BY <2>1
  <2> QED BY <2>2, <2>5, <2>8, <2>9, <2>10, FilesTallied
<1>15. CASE WriteMain
  <2> DEFINE a == Req.addr
             new == [rev |-> Rev(job.old) + 1, writer |-> Req.writer,
                     keyId |-> Req.keyId, ct |-> Req.ct]
  <2>1. /\ pc = "write" /\ UNCHANGED <<prev, deleted, up>> /\ up /\ pc' # "rotate"
        /\ main' = [main EXCEPT ![a] = new]
        /\ tally' = [tally EXCEPT !.live = @ + Size[Req.ct] - Bytes(job.old),
                                  !.accounts = IF job.old = NoRec THEN @ + 1 ELSE @]
    BY <1>0, <1>15 DEF WriteMain, Finish
  <2>2. a \in Addr /\ job.old = main[a] /\ Req.ct \in Blobs /\ Req \in PutRequest
    BY <2>1 DEF TypeInv, StoreTypeOK, LaneShape, LaneInv, PutSteps, PutRequest
  <2>3. main[a] \in File /\ prev[a] \in File /\ main'[a] \in File
    BY <2>2 DEF TypeInv, StoreTypeOK
  <2>4. new # NoRec
    <3>1. Rev(job.old) \in Nat
      BY <2>2, <2>3 DEF Rev, File, Record
    <3>2. new \in [rev: Nat, writer: Nat, keyId: KeyIds, ct: Blobs]
      BY <2>2, <3>1 DEF PutRequest
    <3> QED BY <3>2, NoRecAssumption
  <2>5. /\ main'[a] = new /\ prev'[a] = prev[a] /\ Bytes(main'[a]) = Size[Req.ct]
        /\ \A x \in Addr \ {a} : main'[x] = main[x]
    BY <2>1, <2>2, <2>4 DEF TypeInv, StoreTypeOK, Bytes
  <2>6. tally = [accounts |-> ListCount, live |-> LiveTotal, deleted |-> KeptTotal(deleted)]
    BY <2>1 DEF TallyInv, Tallied
  <2>7. LiveTotal \in Nat /\ ListCount \in Nat
    BY LiveTyped DEF TypeInv, StoreTypeOK
  <2> HIDE DEF a, new
  <2>8. ListCount' = IF job.old = NoRec THEN ListCount + 1 ELSE ListCount
    <3>1. ListCount' = ListCount + (IF new = NoRec THEN 0 ELSE 1)
                               - (IF main[a] = NoRec THEN 0 ELSE 1)
      BY <2>1, <2>2, AccountsChange DEF TypeInv, StoreTypeOK
    <3> QED BY <2>2, <2>4, <2>7, <3>1
  <2>9. \A n, i, j, k \in Nat : n + (j + i) - (k + i) = n + j - k
    OBVIOUS
  <2>10. tally' = [accounts |-> ListCount',
                      live |-> LiveTotal + (Bytes(main'[a]) + Bytes(prev'[a]))
                                         - (Bytes(main[a]) + Bytes(prev[a])),
                      deleted |-> KeptTotal(deleted)]
    <3>1. Bytes(main[a]) \in Nat /\ Bytes(prev[a]) \in Nat /\ Bytes(main'[a]) \in Nat
      BY <2>3, BytesTyped
    <3>2. LiveTotal + (Bytes(main'[a]) + Bytes(prev'[a])) - (Bytes(main[a]) + Bytes(prev[a]))
            = LiveTotal + Size[Req.ct] - Bytes(job.old)
      BY <2>2, <2>5, <2>7, <2>9, <3>1
    <3> QED BY <2>1, <2>6, <2>8, <3>2
  <2> QED BY <2>1, <2>2, <2>5, <2>10, FilesTallied
<1>16. CASE UnlinkMain
  <2> DEFINE a == Req.addr
  <2>1. /\ pc = "unlinkMain" /\ UNCHANGED <<prev, deleted, up>> /\ up /\ pc' # "rotate"
        /\ main' = [main EXCEPT ![a] = NoRec]
        /\ tally' = [tally EXCEPT !.live = @ - Bytes(job.old),
                                  !.accounts = IF job.old # NoRec THEN @ - 1 ELSE @]
    BY <1>0, <1>16 DEF UnlinkMain, Finish
  <2>2. a \in Addr /\ job.old = main[a]
    BY <2>1 DEF TypeInv, StoreTypeOK, LaneShape, LaneInv, DeleteSteps, DeleteRequest
  <2>3. main[a] \in File /\ prev[a] \in File
    BY <2>2 DEF TypeInv, StoreTypeOK
  <2>5. /\ main'[a] = NoRec /\ prev'[a] = prev[a] /\ Bytes(main'[a]) = 0
        /\ \A x \in Addr \ {a} : main'[x] = main[x]
    BY <2>1, <2>2 DEF TypeInv, StoreTypeOK, Bytes
  <2>6. tally = [accounts |-> ListCount, live |-> LiveTotal, deleted |-> KeptTotal(deleted)]
    BY <2>1 DEF TallyInv, Tallied
  <2>7. LiveTotal \in Nat /\ ListCount \in Nat
    BY LiveTyped DEF TypeInv, StoreTypeOK
  <2> HIDE DEF a
  <2>8. ListCount' = IF job.old # NoRec THEN ListCount - 1 ELSE ListCount
    <3>1. ListCount' = ListCount + (IF NoRec = NoRec THEN 0 ELSE 1)
                               - (IF main[a] = NoRec THEN 0 ELSE 1)
      BY <2>1, <2>2, AccountsChange DEF TypeInv, StoreTypeOK
    <3> QED BY <2>2, <2>7, <3>1
  <2>9. \A n, i, k \in Nat : n + (0 + i) - (k + i) = n - k
    OBVIOUS
  <2>10. tally' = [accounts |-> ListCount',
                      live |-> LiveTotal + (Bytes(main'[a]) + Bytes(prev'[a]))
                                         - (Bytes(main[a]) + Bytes(prev[a])),
                      deleted |-> KeptTotal(deleted)]
    <3>1. Bytes(main[a]) \in Nat /\ Bytes(prev[a]) \in Nat
      BY <2>3, BytesTyped
    <3>2. LiveTotal + (Bytes(main'[a]) + Bytes(prev'[a])) - (Bytes(main[a]) + Bytes(prev[a]))
            = LiveTotal - Bytes(job.old)
      BY <2>2, <2>5, <2>7, <2>9, <3>1
    <3> QED BY <2>1, <2>6, <2>8, <3>2
  <2> QED BY <2>1, <2>2, <2>5, <2>10, FilesTallied
<1>17. CASE Crash
  <2>1. up' = FALSE /\ tally' = EmptyTally /\ pc' = "idle" /\ deleted' = deleted
    BY <1>17 DEF Crash
  <2> QED BY <2>1 DEF TallyInv, Tallied
<1>18. CASE Restart
  <2>1. /\ up' = TRUE /\ ~up /\ UNCHANGED <<main, prev, pc>>
        /\ deleted' = {d \in deleted : ~Expired(d)}
        /\ tally' = [accounts |-> ListCount, live |-> LiveTotal,
                     deleted |-> KeptTotal(deleted')]
    BY <1>18 DEF Restart, laneVars, ListCount, LiveTotal, KeptTotal
  <2>2. pc = "idle" /\ IsFiniteSet(deleted')
    BY <1>0, <2>1, FS_Subset DEF TallyInv
  <2>3. UNCHANGED <<LiveTotal, ListCount>>
    BY <2>1, SameFiles
  <2>4. KeptTotal(deleted)' = KeptTotal(deleted')
    BY DEF KeptTotal, MapThenSumSet, MapThenFoldSet, CopyBytes, Bytes
  <2>5. Tallied'
    BY <2>1, <2>3, <2>4 DEF Tallied
  <2> QED BY <2>1, <2>2, <2>5 DEF TallyInv
<1> QED
  BY <1>1, <1>3, <1>4, <1>5, <1>6, <1>7, <1>8, <1>9, <1>10, <1>11, <1>12, <1>13, <1>14,
     <1>15, <1>16, <1>17, <1>18
  DEF Next, LaneStep

\* At the first start there is nothing to count.
LEMMA InitTallyInv == Init => TallyInv
<1> SUFFICES ASSUME Init PROVE TallyInv
  OBVIOUS
<1>1. main = [a \in Addr |-> NoRec] /\ prev = [a \in Addr |-> NoRec] /\ deleted = {}
      /\ up = TRUE /\ pc = "idle" /\ tally = EmptyTally
  BY DEF Init
<1>2. IsFiniteSet(deleted)
  BY <1>1, FS_EmptySet
<1>3. KeptTotal(deleted) = 0
  <2>1. KeptTotal({}) = Total(KeptBytes, {})
    BY FS_EmptySet, KeptIsTotal
  <2> QED BY <1>1, <2>1, TotalOfNone
<1>4. ListCount = 0
  <2>1. {a \in Addr : main[a] # NoRec} = {}
    BY <1>1
  <2> QED BY <2>1, FS_EmptySet DEF ListCount
<1>5. LiveTotal = 0
  <2>1. \A a \in Addr : LiveOf[a] = 0
    BY <1>1 DEF LiveOf, LiveBytesOf, Bytes
  <2> QED BY <2>1, AddrAssumption, TotalOfZeros, LiveIsTotal
<1>6. Tallied
  BY <1>1, <1>3, <1>4, <1>5 DEF Tallied, EmptyTally
<1> QED BY <1>1, <1>2, <1>6 DEF TallyInv

\* Whenever the store is up its three tallies are the accounts, the live bytes and the
\* kept bytes that are on disk: whatever was saved, grown, rotated, deleted, trimmed,
\* evicted, aged out, cut short by a disk error or a crash, and for any number of accounts.
THEOREM TalliesMatch == Spec => []TallyMatchesDisk
<1>1. TallyInv => TallyMatchesDisk
  BY DEF TallyInv, Tallied, TallyMatchesDisk, ListCount, LiveTotal, KeptTotal
<1>2. TallyInv /\ LaneInv /\ TypeInv /\ TypeInv' /\ [Next]_vars => TallyInv'
  BY NextTallyInv
<1> QED
  BY <1>1, <1>2, InitTallyInv, StoreTypes, LaneInvariant, PTL DEF Spec

\* The types of the store's whole state, the byte tallies included: no tally ever goes
\* below zero.
THEOREM StoreTypeInvariant == Spec => []TypeOK
<1>1. TallyInv /\ TypeInv => TypeOK
  <2> SUFFICES ASSUME TallyInv, TypeInv PROVE tally \in [accounts: Nat, live: Nat, deleted: Nat]
    BY DEF TypeInv, TypeOK
  <2>1. LiveTotal \in Nat /\ ListCount \in Nat
    BY LiveTyped DEF TypeInv, StoreTypeOK
  <2>2. KeptTotal(deleted) \in Nat
    BY KeptErased DEF TypeInv, StoreTypeOK, TallyInv
  <2> QED BY <2>1, <2>2 DEF TallyInv, Tallied, EmptyTally
<1>2. TallyInv /\ LaneInv /\ TypeInv /\ TypeInv' /\ [Next]_vars => TallyInv'
  BY NextTallyInv
<1> QED
  BY <1>1, <1>2, InitTallyInv, StoreTypes, LaneInvariant, PTL DEF Spec

-----------------------------------------------------------------------------
(* The dApp's side of the store: the invariant of its sync *)

\* What a copy that any tab may come to read holds: tags that were minted, and
\* tombstones of removals.
Sound(ct) == \A w \in Wallets : /\ ct.live[w] \cup ct.dead[w] \subseteq 1..minted[w]
                                /\ ct.dead[w] \subseteq dropped[w]

\* The tab has taken ct over: its tombstones are the tab's, and a wallet of it that the
\* tab no longer holds was removed by tabs that had held it under every tag of ct.
Heard(t, ct) == \A w \in Wallets :
  /\ ct.dead[w] \subseteq tab[t].tombs[w]
  /\ ct.live[w] \subseteq seen[t][w] \cup dropped[w]
  /\ w \notin tab[t].held => ct.live[w] \subseteq dropped[w]

\* A rev read or written in a life of the copy is not ahead of it, and is its rev now.
Behind(l, b) == l <= life /\ (l = life => b <= RevOf(SavedCopy))
Current(l, b) == l = life /\ b = RevOf(SavedCopy)

\* The tab's fields: a wallet it holds is tagged, except before the first read.
TabShape(t) == LET s == tab[t] IN
  /\ s.sync = "off" => /\ s.call = None /\ s.leave = "no" /\ s.rev = None /\ s.known = None
                       /\ s.tags = Nowhere /\ s.tombs = Nowhere /\ s.untagged = {}
                       /\ pressed[t] = {}
  /\ s.sync # "off" => \A w \in Wallets : w \in s.held <=> w \in s.untagged \/ s.tags[w] # {}
  /\ \A w \in s.untagged : s.tags[w] = {}
  /\ s.untagged # {} => s.rev = None
  /\ s.rev = None => s.known = None /\ Out(t) \notin {"put", "saved"}
  /\ s.leave = "saved" => s.call = None
  /\ \A w \in Wallets : s.tags[w] \cap s.tombs[w] = {}

\* Its tags and tombstones.
TabTags(t) == \A w \in Wallets :
  /\ tab[t].tags[w] \cup tab[t].tombs[w] \subseteq 1..minted[w]
  /\ tab[t].tags[w] \subseteq seen[t][w]
  /\ tab[t].tombs[w] \subseteq dropped[w]

\* What it knows of the copy, and what it is about to know.
TabKnows(t) == LET s == tab[t] IN
  /\ s.known # None => Heard(t, s.known)
  /\ Out(t) \in {"put", "saved"} => Heard(t, s.call.ct)
  /\ s.rev # None => /\ Behind(lifeOf[t], s.rev)
                     /\ Current(lifeOf[t], s.rev) /\ SavedCopy # NoList => s.known = SavedContent

\* A PUT on its way writes over nothing it has not taken over.
PutInv(p) ==
  /\ Sound(p.ct) /\ Behind(p.life, p.base)
  /\ Current(p.life, p.base) =>
       /\ Survives(SavedContent, p.ct)
       /\ \A w \in Wallets : SavedContent.dead[w] \subseteq p.ct.dead[w]

\* The call that is out: a PUT, or an answer that is still true of the rev it names.
TabCall(t) == LET c == tab[t].call IN
  /\ Out(t) = "put" => PutInv(c)
  /\ Out(t) = "saved" => /\ Sound(c.ct) /\ Behind(c.life, c.rev)
                         /\ Current(c.life, c.rev) => c.ct = SavedContent
  /\ Out(t) = "got" => /\ c.copy # NoList => Sound(c.copy.ct)
                       /\ Behind(c.life, RevOf(c.copy))
                       /\ Current(c.life, RevOf(c.copy)) => c.copy = SavedCopy

\* What is not saved is to be saved, or on its way.
TabSaves(t) == LET s == tab[t] IN
  On(t) /\ s.session # "out" /\ ~s.want =>
    /\ s.call = None /\ s.leave \in {"no", "failed"} => s.rev # None /\ Local(s) = s.known
    /\ Out(t) \in {"put", "saved"} => s.call.ct = Local(s)

\* The flush of a leave covers what was held when Lock was pressed.
TabLeaves(t) == LET s == tab[t] IN
  /\ pressed[t] \subseteq s.held
  /\ s.leave = "saved" => s.known # None /\ pressed[t] \subseteq In(s.known)
  /\ s.leave = "out" /\ Out(t) \in {"put", "saved"} => pressed[t] \subseteq In(s.call.ct)

\* The copy is sound, and the PUTs given up on overwrite nothing unheard of.
CopyInv == /\ SavedCopy # NoList => SavedCopy.rev > 0
           /\ Sound(SavedContent)
LateInv == \A p \in late : PutInv(p)

\* What is said of a tab.
TabInv(t) == /\ TabShape(t) /\ TabTags(t) /\ TabKnows(t)
             /\ TabCall(t) /\ TabSaves(t) /\ TabLeaves(t)

\* The invariant.
SyncInv == /\ CopyInv /\ LateInv
           /\ \A t \in Tabs : TabInv(t)
-----------------------------------------------------------------------------
(* The dApp's side: types *)

\* What the calls hold, by what they are.
LEMMA CallTypes ==
  ASSUME NEW c \in Calls
  PROVE  /\ c # None
         /\ c.op = "put" => /\ c.base \in Nat /\ c.key \in Keys /\ c.ct \in Content
                            /\ c.life \in Nat /\ c \in Puts
         /\ c.op = "got" => c.copy \in Lists /\ c.life \in Nat
         /\ c.op = "saved" => c.rev \in Nat /\ c.ct \in Content /\ c.life \in Nat
<1>1. c # None
  BY SyncAssumption DEF SyncAssumption
<1> QED BY <1>1 DEF Calls, Puts

\* No value the tabs keep is the one that stands for none.
LEMMA Nones ==
  /\ \A n \in Nat : n # None
  /\ \A ct \in Content : ct # None
  /\ \A c \in Calls : c # None
  /\ \A k \in Keys : k # None
  /\ Me \in Account /\ Account = {Me}
BY SyncAssumption DEF SyncAssumption

\* The contents that are built are contents.
LEMMA ContentTyped ==
  /\ Nowhere \in [Wallets -> SUBSET Nat]
  /\ Empty \in Content
  /\ \A s \in Tab : Local(s) \in Content
<1>1. Nowhere \in [Wallets -> SUBSET Nat]
  BY DEF Nowhere
<1>2. Empty \in Content
  BY <1>1 DEF Empty, Content
<1>3. ASSUME NEW s \in Tab PROVE Local(s) \in Content
  <2>1. s.tags \in [Wallets -> SUBSET Nat] /\ s.tombs \in [Wallets -> SUBSET Nat]
    BY DEF Tab
  <2>2. [w \in Wallets |-> IF w \in s.held THEN s.tags[w] \ s.tombs[w] ELSE {}]
          \in [Wallets -> SUBSET Nat]
    BY <2>1
  <2> QED BY <2>1, <2>2 DEF Local, Content
<1> QED BY <1>1, <1>2, <1>3

\* A closed tab is a tab.
LEMMA ClosedTyped == Closed \in Tab
<1>1. None \in Nat \cup {None} /\ None \in Content \cup {None} /\ None \in Calls \cup {None}
      /\ None \in Keys \cup {None}
  OBVIOUS
<1> QED BY <1>1, ContentTyped DEF Closed, Tab

\* The copy, its rev and content.
LEMMA SavedTyped ==
  ASSUME list \in [Account -> Lists]
  PROVE  /\ SavedCopy \in Lists /\ RevOf(SavedCopy) \in Nat /\ SavedContent \in Content
         /\ SavedCopy # NoList => /\ SavedCopy.rev \in Nat /\ SavedCopy.keyId \in Keys
                                  /\ SavedCopy.ct \in Content
<1>1. SavedCopy \in Lists
  BY Nones DEF SavedCopy
<1>2. SavedCopy # NoList => /\ SavedCopy.rev \in Nat /\ SavedCopy.keyId \in Keys
                            /\ SavedCopy.ct \in Content
  BY <1>1 DEF Lists
<1> QED BY <1>1, <1>2, ContentTyped DEF RevOf, SavedContent

\* One tab changes.
LEMMA SetTab ==
  ASSUME tab \in [Tabs -> Tab], NEW t \in Tabs, NEW s \in Tab, Set(t, s)
  PROVE  /\ tab' \in [Tabs -> Tab] /\ tab'[t] = s
         /\ \A u \in Tabs \ {t} : tab'[u] = tab[u]
BY DEF Set

\* A tab of its type; a call is out only while there is a sync, and a sync has its key.
TypedTab(s) == /\ s \in Tab /\ s.untagged \subseteq s.held
               /\ IF s.sync = "off" THEN s.call = None ELSE s.key \in Keys

\* What is sent and what is answered are calls.
LEMMA CallsMade ==
  /\ \A o \in {"get", "lost", "conflict", "key_mismatch", "no_session"} : [op |-> o] \in Calls
  /\ \A r \in Lists, l \in Nat : [op |-> "got", copy |-> r, life |-> l] \in Calls
  /\ \A r \in Nat, ct \in Content, l \in Nat :
       [op |-> "saved", rev |-> r, ct |-> ct, life |-> l] \in Calls
  /\ \A b \in Nat, k \in Keys, ct \in Content, l \in Nat :
       [op |-> "put", base |-> b, key |-> k, ct |-> ct, life |-> l] \in Puts
  /\ Puts \subseteq Calls
BY DEF Calls, Puts

\* A call that a dead session refuses is a call still.
LEMMA IssueTyped ==
  ASSUME NEW s \in Tab, NEW c \in Calls PROVE Issue(s, c) \in Calls
BY CallsMade DEF Issue

\* A save that was refused is over, and a flush that waited for it is told or waits on.
LEMMA RefusedIs ==
  ASSUME NEW s, NEW r \in Refused(s)
  PROVE  \E l \in {"no", "due", "failed"} :
           /\ r = [s EXCEPT !.call = None, !.leave = l]
           /\ l = "no" <=> s.leave = "no"
           /\ l = "due" => s.leave = "due" /\ s.rev = None
BY DEF Refused

\* A sync that starts, stops or is blocked keeps the wallets.
LEMMA StatesTyped ==
  ASSUME NEW s \in Tab
  PROVE  /\ s.key \in Keys => TypedTab(Started(s))
         /\ TypedTab(Stopped(s))
         /\ TypedTab(s) => /\ s.sync # "off" => TypedTab(Blocked(s))
                           /\ \A r \in Refused(s) : TypedTab(r)
<1>1. Closed \in Tab /\ Nowhere \in [Wallets -> SUBSET Nat] /\ Closed.untagged = {}
      /\ Closed.sync = "off" /\ Closed.call = None
  BY ClosedTyped, ContentTyped DEF Closed
<1>2. s.key \in Keys => TypedTab(Started(s))
  BY <1>1 DEF TypedTab, Started, Tab
<1>3. TypedTab(Stopped(s))
  BY <1>1 DEF TypedTab, Stopped, Tab
<1>4. TypedTab(s) /\ s.sync # "off" => TypedTab(Blocked(s))
  BY DEF TypedTab, Blocked, Tab
<1>5. ASSUME TypedTab(s), NEW r \in Refused(s) PROVE TypedTab(r)
  <2>1. PICK l \in {"no", "due", "failed"} : r = [s EXCEPT !.call = None, !.leave = l]
    BY RefusedIs
  <2> QED BY <1>5, <2>1 DEF TypedTab, Tab
<1> QED BY <1>2, <1>3, <1>4, <1>5

\* What apply() makes of the wallets.
LEMMA AppliedTyped ==
  ASSUME NEW s, TypedTab(s), NEW ct \in Content, minted \in [Wallets -> Nat]
  PROVE  TypedTab(Applied(s, ct))
<1> DEFINE dead == [w \in Wallets |-> s.tombs[w] \cup ct.dead[w]]
           remote == [w \in Wallets |-> ct.live[w] \ dead[w]]
           tags == [w \in Wallets |->
                      IF w \notin s.untagged THEN (s.tags[w] \cup remote[w]) \ dead[w]
                      ELSE IF remote[w] # {} THEN remote[w] ELSE {minted[w] + 1}]
<1>1. /\ s.tags \in [Wallets -> SUBSET Nat] /\ s.tombs \in [Wallets -> SUBSET Nat]
      /\ ct.live \in [Wallets -> SUBSET Nat] /\ ct.dead \in [Wallets -> SUBSET Nat]
  BY DEF TypedTab, Tab, Content
<1>2. dead \in [Wallets -> SUBSET Nat] /\ remote \in [Wallets -> SUBSET Nat]
  BY <1>1
<1>3. tags \in [Wallets -> SUBSET Nat]
  <2> HIDE DEF dead, remote
  <2> QED BY <1>1, <1>2
<1>4. Applied(s, ct) = [s EXCEPT !.untagged = {}, !.tags = tags, !.tombs = dead,
                                 !.held = {w \in Wallets : tags[w] # {}}]
  BY DEF Applied
<1> HIDE DEF dead, remote, tags
<1> QED BY <1>2, <1>3, <1>4 DEF TypedTab, Tab

\* The types of everything but the ghosts and the bounds.
StateTypes ==
  /\ list \in [Account -> Lists] /\ tab \in [Tabs -> Tab]
  /\ \A t \in Tabs : TypedTab(tab[t])
  /\ late \subseteq Puts /\ minted \in [Wallets -> Nat]

\* The types of the ghosts and of the bounded counters.
GhostTypes ==
  /\ seen \in [Tabs -> [Wallets -> SUBSET Nat]] /\ dropped \in [Wallets -> SUBSET Nat]
  /\ lifeOf \in [Tabs -> Nat] /\ life \in 0..MaxDeletes /\ clobbered \in BOOLEAN
  /\ pressed \in [Tabs -> SUBSET Wallets]
  /\ acts \in 0..MaxActs /\ losses \in 0..MaxLosses

\* Together they are the type invariant.
LEMMA TypesAre == StateTypes /\ GhostTypes => SyncTypeOK
BY DEF SyncTypeOK, StateTypes, GhostTypes, TypedTab

\* The bounds are numbers.
LEMMA BoundTypes == MaxActs \in Nat /\ MaxLosses \in Nat /\ MaxDeletes \in Nat
BY SyncAssumption DEF SyncAssumption

\* The counters.
LEMMA CountersTyped ==
  ASSUME acts \in 0..MaxActs, losses \in 0..MaxLosses, Act \/ Loss \/ Quiet
  PROVE  acts' \in 0..MaxActs /\ losses' \in 0..MaxLosses
BY BoundTypes DEF Act, Loss, Quiet

\* A step of one tab that leaves the server alone.
LEMMA TabStepTypes ==
  ASSUME StateTypes, NEW t \in Tabs, NEW s, TypedTab(s), Set(t, s), UNCHANGED list,
         late' \subseteq Puts, minted' \in [Wallets -> Nat]
  PROVE  StateTypes'
<1>1. /\ tab' \in [Tabs -> Tab] /\ tab'[t] = s /\ \A u \in Tabs \ {t} : tab'[u] = tab[u]
  BY SetTab DEF StateTypes, TypedTab
<1>2. \A u \in Tabs : TypedTab(tab'[u])
  BY <1>1 DEF StateTypes
<1>3. \A u \in Tabs : TypedTab(tab[u])'
  BY <1>2 DEF TypedTab
<1> QED BY <1>1, <1>3 DEF StateTypes

\* What a tab has given up on is a PUT.
LEMMA GivenUpTyped ==
  ASSUME StateTypes, NEW t \in Tabs PROVE GivenUp(t) \subseteq Puts
<1>1. tab[t] \in Tab
  BY DEF StateTypes
<1>2. tab[t].call \in Calls \cup {None}
  BY <1>1 DEF Tab
<1> QED BY <1>2, CallTypes DEF GivenUp, Out

\* What the visitor does keeps the types of the state.
LEMMA VisitTypes ==
  ASSUME StateTypes, NEW t \in Tabs, Visit(t)
  PROVE  StateTypes'
<1> DEFINE s == tab[t]
<1>0. s \in Tab /\ TypedTab(s) /\ minted \in [Wallets -> Nat] /\ late \subseteq Puts
  BY DEF StateTypes
<1> HIDE DEF s
<1>1. CASE Open(t)
  <2>1. SavedCopy # NoList => SavedCopy.keyId \in Keys
    BY SavedTyped DEF StateTypes
  <2>2. PICK k \in Keys : Set(t, Started([s EXCEPT !.session = "good", !.key = k]))
    BY <1>1, <2>1 DEF Open, s
  <2>3. [s EXCEPT !.session = "good", !.key = k] \in Tab
        /\ [s EXCEPT !.session = "good", !.key = k].key \in Keys
    BY <1>0 DEF Tab
  <2>4. TypedTab(Started([s EXCEPT !.session = "good", !.key = k]))
    BY <2>3, StatesTyped
  <2>5. UNCHANGED <<list, late, minted>>
    BY <1>1 DEF Open
  <2> QED BY <1>0, <2>2, <2>4, <2>5, TabStepTypes
<1>2. CASE Close(t)
  <2>1. Set(t, Closed) /\ UNCHANGED <<list, minted>> /\ late' \subseteq Puts
    BY <1>0, <1>2, GivenUpTyped DEF Close
  <2>2. TypedTab(Closed)
    BY ClosedTyped DEF TypedTab, Closed
  <2> QED BY <1>0, <2>1, <2>2, TabStepTypes
<1>3. CASE SignInAgain(t)
  <2>1. Set(t, [s EXCEPT !.session = "good", !.want = TRUE]) /\ UNCHANGED <<list, late, minted>>
    BY <1>3 DEF SignInAgain, s
  <2>2. TypedTab([s EXCEPT !.session = "good", !.want = TRUE])
    BY <1>0 DEF TypedTab, Tab
  <2> QED BY <1>0, <2>1, <2>2, TabStepTypes
<1>4. CASE DeleteSaved(t)
  <2>1. /\ list' = [list EXCEPT ![Me] = NoList] /\ late' = {} /\ UNCHANGED minted
        /\ tab' = [u \in Tabs |-> IF u = t THEN [Stopped(tab[t]) EXCEPT !.session = "out"]
                                  ELSE [tab[u] EXCEPT !.session = IF @ = "good" THEN "stale"
                                                                  ELSE @]]
    BY <1>4 DEF DeleteSaved, Deleted
  <2>2. TypedTab([Stopped(s) EXCEPT !.session = "out"])
    <3>1. TypedTab(Stopped(s))
      BY <1>0, StatesTyped
    <3> QED BY <3>1 DEF TypedTab, Tab
  <2>3. ASSUME NEW u \in Tabs
        PROVE  TypedTab([tab[u] EXCEPT !.session = IF @ = "good" THEN "stale" ELSE @])
    <3>1. TypedTab(tab[u])
      BY DEF StateTypes
    <3> QED BY <3>1 DEF TypedTab, Tab
  <2>4. \A u \in Tabs : TypedTab(tab'[u])
    <3> TAKE u \in Tabs
    <3>1. CASE u = t
      BY <2>1, <2>2, <3>1 DEF s
    <3>2. CASE u # t
      BY <2>1, <2>3, <3>2
    <3> QED BY <3>1, <3>2
  <2>5. tab' \in [Tabs -> Tab]
    <3>1. \A u \in Tabs : tab'[u] \in Tab
      BY <2>4 DEF TypedTab
    <3> QED BY <2>1, <3>1
  <2>6. list' \in [Account -> Lists]
    BY <2>1 DEF StateTypes, Lists
  <2>7. \A u \in Tabs : TypedTab(tab[u])'
    BY <2>4 DEF TypedTab
  <2> QED BY <1>0, <2>1, <2>5, <2>6, <2>7 DEF StateTypes
<1>5. CASE LeaveStart(t)
  <2>1. Set(t, [s EXCEPT !.leave = "due"]) /\ UNCHANGED <<list, late, minted>>
    BY <1>5 DEF LeaveStart, s
  <2>2. TypedTab([s EXCEPT !.leave = "due"])
    BY <1>0 DEF TypedTab, Tab
  <2> QED BY <1>0, <2>1, <2>2, TabStepTypes
<1>6. CASE LeaveOff(t)
  <2>1. Set(t, [s EXCEPT !.leave = "no"]) /\ UNCHANGED <<list, late, minted>>
    BY <1>6 DEF LeaveOff, s
  <2>2. TypedTab([s EXCEPT !.leave = "no"])
    BY <1>0 DEF TypedTab, Tab
  <2> QED BY <1>0, <2>1, <2>2, TabStepTypes
<1>7. ASSUME NEW w \in Wallets, Import(t, w) PROVE StateTypes'
  <2>1. UNCHANGED <<list, late>>
    BY <1>7 DEF Import
  <2>2. CASE s.sync = "off"
    <3>1. Set(t, [s EXCEPT !.held = @ \cup {w}]) /\ UNCHANGED minted
      BY <1>7, <2>2 DEF Import, s
    <3>2. TypedTab([s EXCEPT !.held = @ \cup {w}])
      BY <1>0 DEF TypedTab, Tab
    <3> QED BY <1>0, <2>1, <3>1, <3>2, TabStepTypes
  <2>3. CASE s.sync # "off"
    <3> DEFINE r == [s EXCEPT !.held = @ \cup {w}, !.untagged = @ \ {w},
                              !.tags[w] = {minted[w] + 1}, !.want = s.sync = "on"]
    <3>1. Set(t, r) /\ minted' = [minted EXCEPT ![w] = @ + 1]
      BY <1>7, <2>3 DEF Import, Step, s
    <3>2. minted[w] + 1 \in Nat /\ s.tags \in [Wallets -> SUBSET Nat] /\ (s.sync = "on") \in BOOLEAN
      BY <1>0 DEF Tab
    <3>3. TypedTab(r)
      BY <1>0, <3>2 DEF TypedTab, Tab
    <3>4. minted' \in [Wallets -> Nat]
      BY <1>0, <3>1
    <3> HIDE DEF r
    <3> QED BY <1>0, <2>1, <3>1, <3>3, <3>4, TabStepTypes
  <2> QED BY <2>2, <2>3
<1>8. ASSUME NEW w \in Wallets, Remove(t, w) PROVE StateTypes'
  <2> DEFINE r == [s EXCEPT !.held = @ \ {w}, !.untagged = @ \ {w}, !.tags[w] = {},
                            !.tombs[w] = @ \cup s.tags[w], !.want = s.sync = "on"]
  <2>1. Set(t, r) /\ UNCHANGED <<list, late, minted>>
    BY <1>8 DEF Remove, s
  <2>2. /\ s.tags \in [Wallets -> SUBSET Nat] /\ s.tombs \in [Wallets -> SUBSET Nat]
        /\ (s.sync = "on") \in BOOLEAN
    BY <1>0 DEF Tab
  <2>3. TypedTab(r)
    BY <1>0, <2>2 DEF TypedTab, Tab
  <2> HIDE DEF r
  <2> QED BY <1>0, <2>1, <2>3, TabStepTypes
<1> QED
  BY <1>1, <1>2, <1>3, <1>4, <1>5, <1>6, <1>7, <1>8 DEF Visit

\* So does the sync's own work: every call it makes and every answer it takes.
LEMMA WorkTypes ==
  ASSUME StateTypes, GhostTypes, NEW t \in Tabs, Work(t)
  PROVE  StateTypes'
<1> DEFINE s == tab[t]
<1>0. s \in Tab /\ TypedTab(s) /\ minted \in [Wallets -> Nat] /\ late \subseteq Puts
      /\ s.call \in Calls \cup {None} /\ s.want \in BOOLEAN
      /\ s.leave \in {"no", "due", "out", "saved", "failed"}
      /\ lifeOf[t] \in Nat /\ life \in Nat
  BY BoundTypes DEF StateTypes, GhostTypes, Tab
<1>a. SavedCopy \in Lists
  BY SavedTyped DEF StateTypes
<1>d. s.sync # "off" /\ s.key \in Keys
  <2>1. s.sync = "off" => s.call = None
    BY <1>0 DEF TypedTab
  <2>2. s.sync = "on" \/ s.call # None
    BY <1>0, Nones
    DEF Work, LoadStart, GetServed, GetBack, SaveStart, PutServed, PutSaved, PutConflicts,
        PutMismatches, SessionIsOver, CallFails, Out, On, Idle
  <2> QED BY <1>0, <2>1, <2>2 DEF TypedTab
<1> HIDE DEF s
<1>b. ASSUME NEW c \in Calls \cup {None}, NEW l \in {"no", "due", "out", "saved", "failed"},
             NEW b \in BOOLEAN
      PROVE  TypedTab([s EXCEPT !.call = c, !.leave = l, !.want = b])
  BY <1>0, <1>d DEF TypedTab, Tab
<1>c. ASSUME NEW c \in Calls PROVE TypedTab([s EXCEPT !.call = c])
  BY <1>0, <1>d DEF TypedTab, Tab
<1>1. CASE LoadStart(t)
  <2>1. Issue(s, [op |-> "get"]) \in Calls
    BY <1>0, CallsMade, IssueTyped
  <2>2. Set(t, [s EXCEPT !.want = FALSE, !.call = Issue(s, [op |-> "get"]),
                         !.leave = IF @ = "due" THEN "out" ELSE @])
        /\ UNCHANGED <<list, late, minted>>
    BY <1>1 DEF LoadStart, s
  <2> DEFINE c == Issue(s, [op |-> "get"])
  <2> HIDE DEF c
  <2>3. TypedTab([s EXCEPT !.want = FALSE, !.call = c,
                           !.leave = IF @ = "due" THEN "out" ELSE @])
    BY <1>0, <1>d, <2>1 DEF TypedTab, Tab, c
  <2> QED BY <1>0, <2>2, <2>3, TabStepTypes DEF c
<1>2. CASE GetServed(t)
  <2> DEFINE c == IF s.session = "good" THEN [op |-> "got", copy |-> SavedCopy, life |-> life]
                  ELSE [op |-> "no_session"]
  <2>1. c \in Calls
    BY <1>0, <1>a, CallsMade
  <2>2. Set(t, [s EXCEPT !.call = c]) /\ UNCHANGED <<list, late, minted>>
    BY <1>2 DEF GetServed, s
  <2> HIDE DEF c
  <2> QED BY <1>0, <1>c, <2>1, <2>2, TabStepTypes
<1>3. CASE GetBack(t)
  <2> DEFINE copy == s.call.copy
             ct == IF copy = NoList THEN Empty ELSE copy.ct
             read == [Applied(s, ct) EXCEPT
                        !.rev = RevOf(copy), !.call = None,
                        !.known = IF copy = NoList THEN None ELSE ct]
             done == [read EXCEPT !.want = @ \/ Local(read) # read.known]
  <2>1. copy \in Lists
    BY <1>0, <1>3, Nones, CallTypes DEF GetBack, Out, s
  <2>2. RevOf(copy) \in Nat /\ ct \in Content
    <3> HIDE DEF copy
    <3> QED BY <2>1, ContentTyped DEF RevOf, Lists
  <2>3. TypedTab(Applied(s, ct))
    BY <1>0, <2>2, AppliedTyped
  <2> HIDE DEF copy, ct
  <2>4. TypedTab(read)
    BY <2>2, <2>3, Nones DEF TypedTab, Tab
  <2> HIDE DEF read
  <2>5. TypedTab(done)
    BY <2>4 DEF TypedTab, Tab
  <2> HIDE DEF done
  <2>6. TypedTab(Blocked(s))
    BY <1>0, <1>d, StatesTyped
  <2>7. UNCHANGED <<list, late>>
    BY <1>3 DEF GetBack
  <2>8. CASE copy # NoList /\ copy.keyId # s.key
    <3>1. Set(t, Blocked(s)) /\ UNCHANGED minted
      BY <1>3, <2>8 DEF GetBack, s, copy
    <3> QED BY <1>0, <2>6, <2>7, <3>1, TabStepTypes
  <2>9. CASE ~(copy # NoList /\ copy.keyId # s.key)
    <3>1. Step(t, done)
          /\ minted' = [w \in Wallets |->
                IF read.tags[w] = {minted[w] + 1} THEN minted[w] + 1 ELSE minted[w]]
      BY <1>3, <2>9 DEF GetBack, s, copy, ct, read, done
    <3>2. minted' \in [Wallets -> Nat]
      BY <1>0, <3>1
    <3> QED BY <1>0, <2>5, <2>7, <3>1, <3>2, TabStepTypes DEF Step
  <2> QED BY <2>8, <2>9
<1>4. CASE SaveStart(t)
  <2> DEFINE put == [op |-> "put", base |-> s.rev, key |-> s.key, ct |-> Local(s),
                     life |-> lifeOf[t]]
  <2>1. UNCHANGED <<list, late, minted>>
    BY <1>4 DEF SaveStart
  <2>2. CASE Local(s) = s.known
    <3>1. Set(t, [s EXCEPT !.want = FALSE, !.leave = IF @ = "no" THEN @ ELSE "saved"])
      BY <1>4, <2>2 DEF SaveStart, s
    <3>2. TypedTab([s EXCEPT !.want = FALSE, !.leave = IF @ = "no" THEN @ ELSE "saved"])
      BY <1>0 DEF TypedTab, Tab
    <3> QED BY <1>0, <2>1, <3>1, <3>2, TabStepTypes
  <2>3. CASE Local(s) # s.known
    <3>1. Set(t, [s EXCEPT !.want = FALSE, !.call = Issue(s, put),
                           !.leave = IF @ = "due" THEN "out" ELSE @]) /\ s.rev # None
      BY <1>4, <2>3 DEF SaveStart, s
    <3>2. s.rev \in Nat /\ Local(s) \in Content
      BY <1>0, <3>1, ContentTyped DEF Tab
    <3>3. put \in Calls
      BY <1>0, <1>d, <3>2, CallsMade
    <3> DEFINE c == Issue(s, put)
    <3>4. c \in Calls
      BY <1>0, <3>3, IssueTyped
    <3> HIDE DEF c
    <3>5. TypedTab([s EXCEPT !.want = FALSE, !.call = c,
                             !.leave = IF @ = "due" THEN "out" ELSE @])
      BY <1>0, <1>d, <3>4 DEF TypedTab, Tab
    <3>6. Set(t, [s EXCEPT !.want = FALSE, !.call = c,
                           !.leave = IF @ = "due" THEN "out" ELSE @])
      BY <3>1 DEF c
    <3> QED BY <1>0, <2>1, <3>5, <3>6, TabStepTypes
  <2> QED BY <2>2, <2>3
<1>5. CASE PutServed(t)
  <2> DEFINE p == s.call
  <2>1. p \in Puts /\ p.base \in Nat /\ p.key \in Keys /\ p.ct \in Content /\ p.life \in Nat
    BY <1>0, <1>5, Nones, CallTypes DEF PutServed, Out, s
  <2>2. UNCHANGED <<late, minted>>
    BY <1>5 DEF PutServed
  <2>3. ASSUME NEW o \in {"conflict", "key_mismatch", "no_session"},
               Set(t, [s EXCEPT !.call = [op |-> o]]), UNCHANGED list
        PROVE  StateTypes'
    <3>1. [op |-> o] \in Calls
      BY CallsMade
    <3> QED BY <1>0, <1>c, <2>2, <2>3, <3>1, TabStepTypes
  <2>4. CASE /\ s.session = "good" /\ Accept(p)
             /\ Set(t, [s EXCEPT !.call = [op |-> "saved", rev |-> p.base + 1, ct |-> p.ct,
                                           life |-> life]])
    <3> HIDE DEF p
    <3> DEFINE c == [op |-> "saved", rev |-> p.base + 1, ct |-> p.ct, life |-> life]
    <3>1. c \in Calls
      BY <1>0, <2>1, CallsMade
    <3> HIDE DEF c
    <3>2. TypedTab([s EXCEPT !.call = c]) /\ Set(t, [s EXCEPT !.call = c])
      BY <1>c, <2>4, <3>1 DEF c
    <3>3. list' \in [Account -> Lists]
      BY <2>1, <2>4, Nones DEF Accept, Saved, StateTypes, Lists
    <3>4. /\ tab' \in [Tabs -> Tab] /\ tab'[t] = [s EXCEPT !.call = c]
          /\ \A u \in Tabs \ {t} : tab'[u] = tab[u]
      BY <3>2, SetTab DEF StateTypes, TypedTab
    <3>5. \A u \in Tabs : TypedTab(tab'[u])
      BY <3>2, <3>4 DEF StateTypes
    <3>6. \A u \in Tabs : TypedTab(tab[u])'
      BY <3>5 DEF TypedTab
    <3> QED BY <1>0, <2>2, <3>3, <3>4, <3>6 DEF StateTypes
  <2> QED BY <1>5, <2>3, <2>4 DEF PutServed, s
<1>6. CASE PutSaved(t)
  <2>1. PICK again \in BOOLEAN :
          Set(t, [s EXCEPT !.rev = s.call.rev, !.known = s.call.ct, !.call = None,
                    !.leave = IF @ # "out" THEN @ ELSE IF again THEN "due" ELSE "saved"])
    BY <1>0, <1>6 DEF PutSaved, s
  <2>2. UNCHANGED <<list, late, minted>>
    BY <1>6 DEF PutSaved
  <2>3. s.call.rev \in Nat /\ s.call.ct \in Content
    BY <1>0, <1>6, Nones, CallTypes DEF PutSaved, Out, s
  <2>4. TypedTab([s EXCEPT !.rev = s.call.rev, !.known = s.call.ct, !.call = None,
                    !.leave = IF @ # "out" THEN @ ELSE IF again THEN "due" ELSE "saved"])
    BY <1>0, <1>d, <2>3 DEF TypedTab, Tab
  <2> QED BY <1>0, <2>1, <2>2, <2>4, TabStepTypes
<1>7. CASE PutConflicts(t)
  <2> DEFINE c == Issue(s, [op |-> "get"])
  <2>1. c \in Calls
    BY <1>0, CallsMade, IssueTyped
  <2>2. Set(t, [s EXCEPT !.want = TRUE, !.call = c]) /\ UNCHANGED <<list, late, minted>>
    BY <1>7 DEF PutConflicts, s
  <2> HIDE DEF c
  <2>3. TypedTab([s EXCEPT !.want = TRUE, !.call = c])
    BY <1>0, <1>d, <2>1 DEF TypedTab, Tab
  <2> QED BY <1>0, <2>2, <2>3, TabStepTypes
<1>8. CASE PutMismatches(t)
  <2>1. Set(t, Blocked(s)) /\ UNCHANGED <<list, late, minted>>
    BY <1>8 DEF PutMismatches, s
  <2>2. TypedTab(Blocked(s))
    BY <1>0, <1>d, StatesTyped
  <2> QED BY <1>0, <2>1, <2>2, TabStepTypes
<1>9. CASE SessionIsOver(t)
  <2>1. PICK r \in Refused(s) : Set(t, [r EXCEPT !.session = "out"])
    BY <1>9 DEF SessionIsOver, s
  <2>2. UNCHANGED <<list, late, minted>>
    BY <1>9 DEF SessionIsOver
  <2>3. TypedTab(r)
    BY <1>0, StatesTyped
  <2>4. TypedTab([r EXCEPT !.session = "out"])
    BY <2>3 DEF TypedTab, Tab
  <2> QED BY <1>0, <2>1, <2>2, <2>4, TabStepTypes
<1>10. CASE CallFails(t)
  <2>1. PICK r \in Refused(s) : Set(t, [r EXCEPT !.want = TRUE])
    BY <1>10 DEF CallFails, s
  <2>2. UNCHANGED <<list, late, minted>>
    BY <1>10 DEF CallFails
  <2>3. TypedTab(r)
    BY <1>0, StatesTyped
  <2>4. TypedTab([r EXCEPT !.want = TRUE])
    BY <2>3 DEF TypedTab, Tab
  <2> QED BY <1>0, <2>1, <2>2, <2>4, TabStepTypes
<1> QED
  BY <1>1, <1>2, <1>3, <1>4, <1>5, <1>6, <1>7, <1>8, <1>9, <1>10 DEF Work

\* So do the leave that goes on, the calls and answers that are lost, and late PUTs.
LEMMA OtherTypes ==
  ASSUME StateTypes, NEW t \in Tabs, LeaveEnd(t) \/ DeleteFails(t) \/ Lose(t) \/ Expire(t)
  PROVE  StateTypes'
<1> DEFINE s == tab[t]
<1>0. s \in Tab /\ TypedTab(s) /\ minted \in [Wallets -> Nat] /\ late \subseteq Puts
  BY DEF StateTypes
<1> HIDE DEF s
<1>1. CASE LeaveEnd(t)
  <2>1. Set(t, [Stopped(s) EXCEPT !.held = {}]) /\ UNCHANGED <<list, late, minted>>
    BY <1>1 DEF LeaveEnd, s
  <2>2. TypedTab(Stopped(s))
    BY <1>0, StatesTyped
  <2>3. TypedTab([Stopped(s) EXCEPT !.held = {}])
    BY <2>2 DEF TypedTab, Tab, Stopped, Closed
  <2> QED BY <1>0, <2>1, <2>3, TabStepTypes
<1>2. CASE DeleteFails(t)
  <2>1. Set(t, Started(s)) /\ UNCHANGED <<list, minted>> /\ late' \subseteq Puts
    BY <1>0, <1>2, GivenUpTyped DEF DeleteFails, s
  <2>2. s.sync # "off"
    BY <1>2 DEF DeleteFails, s
  <2>3. TypedTab(Started(s))
    BY <1>0, <2>2, StatesTyped DEF TypedTab
  <2> QED BY <1>0, <2>1, <2>3, TabStepTypes
<1>3. CASE Lose(t)
  <2>1. Set(t, [s EXCEPT !.call = [op |-> "lost"]]) /\ UNCHANGED <<list, minted>>
        /\ late' \subseteq Puts
    BY <1>0, <1>3, GivenUpTyped DEF Lose, s
  <2>2. [op |-> "lost"] \in Calls
    BY CallsMade
  <2>3. s.call # None
    BY <1>3 DEF Lose, Out, s
  <2>4. TypedTab([s EXCEPT !.call = [op |-> "lost"]])
    BY <1>0, <2>2, <2>3 DEF TypedTab, Tab
  <2> QED BY <1>0, <2>1, <2>4, TabStepTypes
<1>4. CASE Expire(t)
  <2>1. Set(t, [s EXCEPT !.session = "stale"]) /\ UNCHANGED <<list, late, minted>>
    BY <1>4 DEF Expire, s
  <2>2. TypedTab([s EXCEPT !.session = "stale"])
    BY <1>0 DEF TypedTab, Tab
  <2> QED BY <1>0, <2>1, <2>2, TabStepTypes
<1> QED BY <1>1, <1>2, <1>3, <1>4

\* A PUT that arrives late keeps the types.
LEMMA LateTypes ==
  ASSUME StateTypes, NEW p \in late, LateServed(p)
  PROVE  StateTypes'
<1>1. p \in Puts /\ late' \subseteq Puts /\ UNCHANGED <<tab, minted>>
      /\ list' = Saved(Me, p.base, p.key, p.ct)
  BY DEF StateTypes, LateServed, Accept
<1>2. p.base \in Nat /\ p.key \in Keys /\ p.ct \in Content
  BY <1>1 DEF Puts
<1>3. list' \in [Account -> Lists]
  BY <1>1, <1>2, Nones DEF Saved, StateTypes, Lists
<1>4. \A u \in Tabs : TypedTab(tab[u])'
  BY <1>1 DEF StateTypes, TypedTab
<1> QED BY <1>1, <1>3, <1>4 DEF StateTypes

\* The tab remembers the tags it holds.
LEMMA StepSeen ==
  ASSUME seen \in [Tabs -> [Wallets -> SUBSET Nat]], NEW t \in Tabs, NEW s, Step(t, s),
         s.tags \in [Wallets -> SUBSET Nat]
  PROVE  /\ seen' \in [Tabs -> [Wallets -> SUBSET Nat]]
         /\ \A w \in Wallets : seen'[t][w] = seen[t][w] \cup s.tags[w]
         /\ \A u \in Tabs \ {t} : seen'[u] = seen[u]
<1>1. [w \in Wallets |-> seen[t][w] \cup s.tags[w]] \in [Wallets -> SUBSET Nat]
  OBVIOUS
<1> QED BY <1>1 DEF Step

\* A sync that ends or begins has held nothing.
LEMMA OverIs ==
  ASSUME GhostTypes, NEW t \in Tabs, Over(t)
  PROVE  /\ seen' \in [Tabs -> [Wallets -> SUBSET Nat]]
         /\ lifeOf' \in [Tabs -> Nat] /\ pressed' \in [Tabs -> SUBSET Wallets]
         /\ seen'[t] = Nowhere /\ lifeOf'[t] = 0 /\ pressed'[t] = {}
         /\ \A u \in Tabs \ {t} : seen'[u] = seen[u] /\ lifeOf'[u] = lifeOf[u]
            /\ pressed'[u] = pressed[u]
BY ContentTyped DEF Over, GhostTypes

\* No step spoils the types of what the properties speak of.
LEMMA NextGhosts ==
  ASSUME StateTypes, GhostTypes, SyncNext
  PROVE  GhostTypes'
<1>0. /\ seen \in [Tabs -> [Wallets -> SUBSET Nat]] /\ dropped \in [Wallets -> SUBSET Nat]
      /\ lifeOf \in [Tabs -> Nat] /\ life \in 0..MaxDeletes /\ clobbered \in BOOLEAN
      /\ pressed \in [Tabs -> SUBSET Wallets] /\ life \in Nat
      /\ minted \in [Wallets -> Nat]
  BY BoundTypes DEF GhostTypes, StateTypes
<1>1. acts' \in 0..MaxActs /\ losses' \in 0..MaxLosses
  <2>1. ASSUME NEW t \in Tabs, Work(t) PROVE Quiet
    <3>1. CASE PutServed(t)
      BY <3>1 DEF PutServed
    <3>2. CASE ~PutServed(t)
      BY <2>1, <3>2 DEF Work, LoadStart, GetServed, GetBack, SaveStart, PutSaved, PutConflicts,
          PutMismatches, SessionIsOver, CallFails
    <3> QED BY <3>1, <3>2
  <2>2. ASSUME NEW t \in Tabs, Visit(t) PROVE Act \/ Quiet
    BY <2>2 DEF Visit, Open, Close, SignInAgain, DeleteSaved, LeaveStart, LeaveOff, Import, Remove
  <2>3. ASSUME NEW t \in Tabs, LeaveEnd(t) \/ DeleteFails(t) \/ Lose(t) \/ Expire(t)
        PROVE  Quiet \/ Loss
    BY <2>3 DEF LeaveEnd, DeleteFails, Lose, Expire
  <2>4. ASSUME NEW p \in late, LateServed(p) PROVE Quiet
    BY <2>4 DEF LateServed
  <2>5. Act \/ Loss \/ Quiet
    BY <2>1, <2>2, <2>3, <2>4, Zenon DEF SyncNext
  <2> QED BY <2>5, CountersTyped DEF GhostTypes
<1>2. CASE UNCHANGED ghosts
  BY <1>0, <1>1, <1>2 DEF GhostTypes, ghosts
<1>3. ASSUME NEW t \in Tabs, Close(t) \/ DeleteSaved(t) \/ DeleteFails(t) \/ LeaveEnd(t)
      PROVE  GhostTypes'
  <2>1. Over(t) /\ UNCHANGED <<dropped, clobbered>> /\ life' \in 0..MaxDeletes
    BY <1>0, <1>3, BoundTypes DEF Close, DeleteSaved, DeleteFails, LeaveEnd
  <2> QED BY <1>0, <1>1, <2>1, OverIs DEF GhostTypes
<1>4. ASSUME NEW t \in Tabs, NEW w \in Wallets, Import(t, w) PROVE GhostTypes'
  <2>1. UNCHANGED <<dropped, lifeOf, life, clobbered, pressed>>
    BY <1>4 DEF Import
  <2>2. CASE UNCHANGED seen
    BY <1>0, <1>1, <2>1, <2>2 DEF GhostTypes
  <2>3. CASE tab[t].sync # "off"
    <3> DEFINE r == [tab[t] EXCEPT !.held = @ \cup {w}, !.untagged = @ \ {w},
                              !.tags[w] = {minted[w] + 1}, !.want = tab[t].sync = "on"]
    <3>1. Step(t, r)
      BY <1>4, <2>3 DEF Import
    <3>2. tab[t] \in Tab /\ tab[t].tags \in [Wallets -> SUBSET Nat] /\ minted[w] + 1 \in Nat
      BY <1>0 DEF StateTypes, Tab
    <3>3. r.tags \in [Wallets -> SUBSET Nat]
      BY <3>2 DEF Tab
    <3> HIDE DEF r
    <3> QED BY <1>0, <1>1, <2>1, <3>1, <3>3, StepSeen DEF GhostTypes
  <2> QED BY <1>4, <2>2, <2>3 DEF Import
<1>5. ASSUME NEW t \in Tabs, NEW w \in Wallets, Remove(t, w) PROVE GhostTypes'
  <2>1. UNCHANGED <<seen, lifeOf, life, clobbered>>
        /\ pressed' = [pressed EXCEPT ![t] = @ \ {w}]
        /\ dropped' \in {dropped, [dropped EXCEPT ![w] = @ \cup seen[t][w]]}
    BY <1>5 DEF Remove
  <2>2. dropped' \in [Wallets -> SUBSET Nat] /\ pressed' \in [Tabs -> SUBSET Wallets]
    BY <1>0, <2>1
  <2> QED BY <1>0, <1>1, <2>1, <2>2 DEF GhostTypes
<1>6. ASSUME NEW t \in Tabs, LeaveStart(t) \/ LeaveOff(t) PROVE GhostTypes'
  <2>1. tab[t].held \in SUBSET Wallets
    BY DEF StateTypes, Tab
  <2>2. UNCHANGED <<seen, dropped, lifeOf, life, clobbered>>
        /\ pressed' \in {[pressed EXCEPT ![t] = tab[t].held], [pressed EXCEPT ![t] = {}]}
    BY <1>6 DEF LeaveStart, LeaveOff
  <2>3. pressed' \in [Tabs -> SUBSET Wallets]
    BY <1>0, <2>1, <2>2
  <2> QED BY <1>0, <1>1, <2>2, <2>3 DEF GhostTypes
<1>7. ASSUME NEW t \in Tabs, GetBack(t) PROVE GhostTypes'
  <2> DEFINE s == tab[t]
             copy == s.call.copy
             ct == IF copy = NoList THEN Empty ELSE copy.ct
             read == [Applied(s, ct) EXCEPT
                        !.rev = RevOf(copy), !.call = None,
                        !.known = IF copy = NoList THEN None ELSE ct]
             done == [read EXCEPT !.want = @ \/ Local(read) # read.known]
  <2>1. UNCHANGED <<dropped, life, clobbered>>
    BY <1>7 DEF GetBack
  <2>2. CASE UNCHANGED <<seen, lifeOf, pressed>>
    BY <1>0, <1>1, <2>1, <2>2 DEF GhostTypes
  <2>3. CASE ~ UNCHANGED <<seen, lifeOf, pressed>>
    <3>1. /\ Step(t, done) /\ lifeOf' = [lifeOf EXCEPT ![t] = s.call.life]
          /\ pressed' = [pressed EXCEPT ![t] = @ \cap read.held]
      BY <1>7, <2>3 DEF GetBack
    <3>2. TypedTab(s) /\ s \in Tab /\ s.call \in Calls \cup {None} /\ s.call # None
          /\ s.call.op = "got"
      BY <1>7 DEF StateTypes, Tab, GetBack, Out
    <3>3. copy \in Lists /\ s.call.life \in Nat
      BY <3>2, CallTypes
    <3>4. ct \in Content
      <4> HIDE DEF copy
      <4> QED BY <3>3, ContentTyped DEF Lists
    <3>5. TypedTab(Applied(s, ct))
      BY <1>0, <3>2, <3>4, AppliedTyped
    <3>6. done.tags = Applied(s, ct).tags /\ read.held = Applied(s, ct).held
      <4> HIDE DEF ct, copy, s
      <4> QED BY <3>5 DEF TypedTab, Tab
    <3> HIDE DEF s, copy, ct, read, done
    <3>7. done.tags \in [Wallets -> SUBSET Nat] /\ read.held \in SUBSET Wallets
      BY <3>5, <3>6 DEF TypedTab, Tab
    <3>8. seen' \in [Tabs -> [Wallets -> SUBSET Nat]]
      BY <1>0, <3>1, <3>7, StepSeen
    <3>9. lifeOf' \in [Tabs -> Nat] /\ pressed' \in [Tabs -> SUBSET Wallets]
      BY <1>0, <3>1, <3>3, <3>7 
    <3> QED BY <1>0, <1>1, <2>1, <3>8, <3>9 DEF GhostTypes
  <2> QED BY <2>2, <2>3
<1>8. ASSUME NEW t \in Tabs, PutServed(t) PROVE GhostTypes'
  <2>1. UNCHANGED <<seen, dropped, lifeOf, life, pressed>> /\ clobbered' \in BOOLEAN
    BY <1>0, <1>8 DEF PutServed, Accept
  <2> QED BY <1>0, <1>1, <2>1 DEF GhostTypes
<1>9. ASSUME NEW p \in late, LateServed(p) PROVE GhostTypes'
  <2>1. UNCHANGED <<seen, dropped, lifeOf, life, pressed>> /\ clobbered' \in BOOLEAN
    BY <1>0, <1>9 DEF LateServed, Accept
  <2> QED BY <1>0, <1>1, <2>1 DEF GhostTypes
<1>10. ASSUME NEW t \in Tabs, PutSaved(t) PROVE GhostTypes'
  <2>1. UNCHANGED <<seen, dropped, life, clobbered, pressed>>
        /\ lifeOf' = [lifeOf EXCEPT ![t] = tab[t].call.life]
    BY <1>10 DEF PutSaved
  <2>2. tab[t].call \in Calls \cup {None} /\ tab[t].call # None /\ tab[t].call.op = "saved"
    BY <1>10 DEF StateTypes, Tab, PutSaved, Out
  <2>3. tab[t].call.life \in Nat
    BY <2>2, CallTypes
  <2>4. lifeOf' \in [Tabs -> Nat]
    BY <1>0, <2>1, <2>3
  <2> QED BY <1>0, <1>1, <2>1, <2>4 DEF GhostTypes
<1>11. ASSUME NEW t \in Tabs,
              \/ LoadStart(t) \/ GetServed(t) \/ SaveStart(t) \/ PutConflicts(t)
              \/ PutMismatches(t) \/ SessionIsOver(t) \/ CallFails(t) \/ Open(t)
              \/ SignInAgain(t) \/ Lose(t) \/ Expire(t)
       PROVE  UNCHANGED ghosts
  BY <1>11 DEF LoadStart, GetServed, SaveStart, PutConflicts, PutMismatches, SessionIsOver,
       CallFails, Open, SignInAgain, Lose, Expire
<1> QED
  BY <1>2, <1>3, <1>4, <1>5, <1>6, <1>7, <1>8, <1>9, <1>10, <1>11 DEF SyncNext, Work, Visit

\* The types of the whole state.
THEOREM SyncTypes == SyncSpec => [](StateTypes /\ GhostTypes)
<1>1. SyncInit => StateTypes /\ GhostTypes
  <2> SUFFICES ASSUME SyncInit PROVE StateTypes /\ GhostTypes
    OBVIOUS
  <2>1. list \in [Account -> Lists]
    BY DEF SyncInit, RegisterInit, Lists
  <2>2. /\ tab = [t \in Tabs |-> Closed] /\ late = {} /\ minted = [w \in Wallets |-> 0]
        /\ seen = [t \in Tabs |-> Nowhere] /\ dropped = Nowhere
        /\ lifeOf = [t \in Tabs |-> 0] /\ life = 0 /\ clobbered = FALSE
        /\ pressed = [t \in Tabs |-> {}] /\ acts = 0 /\ losses = 0
    BY DEF SyncInit
  <2>3. Closed \in Tab /\ TypedTab(Closed)
    BY ClosedTyped DEF TypedTab, Closed
  <2>4. \A t \in Tabs : tab[t] = Closed
    BY <2>2
  <2>5. StateTypes
    <3>1. tab \in [Tabs -> Tab] /\ minted \in [Wallets -> Nat] /\ late \subseteq Puts
      BY <2>2, <2>3
    <3>2. \A t \in Tabs : TypedTab(tab[t])
      BY <2>3, <2>4
    <3> QED BY <2>1, <3>1, <3>2 DEF StateTypes
  <2>6. GhostTypes
    <3>1. Nowhere \in [Wallets -> SUBSET Nat]
      BY ContentTyped
    <3> HIDE DEF Nowhere
    <3>2. /\ seen \in [Tabs -> [Wallets -> SUBSET Nat]] /\ dropped \in [Wallets -> SUBSET Nat]
          /\ lifeOf \in [Tabs -> Nat] /\ pressed \in [Tabs -> SUBSET Wallets]
      BY <2>2, <3>1
    <3>3. 0 \in 0..MaxDeletes /\ 0 \in 0..MaxActs /\ 0 \in 0..MaxLosses
      BY BoundTypes
    <3> QED BY <2>2, <3>2, <3>3 DEF GhostTypes
  <2> QED BY <2>5, <2>6
<1>2. StateTypes /\ GhostTypes /\ [SyncNext]_syncVars => StateTypes' /\ GhostTypes'
  <2> SUFFICES ASSUME StateTypes, GhostTypes, [SyncNext]_syncVars
               PROVE  StateTypes' /\ GhostTypes'
    OBVIOUS
  <2>1. CASE UNCHANGED syncVars
    <3>1. (\A t \in Tabs : TypedTab(tab[t]))'
      BY <2>1 DEF syncVars, StateTypes, TypedTab
    <3> QED BY <2>1, <3>1 DEF syncVars, ghosts, StateTypes, GhostTypes
  <2>2. CASE SyncNext
    <3>1. StateTypes'
      BY <2>2, WorkTypes, VisitTypes, OtherTypes, LateTypes DEF SyncNext
    <3> QED BY <2>2, <3>1, NextGhosts
  <2> QED BY <2>1, <2>2
<1> QED BY <1>1, <1>2, PTL DEF SyncSpec

\* Every state of the sync is of its type: what vaultSync.js keeps in a tab, what is on
\* its way and what the server holds.
THEOREM SyncTypeInvariant == SyncSpec => []SyncTypeOK
<1>1. StateTypes /\ GhostTypes => SyncTypeOK
  BY TypesAre
<1> QED BY <1>1, SyncTypes, PTL

\* The types, as the invariant uses them.
Types == StateTypes /\ GhostTypes

-----------------------------------------------------------------------------
(* The dApp's side: what a tab knows stays true while others move *)

\* The copy stays, is saved over or is deleted; tags are minted and removed.
CopyMoves == \/ UNCHANGED <<list, life>>
             \/ life' = life + 1
             \/ life' = life /\ RevOf(SavedCopy') = RevOf(SavedCopy) + 1
Grows == \A w \in Wallets : minted[w] <= minted'[w] /\ dropped[w] \subseteq dropped'[w]

\* A rev that is not ahead of the copy never gets ahead of it, and one that the copy has
\* left behind is never its rev again.
LEMMA BehindStays ==
  ASSUME Types, Types', CopyMoves, NEW l \in Nat, NEW b \in Nat, Behind(l, b)
  PROVE  /\ Behind(l, b)'
         /\ Current(l, b)' => Current(l, b) /\ UNCHANGED <<list, life>>
<1>1. life \in Nat /\ RevOf(SavedCopy) \in Nat
  BY SavedTyped, BoundTypes DEF Types, StateTypes, GhostTypes
<1>2. CASE UNCHANGED <<list, life>>
  BY <1>2 DEF Behind, Current, SavedCopy
<1>3. CASE ~UNCHANGED <<list, life>>
  BY <1>1, <1>3 DEF CopyMoves, Behind, Current
<1> QED BY <1>2, <1>3

\* What was minted and removed stays so.
LEMMA SoundStays ==
  ASSUME Types, Types', Grows, NEW ct \in Content, Sound(ct)
  PROVE  Sound(ct)'
<1> SUFFICES ASSUME NEW w \in Wallets
             PROVE  /\ ct.live[w] \cup ct.dead[w] \subseteq 1..minted'[w]
                    /\ ct.dead[w] \subseteq dropped'[w]
  BY DEF Sound
<1>1. minted[w] \in Nat /\ minted'[w] \in Nat /\ minted[w] <= minted'[w]
  BY DEF Types, StateTypes, Grows
<1>2. 1..minted[w] \subseteq 1..minted'[w]
  BY <1>1
<1> QED BY <1>2 DEF Sound, Grows

\* A PUT on its way that overwrites nothing its sender had not heard of never comes to:
\* once the copy moves, its base is refused.
LEMMA PutStays ==
  ASSUME Types, Types', CopyMoves, Grows, NEW p \in Puts, PutInv(p)
  PROVE  PutInv(p)'
<1>1. p.ct \in Content /\ p.base \in Nat /\ p.life \in Nat
  BY DEF Puts
<1>2. Sound(p.ct)'
  BY <1>1, SoundStays DEF PutInv
<1>3. Behind(p.life, p.base)'
      /\ (Current(p.life, p.base)' => Current(p.life, p.base) /\ UNCHANGED <<list, life>>)
  BY <1>1, BehindStays DEF PutInv
<1>4. ASSUME Current(p.life, p.base)'
      PROVE  (Survives(SavedContent, p.ct)
               /\ \A w \in Wallets : SavedContent.dead[w] \subseteq p.ct.dead[w])'
  <2>1. SavedContent' = SavedContent
    BY <1>3, <1>4 DEF SavedContent, SavedCopy
  <2>2. Survives(SavedContent, p.ct)
        /\ \A w \in Wallets : SavedContent.dead[w] \subseteq p.ct.dead[w]
    BY <1>3, <1>4 DEF PutInv
  <2> HIDE DEF SavedContent
  <2>3. \A w \in In(SavedContent) \ In(p.ct) : SavedContent'.live[w] \subseteq dropped'[w]
    BY <2>1, <2>2 DEF Survives, In, Grows
  <2> QED BY <2>1, <2>2, <2>3 DEF Survives, In
<1> QED BY <1>2, <1>3, <1>4 DEF PutInv

\* What the tab has taken over it still has, while its wallets stay as they are.
LEMMA HeardStays ==
  ASSUME Types, Types', Grows, NEW t \in Tabs, NEW ct, Heard(t, ct), tab'[t].tombs = tab[t].tombs,
         tab'[t].held = tab[t].held, seen'[t] = seen[t]
  PROVE  Heard(t, ct)'
BY DEF Heard, Grows

\* A tab that does not move keeps what is said of it, while the copy, the tags and other
\* tabs move; so does one whose session another tab has ended.
LEMMA OtherTabStays ==
  ASSUME Types, Types', CopyMoves, Grows, NEW u \in Tabs, TabInv(u), NEW x,
         tab'[u] = [tab[u] EXCEPT !.session = x], tab[u].session = "out" => x = "out",
         seen'[u] = seen[u], lifeOf'[u] = lifeOf[u], pressed'[u] = pressed[u]
  PROVE  TabInv(u)'
<1> DEFINE s == tab[u]
           r == tab'[u]
<1>0. s \in Tab /\ s.call \in Calls \cup {None} /\ s.rev \in Nat \cup {None} /\ lifeOf[u] \in Nat
  BY DEF Types, StateTypes, GhostTypes, Tab
<1>1. /\ r.sync = s.sync /\ r.key = s.key /\ r.held = s.held /\ r.untagged = s.untagged
      /\ r.tags = s.tags /\ r.tombs = s.tombs /\ r.rev = s.rev /\ r.known = s.known
      /\ r.want = s.want /\ r.call = s.call /\ r.leave = s.leave /\ r.session = x
  BY <1>0 DEF Tab
<1>2. TabShape(u) /\ TabTags(u) /\ TabKnows(u) /\ TabCall(u) /\ TabSaves(u) /\ TabLeaves(u)
  BY DEF TabInv
<1>3. Out(u)' = Out(u) /\ On(u)' = On(u)
  BY <1>1 DEF Out, On
<1>4. Local(r) = Local(s)
  BY <1>1 DEF Local
<1>5. TabShape(u)'
  BY <1>1, <1>2, <1>3 DEF TabShape
<1>6. TabTags(u)'
  <2> SUFFICES ASSUME NEW w \in Wallets
               PROVE  /\ r.tags[w] \cup r.tombs[w] \subseteq 1..minted'[w]
                      /\ r.tags[w] \subseteq seen'[u][w] /\ r.tombs[w] \subseteq dropped'[w]
    BY DEF TabTags
  <2>1. minted[w] \in Nat /\ minted'[w] \in Nat /\ minted[w] <= minted'[w]
        /\ dropped[w] \subseteq dropped'[w]
    BY DEF Types, StateTypes, Grows
  <2>2. 1..minted[w] \subseteq 1..minted'[w]
    BY <2>1
  <2> QED BY <1>1, <1>2, <2>1, <2>2 DEF TabTags
<1>7. TabKnows(u)'
  <2>1. \A ct : Heard(u, ct) => Heard(u, ct)'
    BY <1>1, HeardStays
  <2>2. s.rev # None => /\ Behind(lifeOf[u], s.rev)'
                        /\ Current(lifeOf[u], s.rev)' => Current(lifeOf[u], s.rev)
                           /\ UNCHANGED <<list, life>>
    BY <1>0, <1>2, BehindStays DEF TabKnows
  <2>3. UNCHANGED list => UNCHANGED <<SavedCopy, SavedContent>>
    BY DEF SavedCopy, SavedContent
  <2>4. /\ s.known # None => Heard(u, s.known)
        /\ Out(u) \in {"put", "saved"} => Heard(u, s.call.ct)
        /\ s.rev # None
           => (Current(lifeOf[u], s.rev) /\ SavedCopy # NoList => s.known = SavedContent)
    BY <1>2 DEF TabKnows
  <2>5. (s.known # None => Heard(u, s.known)')
        /\ (Out(u) \in {"put", "saved"} => Heard(u, s.call.ct)')
    BY <2>1, <2>4
  <2> HIDE DEF SavedCopy, SavedContent, r, s
  <2> QED BY <1>1, <1>3, <2>2, <2>3, <2>4, <2>5 DEF TabKnows, s, r
<1>8. TabCall(u)'
  <2> DEFINE c == s.call
  <2>1. /\ Out(u) = "put" => c \in Puts /\ PutInv(c)
        /\ Out(u) = "saved" => /\ c.rev \in Nat /\ c.ct \in Content /\ c.life \in Nat
                               /\ Sound(c.ct) /\ Behind(c.life, c.rev)
                               /\ Current(c.life, c.rev) => c.ct = SavedContent
        /\ Out(u) = "got" => /\ c.copy \in Lists /\ c.life \in Nat
                             /\ c.copy # NoList => Sound(c.copy.ct)
                             /\ Behind(c.life, RevOf(c.copy))
                             /\ Current(c.life, RevOf(c.copy)) => c.copy = SavedCopy
    BY <1>0, <1>2, CallTypes, Zenon DEF TabCall, Out
  <2>2. UNCHANGED list => UNCHANGED <<SavedCopy, SavedContent>>
    BY DEF SavedCopy, SavedContent
  <2>3. Out(u) = "put" => PutInv(c)'
    BY <2>1, PutStays
  <2>4. ASSUME Out(u) = "saved"
        PROVE  /\ Sound(c.ct)' /\ Behind(c.life, c.rev)'
               /\ Current(c.life, c.rev)' => c.ct = SavedContent'
    <3>1. c' = c
      BY <1>1
    <3> HIDE DEF c
    <3>2. Sound(c.ct)'
      BY <2>1, <2>4, <3>1, SoundStays
    <3>3. Behind(c.life, c.rev)'
          /\ (Current(c.life, c.rev)' => Current(c.life, c.rev) /\ UNCHANGED <<list, life>>)
      BY <2>1, <2>4, <3>1, BehindStays
    <3> QED BY <2>1, <2>2, <2>4, <3>2, <3>3
  <2>5. ASSUME Out(u) = "got"
        PROVE  /\ c.copy # NoList => Sound(c.copy.ct)'
               /\ Behind(c.life, RevOf(c.copy))'
               /\ Current(c.life, RevOf(c.copy))' => c.copy = SavedCopy'
    <3>1. c' = c
      BY <1>1
    <3> HIDE DEF c
    <3>2. c.copy # NoList => c.copy.ct \in Content /\ c.copy.rev \in Nat
      BY <2>1, <2>5 DEF Lists
    <3>3. c.copy # NoList => Sound(c.copy.ct)'
      BY <2>1, <2>5, <3>1, <3>2, SoundStays
    <3>4. RevOf(c.copy) \in Nat
      BY <3>2 DEF RevOf
    <3>5. Behind(c.life, RevOf(c.copy))'
          /\ (Current(c.life, RevOf(c.copy))'
                => Current(c.life, RevOf(c.copy)) /\ UNCHANGED <<list, life>>)
      BY <2>1, <2>5, <3>1, <3>4, BehindStays
    <3> QED BY <2>1, <2>2, <2>5, <3>3, <3>5
  <2>6. tab'[u].call = c /\ Out(u)' = Out(u)
    BY <1>1, <1>3
  <2> QED BY <1>1, <2>3, <2>4, <2>5, <2>6 DEF TabCall
<1>9. TabSaves(u)'
  BY <1>1, <1>2, <1>3, <1>4 DEF TabSaves
<1>10. TabLeaves(u)'
  BY <1>1, <1>2, <1>3 DEF TabLeaves
<1> QED BY <1>5, <1>6, <1>7, <1>8, <1>9, <1>10 DEF TabInv

\* A tab without a sync, or with one that has read nothing yet.
LEMMA FreshTab ==
  ASSUME Types', NEW t \in Tabs, tab'[t].tags = Nowhere, tab'[t].tombs = Nowhere,
         tab'[t].rev = None, tab'[t].known = None, tab'[t].call = None, tab'[t].leave = "no",
         pressed'[t] = {},
         \/ tab'[t].sync = "off" /\ tab'[t].untagged = {}
         \/ tab'[t].sync = "on" /\ tab'[t].untagged = tab'[t].held /\ tab'[t].want
  PROVE  TabInv(t)'
<1>1. \A w \in Wallets : tab'[t].tags[w] = {} /\ tab'[t].tombs[w] = {}
  BY DEF Nowhere
<1>2. Out(t)' = "none"
  BY DEF Out
<1>3. TabShape(t)'
  <2>1. tab'[t].untagged \subseteq Wallets
    BY DEF Types, StateTypes, Tab
  <2> QED BY <1>1, <1>2, <2>1 DEF TabShape
<1>4. TabTags(t)' /\ TabKnows(t)' /\ TabCall(t)' /\ TabSaves(t)' /\ TabLeaves(t)'
  BY <1>1, <1>2 DEF TabTags, TabKnows, TabCall, TabSaves, TabLeaves, On
<1> QED BY <1>3, <1>4 DEF TabInv

\* The copy stays sound while it stays.
LEMMA CopyStays ==
  ASSUME Types, Types', CopyInv, Grows, UNCHANGED list
  PROVE  CopyInv'
<1>1. SavedContent \in Content /\ UNCHANGED <<SavedCopy, SavedContent>>
  BY SavedTyped DEF Types, StateTypes, SavedCopy, SavedContent
<1> HIDE DEF SavedCopy, SavedContent
<1>2. Sound(SavedContent)'
  BY <1>1, SoundStays DEF CopyInv
<1> QED BY <1>1, <1>2 DEF CopyInv

\* A tab moves, the others stay as they are.
OthersStay(t) == \A u \in Tabs \ {t} : tab'[u] = tab[u] /\ seen'[u] = seen[u]
                                      /\ lifeOf'[u] = lifeOf[u] /\ pressed'[u] = pressed[u]

\* A tab that stays keeps its session.
LEMMA SameSession ==
  ASSUME Types, NEW u \in Tabs, tab'[u] = tab[u]
  PROVE  tab'[u] = [tab[u] EXCEPT !.session = tab[u].session]
<1>1. tab[u] \in Tab
  BY DEF Types, StateTypes
<1> QED BY <1>1 DEF Tab

\* The PUTs given up on, and the one a tab gives up on now, keep what is said of them.
LEMMA LateStays ==
  ASSUME Types, Types', SyncInv, CopyMoves, Grows, NEW t \in Tabs,
         late' \subseteq late \cup GivenUp(t)
  PROVE  LateInv'
<1>1. ASSUME NEW p \in late' PROVE PutInv(p)'
  <2>1. CASE p \in late
    BY <2>1, PutStays DEF SyncInv, TabInv, LateInv, Types, StateTypes
  <2>2. CASE p \in GivenUp(t)
    <3>1. p = tab[t].call /\ Out(t) = "put"
      BY <2>2 DEF GivenUp
    <3>2. PutInv(tab[t].call)
      BY <3>1 DEF SyncInv, TabInv, TabCall
    <3>3. p \in Puts
      BY <2>2, GivenUpTyped DEF Types
    <3>4. PutInv(p)
      BY <3>1, <3>2
    <3> QED BY <3>3, <3>4, PutStays
  <2> QED BY <1>1, <2>1, <2>2
<1> QED BY <1>1 DEF LateInv

\* When one tab moves, its own part of the invariant is all there is to show.
LEMMA OneTabMoves ==
  ASSUME Types, Types', SyncInv, CopyMoves, Grows, NEW t \in Tabs, TabInv(t)', CopyInv',
         OthersStay(t), late' \subseteq late \cup GivenUp(t)
  PROVE  SyncInv'
<1>1. ASSUME NEW u \in Tabs PROVE TabInv(u)'
  <2>1. CASE u = t
    BY <2>1
  <2>2. CASE u # t
    <3>1. TabInv(u)
      BY DEF SyncInv, TabInv
    <3>2. tab'[u] = [tab[u] EXCEPT !.session = tab[u].session]
      BY <2>2, SameSession DEF OthersStay
    <3> QED BY <2>2, <3>1, <3>2, OtherTabStays DEF OthersStay
  <2> QED BY <2>1, <2>2
<1>2. LateInv'
  BY LateStays
<1> QED BY <1>1, <1>2 DEF SyncInv, TabInv

\* The same, of a step that leaves the server, the minted tags and the removals alone.
LEMMA OneTabOnly ==
  ASSUME Types, Types', SyncInv, UNCHANGED <<list, life, minted, dropped>>, NEW t \in Tabs,
         TabInv(t)', OthersStay(t), late' \subseteq late \cup GivenUp(t)
  PROVE  SyncInv'
<1>1. CopyMoves /\ Grows
  BY DEF CopyMoves, Grows, Types, StateTypes
<1>2. CopyInv'
  BY <1>1, CopyStays DEF SyncInv, TabInv
<1> QED BY <1>1, <1>2, OneTabMoves

\* Ghosts that a step leaves alone, but for one tab's.
LEMMA OverOthers ==
  ASSUME Types, NEW t \in Tabs, Over(t), \A u \in Tabs \ {t} : tab'[u] = tab[u]
  PROVE  OthersStay(t) /\ pressed'[t] = {}
<1>1. GhostTypes
  BY DEF Types
<1> QED BY <1>1, OverIs DEF OthersStay

\* Syncs that begin and end.
LEMMA BeginEnd ==
  ASSUME Types, Types', SyncInv, NEW t \in Tabs,
         Open(t) \/ Close(t) \/ LeaveEnd(t) \/ DeleteFails(t)
  PROVE  SyncInv'
<1> DEFINE s == tab[t]
<1>0. s \in Tab /\ tab \in [Tabs -> Tab] /\ TabShape(t)
  BY DEF Types, StateTypes, SyncInv, TabInv
<1>1. CASE Open(t)
  <2>1. UNCHANGED <<list, late, minted, seen, dropped, lifeOf, life, pressed>> /\ s.sync = "off"
    BY <1>1 DEF Open, ghosts
  <2>2. PICK k : Set(t, Started([s EXCEPT !.session = "good", !.key = k]))
    BY <1>1 DEF Open
  <2>3. tab'[t] = Started([s EXCEPT !.session = "good", !.key = k])
        /\ \A u \in Tabs \ {t} : tab'[u] = tab[u]
    BY <1>0, <2>2 DEF Set
  <2>4. pressed'[t] = {}
    BY <1>0, <2>1 DEF TabShape
  <2>5. TabInv(t)'
    <3> DEFINE q == [s EXCEPT !.session = "good", !.key = k]
    <3>1. q.held = s.held /\ q = [q EXCEPT !.held = s.held]
      BY <1>0 DEF Tab
    <3>2. LET r == Started(q) IN
          /\ r.tags = Nowhere /\ r.tombs = Nowhere /\ r.rev = None /\ r.known = None
          /\ r.call = None /\ r.leave = "no" /\ r.sync = "on" /\ r.untagged = r.held /\ r.want
      BY <1>0 DEF Started, Tab
    <3> HIDE DEF q
    <3>3. tab'[t] = Started(q)
      BY <2>3 DEF q
    <3> QED BY <2>4, <3>2, <3>3, FreshTab
  <2>6. OthersStay(t)
    BY <2>1, <2>3 DEF OthersStay
  <2> QED BY <2>1, <2>5, <2>6, OneTabOnly
<1>2. CASE Close(t)
  <2>1. UNCHANGED <<list, minted, dropped, life>> /\ Over(t) /\ Set(t, Closed)
        /\ late' = late \cup GivenUp(t)
    BY <1>2 DEF Close
  <2>2. tab'[t] = Closed /\ \A u \in Tabs \ {t} : tab'[u] = tab[u]
    BY <1>0, <2>1 DEF Set
  <2>3. OthersStay(t) /\ pressed'[t] = {}
    BY <2>1, <2>2, OverOthers
  <2>4. TabInv(t)'
    BY <2>2, <2>3, FreshTab DEF Closed
  <2> QED BY <2>1, <2>3, <2>4, OneTabOnly
<1>3. CASE LeaveEnd(t)
  <2>1. UNCHANGED <<list, late, minted, dropped, life>> /\ Over(t)
        /\ Set(t, [Stopped(s) EXCEPT !.held = {}])
    BY <1>3 DEF LeaveEnd
  <2>2. tab'[t] = [Stopped(s) EXCEPT !.held = {}] /\ \A u \in Tabs \ {t} : tab'[u] = tab[u]
    BY <1>0, <2>1 DEF Set
  <2>3. OthersStay(t) /\ pressed'[t] = {}
    BY <2>1, <2>2, OverOthers
  <2>4. TabInv(t)'
    <3>1. /\ tab'[t].tags = Nowhere /\ tab'[t].tombs = Nowhere /\ tab'[t].rev = None
          /\ tab'[t].known = None /\ tab'[t].call = None /\ tab'[t].leave = "no"
          /\ tab'[t].sync = "off" /\ tab'[t].untagged = {}
      BY <2>2 DEF Stopped, Closed
    <3> QED BY <2>3, <3>1, FreshTab
  <2> QED BY <2>1, <2>3, <2>4, OneTabOnly
<1>4. CASE DeleteFails(t)
  <2>1. UNCHANGED <<list, minted, dropped, life>> /\ Over(t) /\ Set(t, Started(s))
        /\ late' = late \cup GivenUp(t)
    BY <1>4 DEF DeleteFails
  <2>2. tab'[t] = Started(s) /\ \A u \in Tabs \ {t} : tab'[u] = tab[u]
    BY <1>0, <2>1 DEF Set
  <2>3. OthersStay(t) /\ pressed'[t] = {}
    BY <2>1, <2>2, OverOthers
  <2>4. TabInv(t)'
    <3>1. LET r == Started(s) IN
          /\ r.tags = Nowhere /\ r.tombs = Nowhere /\ r.rev = None /\ r.known = None
          /\ r.call = None /\ r.leave = "no" /\ r.sync = "on" /\ r.untagged = r.held /\ r.want
      BY <1>0 DEF Started, Tab
    <3> QED BY <2>2, <2>3, <3>1, FreshTab
  <2> QED BY <2>1, <2>3, <2>4, OneTabOnly
<1> QED BY <1>1, <1>2, <1>3, <1>4

\* Delete saved copy.
LEMMA DeletedInv ==
  ASSUME Types, Types', SyncInv, NEW t \in Tabs, DeleteSaved(t)
  PROVE  SyncInv'
<1> DEFINE s == tab[t]
<1>0. tab \in [Tabs -> Tab] /\ list \in [Account -> Lists]
  BY DEF Types, StateTypes, SyncInv, TabInv
<1>1. /\ list' = [list EXCEPT ![Me] = NoList] /\ late' = {} /\ life' = life + 1 /\ Over(t)
      /\ tab' = [u \in Tabs |->
           IF u = t THEN [Stopped(tab[t]) EXCEPT !.session = "out"]
           ELSE [tab[u] EXCEPT !.session = IF @ = "good" THEN "stale" ELSE @]]
      /\ UNCHANGED <<minted, dropped>>
  BY DEF DeleteSaved, Deleted
<1>2. SavedCopy' = NoList
  BY <1>0, <1>1, Nones DEF SavedCopy
<1>3. CopyMoves /\ Grows
  BY <1>1 DEF CopyMoves, Grows, Types, StateTypes
<1>4. CopyInv'
  <2>1. SavedContent' = Empty
    BY <1>2 DEF SavedContent
  <2>2. \A w \in Wallets : Empty.live[w] = {} /\ Empty.dead[w] = {}
    BY DEF Empty, Nowhere
  <2> HIDE DEF SavedContent, Empty
  <2> QED BY <1>2, <2>1, <2>2 DEF CopyInv, Sound
<1>5. LateInv'
  BY <1>1 DEF LateInv
<1>6. /\ pressed'[t] = {}
      /\ \A u \in Tabs \ {t} : seen'[u] = seen[u] /\ lifeOf'[u] = lifeOf[u]
         /\ pressed'[u] = pressed[u]
  BY <1>1, OverIs DEF Types
<1>7. TabInv(t)'
  <2>1. tab'[t] = [Stopped(s) EXCEPT !.session = "out"]
    BY <1>1
  <2>2. /\ tab'[t].tags = Nowhere /\ tab'[t].tombs = Nowhere /\ tab'[t].rev = None
        /\ tab'[t].known = None /\ tab'[t].call = None /\ tab'[t].leave = "no"
        /\ tab'[t].sync = "off" /\ tab'[t].untagged = {}
    BY <2>1 DEF Stopped, Closed
  <2> QED BY <1>6, <2>2, FreshTab
<1>8. ASSUME NEW u \in Tabs \ {t} PROVE TabInv(u)'
  <2> DEFINE x == IF tab[u].session = "good" THEN "stale" ELSE tab[u].session
  <2>1. tab'[u] = [tab[u] EXCEPT !.session = x]
    BY <1>1
  <2>2. tab[u].session = "out" => x = "out"
    OBVIOUS
  <2>3. TabInv(u)
    BY DEF SyncInv, TabInv
  <2> HIDE DEF x
  <2> QED BY <1>3, <1>6, <2>1, <2>2, <2>3, OtherTabStays
<1> QED BY <1>4, <1>5, <1>7, <1>8 DEF SyncInv, TabInv

\* A PUT the server takes.
LEMMA AcceptMoves ==
  ASSUME Types, Types', SyncInv, UNCHANGED <<life, minted, dropped>>,
         NEW p \in Puts, PutInv(p), Accept(p)
  PROVE  /\ CopyMoves /\ Grows /\ CopyInv'
         /\ SavedCopy' = [rev |-> p.base + 1, keyId |-> p.key, ct |-> p.ct]
         /\ SavedContent' = p.ct /\ RevOf(SavedCopy') = p.base + 1 /\ p.base = RevOf(SavedCopy)
         /\ SavedCopy' # NoList
<1>0. list \in [Account -> Lists] /\ p.base \in Nat /\ p.ct \in Content
      /\ [rev |-> p.base + 1, keyId |-> p.key, ct |-> p.ct] # NoList
  BY SyncAssumption DEF Types, StateTypes, Puts, SyncAssumption
<1>1. p.base = RevOf(list[Me])
      /\ list' = [list EXCEPT ![Me] = [rev |-> p.base + 1, keyId |-> p.key, ct |-> p.ct]]
  BY DEF Accept, CanSave, Saved
<1>2. SavedCopy' = [rev |-> p.base + 1, keyId |-> p.key, ct |-> p.ct] /\ p.base = RevOf(SavedCopy)
  BY <1>0, <1>1, Nones DEF SavedCopy
<1>3. SavedContent' = p.ct /\ RevOf(SavedCopy') = p.base + 1
  BY <1>0, <1>2 DEF SavedContent, RevOf
<1>4. CopyMoves /\ Grows
  BY <1>2, <1>3 DEF CopyMoves, Grows, Types, StateTypes
<1>5. CopyInv'
  <2>1. Sound(p.ct)'
    BY <1>0, <1>4, SoundStays DEF PutInv
  <2>2. SavedCopy'.rev > 0
    BY <1>0, <1>2
  <2> HIDE DEF SavedCopy, SavedContent
  <2>3. Sound(SavedContent)'
    BY <1>3, <2>1 DEF Sound
  <2> QED BY <2>2, <2>3 DEF CopyInv
<1> QED BY <1>0, <1>2, <1>3, <1>4, <1>5

\* A PUT that arrives late leaves the tabs as they are and what they know true.
LEMMA LateServedInv ==
  ASSUME Types, Types', SyncInv, NEW p \in late, LateServed(p)
  PROVE  SyncInv'
<1>1. /\ late' = late \ {p} /\ Accept(p) /\ PutInv(p) /\ p \in Puts
      /\ UNCHANGED <<tab, minted, seen, dropped, lifeOf, life, pressed>>
  BY DEF LateServed, SyncInv, TabInv, LateInv, Types, StateTypes
<1>2. CopyMoves /\ Grows /\ CopyInv'
  BY <1>1, AcceptMoves
<1>3. ASSUME NEW q \in late' PROVE PutInv(q)'
  BY <1>1, <1>2, PutStays DEF SyncInv, TabInv, LateInv, Types, StateTypes
<1>4. ASSUME NEW u \in Tabs PROVE TabInv(u)'
  <2>1. TabInv(u)
    BY DEF SyncInv, TabInv
  <2>2. tab'[u] = [tab[u] EXCEPT !.session = tab[u].session]
    BY <1>1, SameSession
  <2> QED BY <1>1, <1>2, <2>1, <2>2, OtherTabStays
<1> QED BY <1>2, <1>3, <1>4 DEF SyncInv, LateInv, TabInv

-----------------------------------------------------------------------------
(* The dApp's side: steps of one tab *)

\* The server, the minted tags and the removals stay.
Still == UNCHANGED <<list, life, minted, dropped>>

\* Then the same is said of a content, a rev and a PUT as before.
LEMMA StillIs ==
  ASSUME Still
  PROVE  /\ SavedCopy' = SavedCopy /\ SavedContent' = SavedContent
         /\ \A ct : Sound(ct)' <=> Sound(ct)
         /\ \A l, b : (Behind(l, b)' <=> Behind(l, b)) /\ (Current(l, b)' <=> Current(l, b))
         /\ \A p : PutInv(p)' <=> PutInv(p)
<1>1. SavedCopy' = SavedCopy /\ SavedContent' = SavedContent
  BY DEF Still, SavedCopy, SavedContent
<1> HIDE DEF SavedCopy, SavedContent
<1>2. \A ct : Sound(ct)' <=> Sound(ct)
  BY DEF Still, Sound
<1>3. \A l, b : (Behind(l, b)' <=> Behind(l, b)) /\ (Current(l, b)' <=> Current(l, b))
  BY <1>1 DEF Still, Behind, Current
<1>4. \A ct : Survives(SavedContent, ct)' <=> Survives(SavedContent, ct)
  BY <1>1 DEF Still, Survives
<1>5. \A p : PutInv(p)' <=> PutInv(p)
  BY <1>1, <1>2, <1>3, <1>4 DEF PutInv
<1> QED BY <1>1, <1>2, <1>3, <1>5

\* The tab's wallets, tags and tombstones stay.
SameWallets(t) == /\ tab'[t].held = tab[t].held /\ tab'[t].untagged = tab[t].untagged
                  /\ tab'[t].tags = tab[t].tags /\ tab'[t].tombs = tab[t].tombs
                  /\ seen'[t] = seen[t]

\* Then the same is said of them, and of the contents the tab took over.
LEMMA SameWalletsIs ==
  ASSUME Still, NEW t \in Tabs, SameWallets(t)
  PROVE  /\ TabTags(t) => TabTags(t)'
         /\ Local(tab'[t]) = Local(tab[t])
         /\ \A ct : Heard(t, ct)' <=> Heard(t, ct)
<1>1. Local(tab'[t]) = Local(tab[t])
  BY DEF Local, SameWallets
<1>2. TabTags(t) => TabTags(t)'
  BY DEF TabTags, SameWallets, Still
<1>3. \A ct : Heard(t, ct)' <=> Heard(t, ct)
  BY DEF Heard, SameWallets, Still
<1> QED BY <1>1, <1>2, <1>3

\* A step of a sync that touches none of its wallets and nothing of what it knows: its call
\* stays, goes, or becomes one that carries no list.
LEMMA SyncMoves ==
  ASSUME Types, Types', SyncInv, Still, NEW t \in Tabs, SameWallets(t), OthersStay(t),
         tab[t].sync # "off", tab'[t].sync # "off",
         tab'[t].rev = tab[t].rev, tab'[t].known = tab[t].known, lifeOf'[t] = lifeOf[t],
         tab'[t].call = tab[t].call \/ Out(t)' \notin {"put", "saved", "got"},
         pressed'[t] \subseteq tab[t].held,
         tab'[t].leave = "saved" => tab[t].leave = "saved" /\ pressed'[t] = pressed[t]
         /\ tab'[t].call = tab[t].call,
         tab'[t].leave = "out" => \/ tab[t].leave = "out" /\ pressed'[t] = pressed[t]
                                  \/ Out(t)' \notin {"put", "saved"},
         TabSaves(t)', late' \subseteq late \cup GivenUp(t)
  PROVE  SyncInv'
<1> DEFINE s == tab[t]
           r == tab'[t]
<1>1. TabShape(t) /\ TabTags(t) /\ TabKnows(t) /\ TabCall(t) /\ TabLeaves(t)
  BY DEF SyncInv, TabInv
<1>2. r.call = s.call => Out(t)' = Out(t)
  BY DEF Out
<1>3. TabShape(t)'
  BY <1>1, <1>2 DEF TabShape, SameWallets
<1>4. TabTags(t)'
  BY <1>1, SameWalletsIs
<1>5. TabKnows(t)'
  BY <1>1, <1>2, SameWalletsIs, StillIs DEF TabKnows
<1>6. TabCall(t)'
  BY <1>1, <1>2, StillIs DEF TabCall
<1>7. TabLeaves(t)'
  BY <1>1, <1>2 DEF TabLeaves, SameWallets
<1> QED BY <1>3, <1>4, <1>5, <1>6, <1>7, OneTabOnly DEF TabInv, Still

\* The sync is blocked for good.
LEMMA BlockedInv ==
  ASSUME Types, Types', SyncInv, Still, NEW t \in Tabs, Set(t, Blocked(tab[t])), tab[t].call # None,
         UNCHANGED <<seen, lifeOf, pressed>>, late' \subseteq late \cup GivenUp(t)
  PROVE  SyncInv'
<1> DEFINE s == tab[t]
<1>0. s \in Tab /\ tab \in [Tabs -> Tab] /\ TabShape(t) /\ TabLeaves(t)
  BY DEF Types, StateTypes, SyncInv, TabInv
<1>1. tab'[t] = Blocked(s) /\ (\A u \in Tabs \ {t} : tab'[u] = tab[u])
  BY <1>0 DEF Set
<1>2. /\ tab'[t].sync = "blocked" /\ tab'[t].rev = s.rev /\ tab'[t].known = s.known
      /\ tab'[t].call = None /\ tab'[t].leave \in {"no", "failed"}
      /\ tab'[t].held = s.held /\ tab'[t].untagged = s.untagged
      /\ tab'[t].tags = s.tags /\ tab'[t].tombs = s.tombs
  BY <1>0, <1>1 DEF Blocked, Tab
<1>3. OthersStay(t) /\ SameWallets(t)
  BY <1>1, <1>2 DEF OthersStay, SameWallets
<1>4. s.sync # "off" /\ pressed[t] \subseteq s.held
  BY <1>0 DEF TabShape, TabLeaves
<1>5. Out(t)' = "none" /\ TabSaves(t)'
  BY <1>2 DEF Out, TabSaves, On
<1> QED BY <1>2, <1>3, <1>4, <1>5, SyncMoves

\* Steps that ask, fail, are told, expire, and what the visitor presses.
LEMMA QuietInv ==
  ASSUME Types, Types', SyncInv, NEW t \in Tabs,
         \/ SignInAgain(t) \/ LeaveStart(t) \/ LeaveOff(t) \/ LoadStart(t) \/ PutConflicts(t)
         \/ PutMismatches(t) \/ SessionIsOver(t) \/ CallFails(t) \/ Lose(t) \/ Expire(t)
  PROVE  SyncInv'
<1> DEFINE s == tab[t]
<1>0. /\ s \in Tab /\ tab \in [Tabs -> Tab] /\ pressed \in [Tabs -> SUBSET Wallets]
      /\ TabShape(t) /\ TabSaves(t) /\ TabLeaves(t)
  BY DEF Types, StateTypes, GhostTypes, SyncInv, TabInv
<1>1. Still /\ UNCHANGED <<seen, lifeOf>>
      /\ late' \subseteq late \cup GivenUp(t)
  BY DEF SignInAgain, LeaveStart, LeaveOff, LoadStart, PutConflicts, PutMismatches,
         SessionIsOver, CallFails, Lose, Expire, Still, ghosts
<1>2. s.sync = "off" => s.call = None /\ s.leave = "no"
  BY <1>0 DEF TabShape
<1>3. CASE SignInAgain(t)
  <2>1. tab'[t] = [s EXCEPT !.session = "good", !.want = TRUE] /\ UNCHANGED pressed
        /\ (\A u \in Tabs \ {t} : tab'[u] = tab[u]) /\ s.call = None /\ s.sync = "on"
           /\ s.leave = "no"
    BY <1>0, <1>3 DEF SignInAgain, Set, ghosts, On
  <2>2. OthersStay(t) /\ SameWallets(t)
    BY <1>0, <1>1, <2>1 DEF OthersStay, SameWallets, Tab
  <2>3. TabSaves(t)'
    BY <1>0, <2>1 DEF TabSaves, Tab
  <2>4. /\ tab'[t].sync = s.sync /\ tab'[t].rev = s.rev /\ tab'[t].known = s.known
        /\ tab'[t].call = s.call /\ tab'[t].leave = s.leave
    BY <1>0, <2>1 DEF Tab
  <2> QED BY <1>0, <1>1, <2>1, <2>2, <2>3, <2>4, SyncMoves DEF TabLeaves
<1>4. CASE LeaveStart(t) \/ LeaveOff(t)
  <2>1. PICK l \in {"due", "no"} : Set(t, [s EXCEPT !.leave = l])
    BY <1>4 DEF LeaveStart, LeaveOff
  <2>2. tab'[t] = [s EXCEPT !.leave = l] /\ (\A u \in Tabs \ {t} : tab'[u] = tab[u])
    BY <1>0, <2>1 DEF Set
  <2>3. pressed' \in {[pressed EXCEPT ![t] = s.held], [pressed EXCEPT ![t] = {}]}
        /\ s.sync # "off"
    BY <1>2, <1>4 DEF LeaveStart, LeaveOff, On
  <2>4. pressed'[t] \subseteq s.held /\ \A u \in Tabs \ {t} : pressed'[u] = pressed[u]
    BY <1>0, <2>3
  <2>5. OthersStay(t) /\ SameWallets(t)
    BY <1>0, <1>1, <2>2, <2>4 DEF OthersStay, SameWallets, Tab
  <2>6. /\ tab'[t].sync = s.sync /\ tab'[t].rev = s.rev /\ tab'[t].known = s.known
        /\ tab'[t].call = s.call /\ tab'[t].leave = l /\ tab'[t].want = s.want
        /\ tab'[t].session = s.session
    BY <1>0, <2>2 DEF Tab
  <2>7. l = "no" => s.leave = "failed"
    BY <1>0, <1>4, <2>6, <2>2 DEF LeaveOff, LeaveStart, Set, Tab
  <2>8. TabSaves(t)'
    <3>1. Local(tab'[t]) = Local(s)
      BY <1>1, <2>5, SameWalletsIs
    <3>2. Out(t)' = Out(t) /\ On(t)' = On(t)
      BY <2>6 DEF Out, On
    <3> HIDE DEF s
    <3> QED BY <1>0, <2>6, <2>7, <3>1, <3>2 DEF TabSaves, s
  <2> QED BY <1>0, <1>1, <2>3, <2>4, <2>5, <2>6, <2>8, SyncMoves
<1>5. CASE LoadStart(t)
  <2> DEFINE c == Issue(s, [op |-> "get"])
  <2>1. tab'[t] = [s EXCEPT !.want = FALSE, !.call = c, !.leave = IF @ = "due" THEN "out" ELSE @]
        /\ (\A u \in Tabs \ {t} : tab'[u] = tab[u]) /\ UNCHANGED pressed
        /\ s.call = None /\ s.sync = "on" /\ s.leave \notin {"saved", "failed"}
    BY <1>0, <1>5 DEF LoadStart, Set, ghosts, On, Idle
  <2>2. c \in Calls /\ c.op \in {"get", "no_session"}
    BY <1>0, CallsMade, IssueTyped DEF Issue
  <2> HIDE DEF c
  <2>3. OthersStay(t) /\ SameWallets(t)
    BY <1>0, <1>1, <2>1 DEF OthersStay, SameWallets, Tab
  <2>4. /\ tab'[t].sync = s.sync /\ tab'[t].rev = s.rev /\ tab'[t].known = s.known
        /\ tab'[t].call = c /\ tab'[t].leave # "saved" /\ tab'[t].leave \in {"out", s.leave}
    BY <1>0, <2>1 DEF Tab
  <2>5. c # None /\ Out(t)' \in {"get", "no_session"}
    BY <2>2, <2>4, Nones DEF Out
  <2>6. TabSaves(t)'
    BY <2>4, <2>5 DEF TabSaves
  <2> QED BY <1>0, <1>1, <2>1, <2>3, <2>4, <2>5, <2>6, SyncMoves DEF TabLeaves
<1>6. CASE PutConflicts(t)
  <2> DEFINE c == Issue(s, [op |-> "get"])
  <2>1. tab'[t] = [s EXCEPT !.want = TRUE, !.call = c]
        /\ (\A u \in Tabs \ {t} : tab'[u] = tab[u]) /\ UNCHANGED pressed
        /\ s.call # None
    BY <1>0, <1>6 DEF PutConflicts, Set, ghosts, Out
  <2>2. c \in Calls /\ c.op \in {"get", "no_session"}
    BY <1>0, CallsMade, IssueTyped DEF Issue
  <2> HIDE DEF c
  <2>3. OthersStay(t) /\ SameWallets(t)
    BY <1>0, <1>1, <2>1 DEF OthersStay, SameWallets, Tab
  <2>4. /\ tab'[t].sync = s.sync /\ tab'[t].rev = s.rev /\ tab'[t].known = s.known
        /\ tab'[t].call = c /\ tab'[t].leave = s.leave /\ tab'[t].want
    BY <1>0, <2>1 DEF Tab
  <2>5. c # None /\ Out(t)' \in {"get", "no_session"} /\ s.leave # "saved"
    BY <1>0, <2>1, <2>2, <2>4, Nones DEF Out, TabShape
  <2>6. TabSaves(t)'
    BY <2>4 DEF TabSaves
  <2> QED BY <1>0, <1>1, <1>2, <2>1, <2>3, <2>4, <2>5, <2>6, SyncMoves DEF TabLeaves
<1>7. CASE PutMismatches(t)
  <2>1. Set(t, Blocked(s)) /\ UNCHANGED pressed /\ s.call # None
    BY <1>7 DEF PutMismatches, ghosts, Out
  <2> QED BY <1>1, <2>1, BlockedInv
<1>8. CASE SessionIsOver(t) \/ CallFails(t)
  <2>1. PICK r \in Refused(s) : \/ Set(t, [r EXCEPT !.session = "out"])
                                \/ Set(t, [r EXCEPT !.want = TRUE])
    BY <1>8 DEF SessionIsOver, CallFails
  <2>2. PICK l \in {"no", "due", "failed"} : r = [s EXCEPT !.call = None, !.leave = l]
    BY RefusedIs
  <2>3. UNCHANGED pressed /\ s.call # None
    BY <1>8 DEF SessionIsOver, CallFails, ghosts, Out
  <2>4. /\ \A u \in Tabs \ {t} : tab'[u] = tab[u]
        /\ tab'[t] = [r EXCEPT !.session = "out"] \/ tab'[t] = [r EXCEPT !.want = TRUE]
    BY <1>0, <2>1 DEF Set
  <2>5. /\ tab'[t].sync = s.sync /\ tab'[t].rev = s.rev /\ tab'[t].known = s.known
        /\ tab'[t].call = None /\ tab'[t].leave = l
        /\ tab'[t].session = "out" \/ tab'[t].want
        /\ tab'[t].held = s.held /\ tab'[t].untagged = s.untagged
        /\ tab'[t].tags = s.tags /\ tab'[t].tombs = s.tombs
    BY <1>0, <2>2, <2>4 DEF Tab
  <2>6. OthersStay(t) /\ SameWallets(t)
    BY <1>1, <2>3, <2>4, <2>5 DEF OthersStay, SameWallets
  <2>7. Out(t)' = "none"
    BY <2>5 DEF Out
  <2>8. TabSaves(t)'
    BY <2>5 DEF TabSaves
  <2> QED BY <1>0, <1>1, <1>2, <2>3, <2>5, <2>6, <2>7, <2>8, SyncMoves DEF TabLeaves
<1>9. CASE Lose(t)
  <2> DEFINE c == [op |-> "lost"]
  <2>1. tab'[t] = [s EXCEPT !.call = c] /\ (\A u \in Tabs \ {t} : tab'[u] = tab[u])
        /\ UNCHANGED pressed /\ s.call # None
    BY <1>0, <1>9 DEF Lose, Set, ghosts, Out
  <2>2. c # None /\ c.op = "lost"
    BY CallsMade, Nones
  <2> HIDE DEF c
  <2>3. OthersStay(t) /\ SameWallets(t)
    BY <1>0, <1>1, <2>1 DEF OthersStay, SameWallets, Tab
  <2>4. /\ tab'[t].sync = s.sync /\ tab'[t].rev = s.rev /\ tab'[t].known = s.known
        /\ tab'[t].call = c /\ tab'[t].leave = s.leave /\ tab'[t].want = s.want
        /\ tab'[t].session = s.session
    BY <1>0, <2>1 DEF Tab
  <2>5. Out(t)' = "lost" /\ s.leave # "saved"
    BY <1>0, <2>1, <2>2, <2>4 DEF Out, TabShape
  <2>6. TabSaves(t)'
    BY <2>2, <2>4, <2>5 DEF TabSaves
  <2> QED BY <1>0, <1>1, <1>2, <2>1, <2>3, <2>4, <2>5, <2>6, SyncMoves DEF TabLeaves
<1>10. CASE Expire(t)
  <2>1. tab'[t] = [s EXCEPT !.session = "stale"] /\ (\A u \in Tabs \ {t} : tab'[u] = tab[u])
        /\ UNCHANGED pressed /\ s.sync = "on" /\ s.session = "good"
    BY <1>0, <1>10 DEF Expire, Set, ghosts, On
  <2>2. OthersStay(t) /\ SameWallets(t)
    BY <1>0, <1>1, <2>1 DEF OthersStay, SameWallets, Tab
  <2>3. /\ tab'[t].sync = s.sync /\ tab'[t].rev = s.rev /\ tab'[t].known = s.known
        /\ tab'[t].call = s.call /\ tab'[t].leave = s.leave /\ tab'[t].want = s.want
    BY <1>0, <2>1 DEF Tab
  <2>4. TabSaves(t)'
    <3>1. Local(tab'[t]) = Local(s)
      BY <1>1, <2>2, SameWalletsIs
    <3>2. Out(t)' = Out(t) /\ On(t)' = On(t) /\ On(t)
      BY <2>1, <2>3 DEF Out, On
    <3>3. s.session # "out"
      BY <2>1
    <3> HIDE DEF s
    <3> QED BY <1>0, <2>3, <3>1, <3>2, <3>3 DEF TabSaves, s
  <2> QED BY <1>0, <1>1, <2>1, <2>2, <2>3, <2>4, SyncMoves DEF TabLeaves
<1> QED BY <1>3, <1>4, <1>5, <1>6, <1>7, <1>8, <1>9, <1>10

\* A copy that is read.
LEMMA GetServedInv ==
  ASSUME Types, Types', SyncInv, NEW t \in Tabs, GetServed(t)
  PROVE  SyncInv'
<1> DEFINE s == tab[t]
           c == IF s.session = "good" THEN [op |-> "got", copy |-> SavedCopy, life |-> life]
                ELSE [op |-> "no_session"]
<1>0. /\ s \in Tab /\ tab \in [Tabs -> Tab] /\ TabShape(t) /\ TabTags(t) /\ TabKnows(t)
      /\ TabLeaves(t) /\ SavedCopy \in Lists /\ life \in Nat
  BY SavedTyped, BoundTypes DEF Types, StateTypes, GhostTypes, SyncInv, TabInv
<1>1. Still /\ UNCHANGED <<seen, lifeOf, pressed, late>> /\ Set(t, [s EXCEPT !.call = c])
      /\ s.call # None
  BY DEF GetServed, Still, ghosts, Out
<1>2. c \in Calls /\ c.op \in {"got", "no_session"}
      /\ (c.op = "got" => c.copy = SavedCopy /\ c.life = life)
  BY <1>0, CallsMade
<1> HIDE DEF c
<1>3. tab'[t] = [s EXCEPT !.call = c] /\ \A u \in Tabs \ {t} : tab'[u] = tab[u]
  BY <1>0, <1>1 DEF Set
<1>4. OthersStay(t) /\ SameWallets(t)
  BY <1>0, <1>1, <1>3 DEF OthersStay, SameWallets, Tab
<1>5. /\ tab'[t].sync = s.sync /\ tab'[t].rev = s.rev /\ tab'[t].known = s.known
      /\ tab'[t].call = c /\ tab'[t].leave = s.leave
  BY <1>0, <1>3 DEF Tab
<1>6. c # None /\ Out(t)' = c.op /\ s.leave # "saved" /\ s.sync # "off"
  BY <1>0, <1>1, <1>2, <1>5, Nones DEF Out, TabShape
<1>7. TabShape(t)'
  BY <1>0, <1>2, <1>4, <1>5, <1>6 DEF TabShape, SameWallets
<1>8. TabTags(t)'
  BY <1>0, <1>1, <1>4, SameWalletsIs
<1>9. TabKnows(t)'
  BY <1>0, <1>1, <1>2, <1>4, <1>5, <1>6, SameWalletsIs, StillIs DEF TabKnows
<1>10. TabCall(t)'
  <2>1. /\ SavedCopy # NoList => Sound(SavedCopy.ct)
        /\ Behind(life, RevOf(SavedCopy))
    <3>1. RevOf(SavedCopy) \in Nat
      BY <1>0, SavedTyped DEF Types, StateTypes
    <3> QED BY <1>0, <3>1 DEF SyncInv, TabInv, CopyInv, SavedContent, Behind
  <2>2. ASSUME NEW k, k.copy = SavedCopy, k.life = life
        PROVE  /\ k.copy # NoList => Sound(k.copy.ct)'
               /\ Behind(k.life, RevOf(k.copy))'
               /\ k.copy = SavedCopy'
    <3>1. k.copy # NoList => Sound(k.copy.ct)
      BY <2>1, <2>2
    <3>2. Behind(k.life, RevOf(k.copy))
      BY <2>1, <2>2
    <3> HIDE DEF SavedCopy
    <3> QED BY <1>1, <2>2, <3>1, <3>2, StillIs
  <2> HIDE DEF SavedCopy
  <2> QED BY <1>2, <1>5, <1>6, <2>2 DEF TabCall
<1>11. TabSaves(t)' /\ TabLeaves(t)'
  BY <1>0, <1>1, <1>2, <1>4, <1>5, <1>6 DEF TabSaves, TabLeaves, SameWallets
<1> QED BY <1>1, <1>4, <1>7, <1>8, <1>9, <1>10, <1>11, OneTabOnly DEF TabInv, Still

\* What a tab that has read a copy would save is all it holds.
LEMMA LocalIs ==
  ASSUME Types, NEW t \in Tabs, TabShape(t), tab[t].rev # None
  PROVE  /\ Local(tab[t]) \in Content
         /\ In(Local(tab[t])) = tab[t].held
         /\ Local(tab[t]).dead = tab[t].tombs
         /\ \A w \in Wallets : Local(tab[t]).live[w] = tab[t].tags[w]
<1> DEFINE s == tab[t]
<1>0. s \in Tab /\ s.held \subseteq Wallets
  BY DEF Types, StateTypes, Tab
<1>1. \A w \in Wallets : (w \in s.held <=> s.tags[w] # {}) /\ s.tags[w] \ s.tombs[w] = s.tags[w]
  BY <1>0 DEF TabShape
<1>2. \A w \in Wallets : Local(s).live[w] = s.tags[w]
  BY <1>1 DEF Local
<1>3. In(Local(s)) = s.held
  BY <1>0, <1>1, <1>2 DEF In
<1> QED BY <1>0, <1>2, <1>3, ContentTyped DEF Local

\* A PUT of it writes over nothing that the tab has not taken over.
LEMMA PutMade ==
  ASSUME Types, NEW t \in Tabs, TabShape(t), TabTags(t), TabKnows(t), tab[t].rev # None,
         NEW p, p.base = tab[t].rev, p.ct = Local(tab[t]), p.life = lifeOf[t]
  PROVE  PutInv(p) /\ Heard(t, p.ct)
<1> DEFINE s == tab[t]
           ct == Local(s)
<1>0. /\ ct \in Content /\ In(ct) = s.held /\ ct.dead = s.tombs
      /\ \A w \in Wallets : ct.live[w] = s.tags[w]
  BY LocalIs
<1>1. \A w \in Wallets : /\ s.tags[w] \cup s.tombs[w] \subseteq 1..minted[w]
                         /\ s.tags[w] \subseteq seen[t][w] /\ s.tombs[w] \subseteq dropped[w]
  BY DEF TabTags
<1>2. \A w \in Wallets : w \notin s.held => ct.live[w] = {}
  BY <1>0 DEF In
<1> HIDE DEF ct
<1>3. Sound(ct) /\ Heard(t, ct)
  BY <1>0, <1>1, <1>2 DEF Sound, Heard
<1>4. Behind(lifeOf[t], s.rev)
  BY DEF TabKnows
<1>5. ASSUME Current(lifeOf[t], s.rev)
      PROVE  /\ Survives(SavedContent, ct)
             /\ \A w \in Wallets : SavedContent.dead[w] \subseteq ct.dead[w]
  <2>1. CASE SavedCopy = NoList
    <3>1. SavedContent = Empty
      BY <2>1 DEF SavedContent
    <3>2. \A w \in Wallets : Empty.live[w] = {} /\ Empty.dead[w] = {}
      BY DEF Empty, Nowhere
    <3> HIDE DEF SavedContent, Empty
    <3> QED BY <3>1, <3>2 DEF Survives, In
  <2>2. CASE SavedCopy # NoList
    <3>1. s.known = SavedContent
      BY <1>5, <2>2 DEF TabKnows
    <3>2. SavedContent # None
      BY SavedTyped, Nones DEF Types, StateTypes
    <3>3. Heard(t, SavedContent)
      BY <3>1, <3>2 DEF TabKnows
    <3> HIDE DEF SavedContent
    <3>4. \A w \in Wallets : SavedContent.dead[w] \subseteq ct.dead[w]
      BY <1>0, <3>3 DEF Heard
    <3>5. Survives(SavedContent, ct)
      BY <1>0, <3>3 DEF Survives, In, Heard
    <3> QED BY <3>4, <3>5
  <2> QED BY <2>1, <2>2
<1>6. p.ct = ct
  BY DEF ct
<1> QED BY <1>3, <1>4, <1>5, <1>6 DEF PutInv

\* A save that begins, or has nothing to save.
LEMMA SaveStartInv ==
  ASSUME Types, Types', SyncInv, NEW t \in Tabs, SaveStart(t)
  PROVE  SyncInv'
<1> DEFINE s == tab[t]
           put == [op |-> "put", base |-> s.rev, key |-> s.key, ct |-> Local(s), life |-> lifeOf[t]]
           c == Issue(s, put)
<1>0. /\ s \in Tab /\ tab \in [Tabs -> Tab] /\ TabShape(t) /\ TabTags(t) /\ TabKnows(t)
      /\ TabLeaves(t) /\ lifeOf[t] \in Nat /\ TypedTab(s)
  BY DEF Types, StateTypes, GhostTypes, SyncInv, TabInv
<1>1. Still /\ UNCHANGED <<seen, lifeOf, pressed, late>> /\ s.call = None /\ s.sync = "on"
      /\ s.leave \notin {"saved", "failed"} /\ s.rev # None
  BY DEF SaveStart, Still, ghosts, Idle, On
<1>2. /\ Local(s) \in Content /\ In(Local(s)) = s.held /\ Local(s) # None
  BY <1>0, <1>1, LocalIs, Nones
<1>3. pressed[t] \subseteq s.held
  BY <1>0 DEF TabLeaves
<1>4. CASE Local(s) = s.known
  <2>1. Set(t, [s EXCEPT !.want = FALSE, !.leave = IF @ = "no" THEN @ ELSE "saved"])
    BY <1>4 DEF SaveStart
  <2>2. tab'[t] = [s EXCEPT !.want = FALSE, !.leave = IF @ = "no" THEN @ ELSE "saved"]
        /\ \A u \in Tabs \ {t} : tab'[u] = tab[u]
    BY <1>0, <2>1 DEF Set
  <2>3. OthersStay(t) /\ SameWallets(t)
    BY <1>0, <1>1, <2>2 DEF OthersStay, SameWallets, Tab
  <2>4. /\ tab'[t].sync = s.sync /\ tab'[t].rev = s.rev /\ tab'[t].known = s.known
        /\ tab'[t].call = None /\ tab'[t].leave \in {"no", "saved"}
    BY <1>0, <1>1, <2>2 DEF Tab
  <2>5. Out(t)' = "none" /\ Local(tab'[t]) = Local(s)
    BY <1>1, <2>3, <2>4, SameWalletsIs DEF Out
  <2> HIDE DEF put, c
  <2>6. TabShape(t)'
    BY <1>0, <1>1, <2>3, <2>4, <2>5 DEF TabShape, SameWallets
  <2>7. TabTags(t)'
    BY <1>0, <1>1, <2>3, SameWalletsIs
  <2>8. TabKnows(t)'
    BY <1>0, <1>1, <2>3, <2>4, <2>5, SameWalletsIs, StillIs DEF TabKnows
  <2>9. TabCall(t)' /\ TabSaves(t)'
    BY <1>1, <1>4, <2>4, <2>5 DEF TabCall, TabSaves
  <2>10. TabLeaves(t)'
    BY <1>1, <1>2, <1>3, <1>4, <2>3, <2>4 DEF TabLeaves, SameWallets
  <2> QED BY <1>1, <2>3, <2>6, <2>7, <2>8, <2>9, <2>10, OneTabOnly DEF TabInv, Still
<1>5. CASE Local(s) # s.known
  <2>1. Set(t, [s EXCEPT !.want = FALSE, !.call = c, !.leave = IF @ = "due" THEN "out" ELSE @])
    BY <1>5 DEF SaveStart
  <2>2. tab'[t] = [s EXCEPT !.want = FALSE, !.call = c, !.leave = IF @ = "due" THEN "out" ELSE @]
        /\ \A u \in Tabs \ {t} : tab'[u] = tab[u]
    BY <1>0, <2>1 DEF Set
  <2>3. s.rev \in Nat /\ s.key \in Keys
    BY <1>0, <1>1 DEF Tab, TypedTab
  <2>4. put \in Calls
    BY <1>0, <1>2, <2>3, CallsMade
  <2>5. c \in Calls /\ c.op \in {"put", "no_session"}
        /\ (c.op = "put" => c = put /\ s.session # "out")
    BY <1>0, <2>4, CallsMade, IssueTyped DEF Issue
  <2>6. PutInv(put) /\ Heard(t, Local(s)) /\ put.ct = Local(s)
    BY <1>0, <1>1, PutMade
  <2> HIDE DEF c, put
  <2>7. OthersStay(t) /\ SameWallets(t)
    BY <1>0, <1>1, <2>2 DEF OthersStay, SameWallets, Tab
  <2>8. /\ tab'[t].sync = s.sync /\ tab'[t].rev = s.rev /\ tab'[t].known = s.known
        /\ tab'[t].call = c /\ tab'[t].leave # "saved"
    BY <1>0, <1>1, <2>2 DEF Tab
  <2>9. Out(t)' = c.op /\ c # None /\ Local(tab'[t]) = Local(s)
    BY <1>1, <2>5, <2>7, <2>8, SameWalletsIs, Nones DEF Out
  <2>10. TabShape(t)'
    BY <1>0, <1>1, <2>7, <2>8, <2>9 DEF TabShape, SameWallets
  <2>11. TabTags(t)'
    BY <1>0, <1>1, <2>7, SameWalletsIs
  <2>12. TabKnows(t)'
    BY <1>0, <1>1, <2>5, <2>6, <2>7, <2>8, <2>9, SameWalletsIs, StillIs DEF TabKnows
  <2>13. TabCall(t)'
    BY <1>1, <2>5, <2>6, <2>8, <2>9, StillIs DEF TabCall
  <2>14. TabSaves(t)'
    BY <2>5, <2>6, <2>8, <2>9 DEF TabSaves
  <2>15. TabLeaves(t)'
    BY <1>1, <1>2, <1>3, <2>5, <2>6, <2>7, <2>8, <2>9 DEF TabLeaves, SameWallets
  <2> QED BY <1>1, <2>7, <2>10, <2>11, <2>12, <2>13, <2>14, <2>15, OneTabOnly DEF TabInv, Still
<1> QED BY <1>4, <1>5

\* What the server answers a PUT.
LEMMA PutServedInv ==
  ASSUME Types, Types', SyncInv, NEW t \in Tabs, PutServed(t)
  PROVE  SyncInv'
<1> DEFINE s == tab[t]
           p == s.call
<1>0. /\ s \in Tab /\ tab \in [Tabs -> Tab] /\ TabShape(t) /\ TabTags(t) /\ TabKnows(t)
      /\ TabCall(t) /\ TabSaves(t) /\ TabLeaves(t) /\ p \in Calls \cup {None} /\ life \in Nat
  BY BoundTypes DEF Types, StateTypes, GhostTypes, SyncInv, TabInv, Tab
<1>1. Out(t) = "put" /\ UNCHANGED <<seen, lifeOf, pressed, late, life, minted, dropped>>
  BY DEF PutServed
<1>2. p \in Puts /\ p # None /\ PutInv(p)
  BY <1>0, <1>1, CallTypes DEF TabCall, Out
<1>3. s.leave # "saved" /\ s.sync # "off" /\ s.rev # None
  BY <1>0, <1>1, <1>2 DEF TabShape
<1>4. CASE \E o \in {"conflict", "key_mismatch", "no_session"} :
             Set(t, [s EXCEPT !.call = [op |-> o]]) /\ UNCHANGED list
  <2>1. PICK o \in {"conflict", "key_mismatch", "no_session"} :
          Set(t, [s EXCEPT !.call = [op |-> o]]) /\ UNCHANGED list
    BY <1>4
  <2> DEFINE c == [op |-> o]
  <2>2. tab'[t] = [s EXCEPT !.call = c] /\ \A u \in Tabs \ {t} : tab'[u] = tab[u]
    BY <1>0, <2>1 DEF Set
  <2>3. c # None /\ c.op = o
    BY CallsMade, Nones
  <2> HIDE DEF c
  <2>4. OthersStay(t) /\ SameWallets(t) /\ Still
    BY <1>0, <1>1, <2>1, <2>2 DEF OthersStay, SameWallets, Tab, Still
  <2>5. /\ tab'[t].sync = s.sync /\ tab'[t].rev = s.rev /\ tab'[t].known = s.known
        /\ tab'[t].call = c /\ tab'[t].leave = s.leave
    BY <1>0, <2>2 DEF Tab
  <2>6. Out(t)' = o
    BY <2>3, <2>5 DEF Out
  <2>7. TabSaves(t)'
    BY <2>3, <2>5, <2>6 DEF TabSaves
  <2> QED BY <1>0, <1>1, <1>3, <2>4, <2>5, <2>6, <2>7, SyncMoves DEF TabLeaves
<1>5. CASE Accept(p) /\ Set(t, [s EXCEPT !.call = [op |-> "saved", rev |-> p.base + 1,
                                                 ct |-> p.ct, life |-> life]])
  <2> DEFINE c == [op |-> "saved", rev |-> p.base + 1, ct |-> p.ct, life |-> life]
  <2>1. /\ CopyMoves /\ Grows /\ CopyInv' /\ SavedCopy' # NoList
        /\ SavedContent' = p.ct /\ RevOf(SavedCopy') = p.base + 1 /\ p.base = RevOf(SavedCopy)
    BY <1>1, <1>2, <1>5, AcceptMoves
  <2>2. tab'[t] = [s EXCEPT !.call = c] /\ \A u \in Tabs \ {t} : tab'[u] = tab[u]
    BY <1>0, <1>5 DEF Set
  <2>3. p.ct \in Content /\ p.base \in Nat /\ c \in Calls /\ c # None
    <3> HIDE DEF p
    <3>1. p.ct \in Content /\ p.base \in Nat /\ p.base + 1 \in Nat
      BY <1>2 DEF Puts
    <3>2. c \in Calls
      BY <1>0, <3>1, CallsMade
    <3> QED BY <3>1, <3>2, Nones
  <2>4. c.op = "saved" /\ c.rev = p.base + 1 /\ c.ct = p.ct /\ c.life = life
    OBVIOUS
  <2> HIDE DEF c
  <2>5. OthersStay(t) /\ SameWallets(t)
    BY <1>0, <1>1, <2>2 DEF OthersStay, SameWallets, Tab
  <2>6. /\ tab'[t].sync = s.sync /\ tab'[t].rev = s.rev /\ tab'[t].known = s.known
        /\ tab'[t].call = c /\ tab'[t].leave = s.leave /\ tab'[t].want = s.want
        /\ tab'[t].session = s.session
    BY <1>0, <2>2 DEF Tab
  <2>7. Out(t)' = "saved"
    BY <2>3, <2>4, <2>6 DEF Out
  <2>8. Local(tab'[t]) = Local(s) /\ \A ct : Heard(t, ct) => Heard(t, ct)'
    BY <1>1, <2>5 DEF Local, SameWallets, Heard
  <2> HIDE DEF p
  <2>9. TabShape(t)'
    BY <1>0, <1>1, <1>3, <2>5, <2>6, <2>7 DEF TabShape, SameWallets
  <2>10. TabTags(t)'
    BY <1>0, <1>1, <2>5 DEF TabTags, SameWallets
  <2>11. TabKnows(t)'
    <3>1. s.rev \in Nat /\ lifeOf[t] \in Nat
      BY <1>0, <1>3 DEF Types, GhostTypes, Tab
    <3>2. Behind(lifeOf[t], s.rev)
      BY <1>0, <1>3 DEF TabKnows
    <3>3. Behind(lifeOf[t], s.rev)' /\ (Current(lifeOf[t], s.rev)' => UNCHANGED list)
      BY <1>1, <2>1, <2>6, <3>1, <3>2, BehindStays
    <3>4. ~ UNCHANGED list
      <4>1. RevOf(SavedCopy') # RevOf(SavedCopy)
        BY <2>1, <2>3
      <4> QED BY <4>1 DEF SavedCopy
    <3>5. Heard(t, p.ct)
      BY <1>0, <1>1 DEF TabKnows, p
    <3> HIDE DEF SavedCopy, SavedContent
    <3> QED BY <1>0, <1>1, <2>4, <2>6, <2>7, <2>8, <3>3, <3>4, <3>5 DEF TabKnows
  <2>12. TabCall(t)'
    <3>1. Sound(p.ct)
      BY <1>2 DEF PutInv
    <3>2. ASSUME NEW k, k.ct = p.ct, k.rev = p.base + 1, k.life = life
          PROVE  Sound(k.ct)' /\ Behind(k.life, k.rev)' /\ k.ct = SavedContent'
      <4>1. Sound(k.ct)'
        BY <1>1, <3>1, <3>2 DEF Sound
      <4>2. Behind(k.life, k.rev)'
        BY <1>0, <1>1, <2>1, <2>3, <3>2 DEF Behind
      <4> QED BY <2>1, <3>2, <4>1, <4>2
    <3> HIDE DEF SavedContent, SavedCopy
    <3> QED BY <2>4, <2>6, <2>7, <3>2 DEF TabCall
  <2>13. TabSaves(t)' /\ TabLeaves(t)'
    BY <1>0, <1>1, <1>2, <1>3, <2>3, <2>4, <2>5, <2>6, <2>7, <2>8
    DEF TabSaves, TabLeaves, SameWallets, On, p
  <2> QED BY <1>1, <2>1, <2>5, <2>9, <2>10, <2>11, <2>12, <2>13, OneTabMoves DEF TabInv
<1> QED BY <1>4, <1>5 DEF PutServed

\* The save went well.
LEMMA PutSavedInv ==
  ASSUME Types, Types', SyncInv, NEW t \in Tabs, PutSaved(t)
  PROVE  SyncInv'
<1> DEFINE s == tab[t]
           c == s.call
<1>0. /\ s \in Tab /\ tab \in [Tabs -> Tab] /\ TabShape(t) /\ TabTags(t) /\ TabKnows(t)
      /\ TabCall(t) /\ TabSaves(t) /\ TabLeaves(t) /\ c \in Calls \cup {None}
      /\ lifeOf \in [Tabs -> Nat]
  BY DEF Types, StateTypes, GhostTypes, SyncInv, TabInv, Tab
<1>1. Out(t) = "saved" /\ Still /\ UNCHANGED <<seen, pressed, late>>
      /\ lifeOf' = [lifeOf EXCEPT ![t] = c.life]
  BY DEF PutSaved, Still
<1>2. /\ c # None /\ c.rev \in Nat /\ c.ct \in Content /\ c.life \in Nat /\ c.ct # None
  BY <1>0, <1>1, CallTypes, Nones DEF Out
<1>3. PICK l \in {s.leave, "due", "saved"} :
        /\ Set(t, [s EXCEPT !.rev = c.rev, !.known = c.ct, !.call = None, !.leave = l])
        /\ l # "out" /\ (l = s.leave \/ s.leave = "out")
  BY DEF PutSaved
<1>4. tab'[t] = [s EXCEPT !.rev = c.rev, !.known = c.ct, !.call = None, !.leave = l]
      /\ \A u \in Tabs \ {t} : tab'[u] = tab[u]
  BY <1>0, <1>3 DEF Set
<1>5. s.leave # "saved" /\ s.sync # "off" /\ s.rev # None /\ s.untagged = {}
  BY <1>0, <1>1, <1>2 DEF TabShape
<1>6. /\ tab'[t].sync = s.sync /\ tab'[t].rev = c.rev /\ tab'[t].known = c.ct
      /\ tab'[t].call = None /\ tab'[t].leave = l /\ tab'[t].want = s.want
      /\ tab'[t].session = s.session /\ lifeOf'[t] = c.life
  BY <1>0, <1>1, <1>4 DEF Tab
<1>7. OthersStay(t) /\ SameWallets(t)
  BY <1>0, <1>1, <1>4 DEF OthersStay, SameWallets, Tab
<1>8. Out(t)' = "none" /\ Local(tab'[t]) = Local(s)
  BY <1>1, <1>6, <1>7, SameWalletsIs DEF Out
<1>9. TabShape(t)'
  BY <1>0, <1>2, <1>5, <1>6, <1>7, <1>8, Nones DEF TabShape, SameWallets
<1>10. TabTags(t)'
  BY <1>0, <1>1, <1>7, SameWalletsIs
<1>11. TabKnows(t)'
  <2>1. Heard(t, c.ct) /\ Behind(c.life, c.rev) /\ (Current(c.life, c.rev) => c.ct = SavedContent)
    BY <1>0, <1>1 DEF TabKnows, TabCall
  <2> HIDE DEF SavedCopy, SavedContent, c, s
  <2> QED BY <1>1, <1>6, <1>7, <1>8, <2>1, SameWalletsIs, StillIs DEF TabKnows
<1>12. TabCall(t)'
  BY <1>8 DEF TabCall
<1>13. TabSaves(t)'
  BY <1>0, <1>1, <1>2, <1>6, <1>8, Nones DEF TabSaves, On
<1>14. TabLeaves(t)'
  BY <1>0, <1>1, <1>2, <1>3, <1>5, <1>6, <1>7, <1>8 DEF TabLeaves, SameWallets
<1> QED BY <1>1, <1>7, <1>9, <1>10, <1>11, <1>12, <1>13, <1>14, OneTabOnly DEF TabInv, Still

\* What a tab is told of the copy stays told while the tab takes in more and the server
\* stays; tags are minted and removed.
LEMMA KnowsStays ==
  ASSUME Types, Types', Grows, UNCHANGED <<list, life>>, NEW t \in Tabs, TabInv(t),
         tab'[t].rev = tab[t].rev, tab'[t].known = tab[t].known, tab'[t].call = tab[t].call,
         lifeOf'[t] = lifeOf[t],
         \A ct : Heard(t, ct) /\ (tab[t].rev # None \/ tab[t].known # None) => Heard(t, ct)'
  PROVE  TabKnows(t)' /\ TabCall(t)'
<1> DEFINE s == tab[t]
           c == s.call
<1>0. /\ s \in Tab /\ c \in Calls \cup {None} /\ lifeOf[t] \in Nat /\ s.rev \in Nat \cup {None}
      /\ TabKnows(t) /\ TabCall(t) /\ TabShape(t) /\ CopyMoves
  BY DEF Types, StateTypes, GhostTypes, Tab, TabInv, CopyMoves
<1>1. Out(t)' = Out(t) /\ UNCHANGED <<SavedCopy, SavedContent>>
  BY DEF Out, SavedCopy, SavedContent
<1>2. \A l \in Nat, b \in Nat : Behind(l, b) => Behind(l, b)'
  BY <1>0, BehindStays
<1>3. \A l, b : Current(l, b)' => Current(l, b)
  BY <1>1 DEF Current, SavedCopy
<1>4. TabKnows(t)'
  <2> HIDE DEF SavedCopy, SavedContent
  <2>1. Out(t) \in {"put", "saved"} => s.rev # None
    BY <1>0 DEF TabShape
  <2> QED BY <1>0, <1>1, <1>2, <1>3, <2>1 DEF TabKnows
<1>5. TabCall(t)'
  <2>1. Out(t) = "put" => c \in Puts /\ PutInv(c)
    BY <1>0, CallTypes, Zenon DEF TabCall, Out
  <2>2. Out(t) = "saved" => /\ c.rev \in Nat /\ c.ct \in Content /\ c.life \in Nat
                            /\ Sound(c.ct) /\ Behind(c.life, c.rev)
                            /\ Current(c.life, c.rev) => c.ct = SavedContent
    BY <1>0, CallTypes, Zenon DEF TabCall, Out
  <2>3. Out(t) = "got" => /\ c.copy \in Lists /\ c.life \in Nat
                          /\ c.copy # NoList => Sound(c.copy.ct)
                          /\ Behind(c.life, RevOf(c.copy))
                          /\ Current(c.life, RevOf(c.copy)) => c.copy = SavedCopy
    BY <1>0, CallTypes, Zenon DEF TabCall, Out
  <2>4. Out(t) = "got" => RevOf(c.copy) \in Nat /\ (c.copy # NoList => c.copy.ct \in Content)
    BY <2>3 DEF Lists, RevOf
  <2>5. \A p \in Puts : PutInv(p) => PutInv(p)'
    BY <1>0, PutStays
  <2>6. \A ct \in Content : Sound(ct) => Sound(ct)'
    BY SoundStays
  <2> HIDE DEF SavedCopy, SavedContent
  <2> QED BY <1>1, <1>2, <1>3, <2>1, <2>2, <2>3, <2>4, <2>5, <2>6 DEF TabCall
<1> QED BY <1>4, <1>5

\* An import.
LEMMA ImportInv ==
  ASSUME Types, Types', SyncInv, NEW t \in Tabs, NEW w \in Wallets, Import(t, w)
  PROVE  SyncInv'
<1> DEFINE s == tab[t]
           r == tab'[t]
<1>0. /\ s \in Tab /\ tab \in [Tabs -> Tab] /\ TabShape(t) /\ TabTags(t) /\ TabKnows(t)
      /\ TabLeaves(t) /\ TabInv(t) /\ minted \in [Wallets -> Nat]
      /\ seen \in [Tabs -> [Wallets -> SUBSET Nat]] /\ s.tags \in [Wallets -> SUBSET Nat]
      /\ s.untagged \subseteq s.held
  BY DEF Types, StateTypes, GhostTypes, SyncInv, TabInv, Tab, TypedTab
<1>1. UNCHANGED <<list, late, dropped, lifeOf, life, clobbered, pressed>>
  BY DEF Import
<1>2. CASE s.sync = "off"
  <2>1. Set(t, [s EXCEPT !.held = @ \cup {w}]) /\ UNCHANGED <<minted, seen>>
    BY <1>2 DEF Import
  <2>2. r = [s EXCEPT !.held = @ \cup {w}] /\ \A u \in Tabs \ {t} : tab'[u] = tab[u]
    BY <1>0, <2>1 DEF Set
  <2>3. /\ r.sync = "off" /\ r.rev = None /\ r.known = None /\ r.call = None /\ r.leave = "no"
        /\ r.untagged = {} /\ r.tags = Nowhere /\ r.tombs = Nowhere /\ pressed'[t] = {}
    BY <1>0, <1>1, <1>2, <2>2 DEF TabShape, Tab
  <2> HIDE DEF r
  <2>4. TabInv(t)'
    BY <2>3, FreshTab DEF r
  <2>5. OthersStay(t)
    BY <1>1, <2>1, <2>2 DEF OthersStay
  <2> QED BY <1>1, <2>1, <2>4, <2>5, OneTabOnly
<1>3. CASE s.sync # "off"
  <2> DEFINE q == [s EXCEPT !.held = @ \cup {w}, !.untagged = @ \ {w},
                            !.tags[w] = {minted[w] + 1}, !.want = s.sync = "on"]
  <2>1. Step(t, q) /\ minted' = [minted EXCEPT ![w] = @ + 1]
    BY <1>3 DEF Import
  <2>2. r = q /\ \A u \in Tabs \ {t} : tab'[u] = tab[u]
    BY <1>0, <2>1 DEF Step, Set
  <2>3. /\ r.sync = s.sync /\ r.rev = s.rev /\ r.known = s.known /\ r.call = s.call
        /\ r.leave = s.leave /\ r.held = s.held \cup {w} /\ r.untagged = s.untagged \ {w}
        /\ r.tombs = s.tombs /\ (s.sync = "on" => r.want)
        /\ r.tags = [s.tags EXCEPT ![w] = {minted[w] + 1}]
    BY <1>0, <2>2 DEF Tab
  <2>4. q.tags = r.tags /\ q.tags \in [Wallets -> SUBSET Nat]
    <3>1. minted[w] + 1 \in Nat
      BY <1>0
    <3> QED BY <1>0, <2>2, <2>3, <3>1
  <2> HIDE DEF q, r
  <2>5. /\ \A v \in Wallets : seen'[t][v] = seen[t][v] \cup r.tags[v]
        /\ \A u \in Tabs \ {t} : seen'[u] = seen[u]
    BY <1>0, <2>1, <2>4, StepSeen
  <2>6. OthersStay(t) /\ Grows /\ CopyMoves
    BY <1>0, <1>1, <2>1, <2>2, <2>5 DEF OthersStay, Grows, CopyMoves
  <2>7. TabShape(t)'
    <3>1. ASSUME NEW v \in Wallets
          PROVE  /\ v \in r.held <=> v \in r.untagged \/ r.tags[v] # {}
                 /\ v \in r.untagged => r.tags[v] = {}
                 /\ r.tags[v] \cap r.tombs[v] = {}
      <4>1. CASE v = w
        <5>1. r.tags[w] = {minted[w] + 1} /\ w \in r.held /\ w \notin r.untagged
          BY <1>0, <2>3
        <5>2. r.tombs[w] \subseteq 1..minted[w] /\ minted[w] \in Nat
          BY <1>0, <2>3 DEF TabTags
        <5> QED BY <4>1, <5>1, <5>2
      <4>2. CASE v # w
        <5>1. r.tags[v] = s.tags[v] /\ (v \in r.held <=> v \in s.held)
              /\ (v \in r.untagged <=> v \in s.untagged) /\ r.tombs[v] = s.tombs[v]
          BY <1>0, <2>3, <4>2
        <5> QED BY <1>0, <1>3, <5>1 DEF TabShape
      <4> QED BY <4>1, <4>2
    <3>2. Out(t)' = Out(t)
      BY <2>3 DEF Out, r
    <3>3. r.untagged \subseteq Wallets
      BY DEF r, Types, StateTypes, Tab
    <3> QED BY <1>0, <1>3, <2>3, <3>1, <3>2, <3>3 DEF TabShape, r
  <2>8. TabTags(t)'
    <3> SUFFICES ASSUME NEW v \in Wallets
                 PROVE  /\ r.tags[v] \cup r.tombs[v] \subseteq 1..minted'[v]
                        /\ r.tags[v] \subseteq seen'[t][v] /\ r.tombs[v] \subseteq dropped'[v]
      BY DEF TabTags, r
    <3>1. s.tags[v] \cup s.tombs[v] \subseteq 1..minted[v] /\ s.tombs[v] \subseteq dropped[v]
          /\ minted[v] \in Nat
      BY <1>0 DEF TabTags
    <3>2. 1..minted[v] \subseteq 1..minted'[v] /\ (v = w => minted[v] + 1 \in 1..minted'[v])
      BY <1>0, <2>1, <3>1
    <3>3. r.tags[v] \subseteq s.tags[v] \cup (IF v = w THEN {minted[v] + 1} ELSE {})
      BY <1>0, <2>3
    <3> QED BY <1>1, <2>3, <2>5, <3>1, <3>2, <3>3
  <2>9. TabKnows(t)' /\ TabCall(t)'
    <3>1. \A ct : Heard(t, ct) => Heard(t, ct)'
      BY <1>1, <2>3, <2>5 DEF Heard, r
    <3> QED BY <1>0, <1>1, <2>3, <2>6, <3>1, KnowsStays DEF r
  <2>10. TabSaves(t)'
    BY <2>3 DEF TabSaves, On, r
  <2>11. TabLeaves(t)'
    <3>1. Out(t)' = Out(t)
      BY <2>3 DEF Out, r
    <3> QED BY <1>0, <1>1, <2>3, <3>1 DEF TabLeaves, r
  <2>12. CopyInv'
    BY <1>1, <2>6, CopyStays DEF SyncInv, TabInv
  <2> QED BY <1>1, <2>6, <2>7, <2>8, <2>9, <2>10, <2>11, <2>12, OneTabMoves DEF TabInv
<1> QED BY <1>2, <1>3

\* A wallet is taken out.
LEMMA RemoveInv ==
  ASSUME Types, Types', SyncInv, NEW t \in Tabs, NEW w \in Wallets, Remove(t, w)
  PROVE  SyncInv'
<1> DEFINE s == tab[t]
           r == tab'[t]
           q == [s EXCEPT !.held = @ \ {w}, !.untagged = @ \ {w}, !.tags[w] = {},
                          !.tombs[w] = @ \cup s.tags[w], !.want = s.sync = "on"]
<1>0. /\ s \in Tab /\ tab \in [Tabs -> Tab] /\ TabShape(t) /\ TabTags(t) /\ TabKnows(t)
      /\ TabLeaves(t) /\ TabInv(t) /\ minted \in [Wallets -> Nat]
         /\ dropped \in [Wallets -> SUBSET Nat]
      /\ seen \in [Tabs -> [Wallets -> SUBSET Nat]] /\ s.tags \in [Wallets -> SUBSET Nat]
      /\ s.tombs \in [Wallets -> SUBSET Nat] /\ s.held \subseteq Wallets
      /\ s.untagged \subseteq s.held /\ pressed \in [Tabs -> SUBSET Wallets]
  BY DEF Types, StateTypes, GhostTypes, SyncInv, TabInv, Tab, TypedTab
<1>1. /\ UNCHANGED <<list, late, minted, seen, lifeOf, life>> /\ w \in s.held /\ Set(t, q)
      /\ dropped' = IF s.tags[w] = {} THEN dropped ELSE [dropped EXCEPT ![w] = @ \cup seen[t][w]]
      /\ pressed' = [pressed EXCEPT ![t] = @ \ {w}]
  BY DEF Remove
<1>2. r = q /\ \A u \in Tabs \ {t} : tab'[u] = tab[u]
  BY <1>0, <1>1 DEF Set
<1>3. /\ r.sync = s.sync /\ r.rev = s.rev /\ r.known = s.known /\ r.call = s.call
      /\ r.leave = s.leave /\ r.held = s.held \ {w} /\ r.untagged = s.untagged \ {w}
      /\ (s.sync = "on" => r.want) /\ r.tags = [s.tags EXCEPT ![w] = {}]
      /\ r.tombs = [s.tombs EXCEPT ![w] = @ \cup s.tags[w]]
  BY <1>0, <1>2 DEF Tab
<1> HIDE DEF q, r
<1>4. /\ pressed'[t] = pressed[t] \ {w} /\ \A u \in Tabs \ {t} : pressed'[u] = pressed[u]
      /\ \A v \in Wallets : dropped[v] \subseteq dropped'[v]
      /\ s.tags[w] # {} => seen[t][w] \subseteq dropped'[w]
  BY <1>0, <1>1
<1>5. OthersStay(t) /\ Grows /\ CopyMoves /\ Out(t)' = Out(t)
  BY <1>0, <1>1, <1>2, <1>3, <1>4 DEF OthersStay, Grows, CopyMoves, Out, r
<1>6. ASSUME NEW v \in Wallets
      PROVE  /\ s.sync # "off" => (v \in r.held <=> v \in r.untagged \/ r.tags[v] # {})
             /\ v \in r.untagged => r.tags[v] = {}
             /\ r.tags[v] \cap r.tombs[v] = {}
             /\ r.tags[v] \cup r.tombs[v] = s.tags[v] \cup s.tombs[v]
             /\ r.tags[v] \subseteq s.tags[v]
             /\ r.tombs[v] \subseteq dropped'[v]
  <2>1. /\ s.tags[v] \subseteq seen[t][v] /\ s.tombs[v] \subseteq dropped[v]
        /\ s.sync # "off" => (v \in s.held <=> v \in s.untagged \/ s.tags[v] # {})
        /\ v \in s.untagged => s.tags[v] = {}
        /\ s.tags[v] \cap s.tombs[v] = {}
    BY <1>0 DEF TabTags, TabShape
  <2>2. CASE v = w
    <3>1. r.tags[w] = {} /\ r.tombs[w] = s.tombs[w] \cup s.tags[w] /\ w \notin r.held
          /\ w \notin r.untagged
      BY <1>0, <1>3
    <3>2. s.tags[w] \subseteq dropped'[w]
      BY <1>4, <2>1, <2>2
    <3> QED BY <1>4, <2>1, <2>2, <3>1, <3>2
  <2>3. CASE v # w
    <3>1. r.tags[v] = s.tags[v] /\ (v \in r.held <=> v \in s.held)
          /\ (v \in r.untagged <=> v \in s.untagged) /\ r.tombs[v] = s.tombs[v]
      BY <1>0, <1>3, <2>3
    <3> QED BY <1>4, <2>1, <3>1
  <2> QED BY <2>2, <2>3
<1>7. TabShape(t)'
  <2>1. s.sync = "off" => /\ r.tags = Nowhere /\ r.tombs = Nowhere /\ r.untagged = {}
                          /\ pressed'[t] = {}
    <3>1. ASSUME s.sync = "off" PROVE s.tags = Nowhere /\ s.tombs = Nowhere /\ s.untagged = {}
                 /\ pressed[t] = {}
      BY <1>0, <3>1 DEF TabShape
    <3>2. ASSUME s.sync = "off" PROVE \A v \in Wallets : r.tags[v] = {} /\ r.tombs[v] = {}
      BY <1>0, <1>3, <3>1, <3>2 DEF Nowhere
    <3>3. r.tags \in [Wallets -> SUBSET Nat] /\ r.tombs \in [Wallets -> SUBSET Nat]
      BY <1>0, <1>3
    <3> QED BY <1>3, <1>4, <3>1, <3>2, <3>3 DEF Nowhere
  <2>2. r.untagged \subseteq Wallets
    BY <1>0, <1>3
  <2> QED BY <1>0, <1>3, <1>5, <1>6, <2>1, <2>2 DEF TabShape, r
<1>8. TabTags(t)'
  BY <1>0, <1>1, <1>6 DEF TabTags, r
<1>9. TabKnows(t)' /\ TabCall(t)'
  <2>1. ASSUME NEW ct, Heard(t, ct), s.rev # None \/ s.known # None PROVE Heard(t, ct)'
    <3>1. s.tags[w] # {}
      <4>1. s.rev # None /\ s.untagged = {} /\ s.sync # "off"
        BY <1>0, <2>1 DEF TabShape
      <4> QED BY <1>0, <1>1, <4>1 DEF TabShape
    <3>2. ASSUME NEW v \in Wallets
          PROVE  /\ ct.dead[v] \subseteq r.tombs[v]
                 /\ ct.live[v] \subseteq seen'[t][v] \cup dropped'[v]
                 /\ v \notin r.held => ct.live[v] \subseteq dropped'[v]
      <4>1. /\ ct.dead[v] \subseteq s.tombs[v]
            /\ ct.live[v] \subseteq seen[t][v] \cup dropped[v]
            /\ v \notin s.held => ct.live[v] \subseteq dropped[v]
        BY <2>1 DEF Heard
      <4>2. s.tombs[v] \subseteq r.tombs[v] /\ seen'[t] = seen[t]
        BY <1>0, <1>1, <1>3
      <4>3. CASE v = w
        BY <1>4, <3>1, <4>1, <4>2, <4>3
      <4>4. CASE v # w
        BY <1>3, <1>4, <4>1, <4>2, <4>4
      <4> QED BY <4>3, <4>4
    <3> QED BY <3>2 DEF Heard, r
  <2> QED BY <1>0, <1>1, <1>3, <1>5, <2>1, KnowsStays DEF r
<1>10. TabSaves(t)'
  BY <1>3 DEF TabSaves, On, r
<1>11. TabLeaves(t)'
  BY <1>0, <1>3, <1>4, <1>5 DEF TabLeaves, r
<1>12. CopyInv'
  BY <1>1, <1>5, CopyStays DEF SyncInv, TabInv
<1> QED BY <1>1, <1>5, <1>7, <1>8, <1>9, <1>10, <1>11, <1>12, OneTabMoves DEF TabInv

\* What apply() makes of the tags: they are minted, none is tombstoned, and what of the copy
\* is not taken over was removed.
LEMMA AppliedIs ==
  ASSUME NEW s \in Tab, NEW ct \in Content, minted \in [Wallets -> Nat],
         NEW v \in Wallets,
         s.tags[v] \cup s.tombs[v] \subseteq 1..minted[v],
         ct.live[v] \cup ct.dead[v] \subseteq 1..minted[v]
  PROVE  LET r == Applied(s, ct) IN
         /\ r.untagged = {} /\ (v \in r.held <=> r.tags[v] # {})
         /\ r.tombs[v] = s.tombs[v] \cup ct.dead[v]
         /\ r.tags[v] \subseteq 1..(minted[v] + 1) /\ r.tags[v] \cap r.tombs[v] = {}
         /\ r.tags[v] # {minted[v] + 1} => r.tags[v] \subseteq 1..minted[v]
         /\ ct.live[v] \subseteq r.tags[v] \cup r.tombs[v]
<1> DEFINE dead == [w \in Wallets |-> s.tombs[w] \cup ct.dead[w]]
           remote == [w \in Wallets |-> ct.live[w] \ dead[w]]
           tags == [w \in Wallets |->
                      IF w \notin s.untagged THEN (s.tags[w] \cup remote[w]) \ dead[w]
                      ELSE IF remote[w] # {} THEN remote[w] ELSE {minted[w] + 1}]
           r == Applied(s, ct)
<1>1. r.untagged = {} /\ r.tags = tags /\ r.tombs = dead /\ r.held = {w \in Wallets : tags[w] # {}}
  BY DEF Applied, Tab
<1>2. dead[v] = s.tombs[v] \cup ct.dead[v] /\ remote[v] = ct.live[v] \ dead[v]
      /\ tags[v] = IF v \notin s.untagged THEN (s.tags[v] \cup remote[v]) \ dead[v]
                   ELSE IF remote[v] # {} THEN remote[v] ELSE {minted[v] + 1}
  OBVIOUS
<1>3. minted[v] \in Nat /\ minted[v] + 1 \notin 1..minted[v]
      /\ 1..minted[v] \subseteq 1..(minted[v] + 1) /\ minted[v] + 1 \in 1..(minted[v] + 1)
  OBVIOUS
<1> HIDE DEF dead, remote, tags, r
<1>4. CASE v \notin s.untagged
  BY <1>1, <1>2, <1>3, <1>4 DEF r
<1>5. CASE v \in s.untagged /\ remote[v] # {}
  BY <1>1, <1>2, <1>3, <1>5 DEF r
<1>6. CASE v \in s.untagged /\ remote[v] = {}
  BY <1>1, <1>2, <1>3, <1>6 DEF r
<1> QED BY <1>4, <1>5, <1>6

\* The copy has been read.
LEMMA GetBackInv ==
  ASSUME Types, Types', SyncInv, NEW t \in Tabs, GetBack(t)
  PROVE  SyncInv'
<1> DEFINE s == tab[t]
           c == s.call
           copy == c.copy
           ct == IF copy = NoList THEN Empty ELSE copy.ct
           a == Applied(s, ct)
           read == [a EXCEPT !.rev = RevOf(copy), !.call = None,
                             !.known = IF copy = NoList THEN None ELSE ct]
           done == [read EXCEPT !.want = @ \/ Local(read) # read.known]
           r == tab'[t]
<1>0. /\ s \in Tab /\ TypedTab(s) /\ tab \in [Tabs -> Tab] /\ TabShape(t) /\ TabTags(t)
      /\ TabCall(t) /\ TabSaves(t) /\ TabLeaves(t) /\ minted \in [Wallets -> Nat]
      /\ seen \in [Tabs -> [Wallets -> SUBSET Nat]] /\ c \in Calls \cup {None}
      /\ pressed \in [Tabs -> SUBSET Wallets] /\ lifeOf \in [Tabs -> Nat]
  BY DEF Types, StateTypes, GhostTypes, SyncInv, TabInv, Tab
<1>1. UNCHANGED <<list, late, dropped, life>> /\ Out(t) = "got"
  BY DEF GetBack
<1>2. c # None /\ copy \in Lists /\ c.life \in Nat /\ s.sync # "off" /\ s.leave # "saved"
  BY <1>0, <1>1, CallTypes DEF Out, TabShape
<1>3. /\ copy # NoList => Sound(copy.ct)
      /\ Behind(c.life, RevOf(copy))
      /\ Current(c.life, RevOf(copy)) => copy = SavedCopy
  BY <1>0, <1>1 DEF TabCall
<1>4. CASE copy # NoList /\ copy.keyId # s.key
  <2>1. Set(t, Blocked(s)) /\ UNCHANGED <<minted, seen, lifeOf, pressed>>
    BY <1>4 DEF GetBack
  <2> QED BY <1>1, <1>2, <2>1, BlockedInv DEF Still
<1>5. CASE ~(copy # NoList /\ copy.keyId # s.key)
  <2>1. /\ Step(t, done)
        /\ minted' = [w \in Wallets |->
              IF read.tags[w] = {minted[w] + 1} THEN minted[w] + 1 ELSE minted[w]]
        /\ lifeOf' = [lifeOf EXCEPT ![t] = c.life]
        /\ pressed' = [pressed EXCEPT ![t] = @ \cap read.held]
    BY <1>5 DEF GetBack
  <2>2. ct \in Content /\ RevOf(copy) \in Nat /\ (copy # NoList => ct # None)
    <3> HIDE DEF copy
    <3> QED BY <1>2, ContentTyped, Nones DEF Lists, RevOf
  <2>3. Sound(ct)
    <3>1. \A w \in Wallets : Empty.live[w] = {} /\ Empty.dead[w] = {}
      BY DEF Empty, Nowhere
    <3> HIDE DEF copy
    <3> QED BY <1>3, <3>1 DEF Sound
  <2>4. a \in Tab
    BY <1>0, <2>2, AppliedTyped DEF TypedTab
  <2>5. \A v \in Wallets :
          /\ a.untagged = {} /\ (v \in a.held <=> a.tags[v] # {})
          /\ a.tombs[v] = s.tombs[v] \cup ct.dead[v]
          /\ a.tags[v] \subseteq 1..(minted[v] + 1) /\ a.tags[v] \cap a.tombs[v] = {}
          /\ a.tags[v] # {minted[v] + 1} => a.tags[v] \subseteq 1..minted[v]
          /\ ct.live[v] \subseteq a.tags[v] \cup a.tombs[v]
    <3> TAKE v \in Wallets
    <3>1. /\ s.tags[v] \cup s.tombs[v] \subseteq 1..minted[v]
          /\ ct.live[v] \cup ct.dead[v] \subseteq 1..minted[v]
      <4> HIDE DEF ct
      <4> QED BY <1>0, <2>3 DEF TabTags, Sound
    <3> HIDE DEF ct, s
    <3> QED BY <1>0, <2>2, <3>1, AppliedIs
  <2>6. a.untagged = {}
    BY DEF Applied, Tab
  <2>7. /\ a.sync = s.sync /\ a.want = s.want /\ a.leave = s.leave /\ a.session = s.session
    BY <1>0 DEF Applied, Tab
  <2> HIDE DEF a, ct, copy
  <2>8. /\ read.sync = a.sync /\ read.want = a.want /\ read.leave = a.leave
        /\ read.session = a.session
        /\ read.held = a.held /\ read.tags = a.tags /\ read.tombs = a.tombs /\ read.untagged = {}
        /\ read.rev = RevOf(copy) /\ read.call = None
        /\ read.known = IF copy = NoList THEN None ELSE ct
    BY <2>4, <2>6 DEF Tab
  <2>9. read \in Tab
    BY <2>2, <2>4 DEF Tab
  <2> HIDE DEF read
  <2>10. /\ done.sync = s.sync /\ done.leave = s.leave /\ done.session = s.session
         /\ done.held = a.held /\ done.tags = a.tags /\ done.tombs = a.tombs /\ done.untagged = {}
         /\ done.rev = RevOf(copy) /\ done.call = None /\ done.known = read.known
         /\ ~done.want => Local(read) = read.known
    BY <2>7, <2>8, <2>9 DEF Tab
  <2>11. Local(done) = Local(read)
    BY <2>8, <2>10 DEF Local
  <2> HIDE DEF done
  <2>12. r = done /\ \A u \in Tabs \ {t} : tab'[u] = tab[u]
    BY <1>0, <2>1 DEF Step, Set
  <2> HIDE DEF r
  <2>13. /\ \A v \in Wallets : seen'[t][v] = seen[t][v] \cup a.tags[v]
         /\ \A u \in Tabs \ {t} : seen'[u] = seen[u]
    <3>1. a.tags \in [Wallets -> SUBSET Nat]
      BY <2>4 DEF Tab
    <3> QED BY <1>0, <2>1, <2>10, <3>1, StepSeen
  <2>14. \A v \in Wallets : /\ minted[v] \in Nat /\ minted[v] <= minted'[v]
                            /\ 1..minted[v] \subseteq 1..minted'[v]
                            /\ a.tags[v] \subseteq 1..minted'[v]
    <3> TAKE v \in Wallets
    <3>1. minted[v] \in Nat
          /\ minted'[v] = IF a.tags[v] = {minted[v] + 1} THEN minted[v] + 1 ELSE minted[v]
      BY <1>0, <2>1, <2>8
    <3>2. minted[v] <= minted'[v] /\ 1..minted[v] \subseteq 1..minted'[v]
      BY <3>1
    <3> QED BY <2>5, <3>1, <3>2
  <2>15. /\ pressed'[t] = pressed[t] \cap a.held /\ lifeOf'[t] = c.life
         /\ \A u \in Tabs \ {t} : pressed'[u] = pressed[u] /\ lifeOf'[u] = lifeOf[u]
    BY <1>0, <2>1, <2>8
  <2>16. OthersStay(t) /\ Grows /\ CopyMoves /\ Out(t)' = "none"
    <3>1. tab'[t].call = None
      BY <2>10, <2>12 DEF r
    <3> QED BY <1>1, <2>12, <2>13, <2>14, <2>15, <3>1 DEF OthersStay, Grows, CopyMoves, Out
  <2>17. TabShape(t)'
    <3>1. RevOf(copy) # None
      BY <2>2, Nones
    <3> QED BY <1>2, <2>5, <2>10, <2>12, <2>16, <3>1 DEF TabShape, r
  <2>18. \A v \in Wallets : a.tombs[v] \subseteq 1..minted[v] /\ a.tombs[v] \subseteq dropped[v]
    BY <1>0, <2>3, <2>5 DEF Sound, TabTags
  <2>19. TabTags(t)'
    BY <1>1, <2>10, <2>12, <2>13, <2>14, <2>18 DEF TabTags, r
  <2>20. TabKnows(t)'
    <3>1. ASSUME NEW v \in Wallets
          PROVE  /\ ct.dead[v] \subseteq a.tombs[v]
                 /\ ct.live[v] \subseteq seen'[t][v] \cup dropped[v]
                 /\ v \notin a.held => ct.live[v] \subseteq dropped[v]
      BY <2>5, <2>13, <2>18
    <3>2. \A k : k = ct => Heard(t, k)'
      BY <1>1, <2>10, <2>12, <3>1 DEF Heard, r
    <3>3. \A l, b : (Behind(l, b) => Behind(l, b)') /\ (Current(l, b)' => Current(l, b))
      BY <1>1 DEF Behind, Current, SavedCopy
    <3>4. UNCHANGED <<SavedCopy, SavedContent>>
      BY <1>1 DEF SavedCopy, SavedContent
    <3>5. copy = SavedCopy /\ SavedCopy # NoList => ct = SavedContent
      BY DEF SavedContent, ct
    <3>6. /\ r.known = IF copy = NoList THEN None ELSE ct
          /\ r.rev = RevOf(copy) /\ lifeOf'[t] = c.life
      BY <2>8, <2>10, <2>12, <2>15
    <3>7. /\ Behind(c.life, RevOf(copy))
          /\ Current(c.life, RevOf(copy)) => copy = SavedCopy
      BY <1>3
    <3> HIDE DEF SavedCopy, SavedContent
    <3> QED BY <2>16, <3>2, <3>3, <3>4, <3>5, <3>6, <3>7 DEF TabKnows, r
  <2>21. TabCall(t)'
    BY <2>16 DEF TabCall
  <2>22. TabSaves(t)'
    <3>1. RevOf(copy) # None
      BY <2>2, Nones
    <3> QED BY <2>10, <2>11, <2>12, <2>16, <3>1 DEF TabSaves, r
  <2>23. TabLeaves(t)'
    BY <1>0, <1>2, <2>10, <2>12, <2>15, <2>16 DEF TabLeaves, r
  <2>24. CopyInv'
    BY <1>1, <2>16, CopyStays DEF SyncInv, TabInv
  <2> QED BY <1>1, <2>16, <2>17, <2>19, <2>20, <2>21, <2>22, <2>23, <2>24, OneTabMoves DEF TabInv
<1> QED BY <1>4, <1>5

\* At first no tab has the account open and there is no copy.
LEMMA InitSyncInv == SyncInit => SyncInv
<1> SUFFICES ASSUME SyncInit PROVE SyncInv
  OBVIOUS
<1>1. /\ list = [a \in Account |-> NoList] /\ tab = [t \in Tabs |-> Closed] /\ late = {}
      /\ pressed = [t \in Tabs |-> {}]
  BY DEF SyncInit, RegisterInit
<1>2. SavedCopy = NoList /\ SavedContent = Empty
  BY <1>1, Nones DEF SavedCopy, SavedContent
<1>3. CopyInv /\ LateInv
  <2>1. \A w \in Wallets : Empty.live[w] = {} /\ Empty.dead[w] = {}
    BY DEF Empty, Nowhere
  <2> HIDE DEF SavedCopy, SavedContent, Empty
  <2> QED BY <1>1, <1>2, <2>1 DEF CopyInv, LateInv, Sound
<1>4. ASSUME NEW t \in Tabs PROVE TabInv(t)
  <2>1. tab[t] = Closed /\ pressed[t] = {}
    BY <1>1
  <2>2. /\ tab[t].tags = Nowhere /\ tab[t].tombs = Nowhere /\ tab[t].rev = None
        /\ tab[t].known = None /\ tab[t].call = None /\ tab[t].leave = "no"
        /\ tab[t].sync = "off" /\ tab[t].untagged = {}
    BY <2>1 DEF Closed
  <2>3. \A w \in Wallets : tab[t].tags[w] = {} /\ tab[t].tombs[w] = {}
    BY <2>2 DEF Nowhere
  <2>4. Out(t) = "none"
    BY <2>2 DEF Out
  <2>5. TabShape(t)
    BY <2>1, <2>2, <2>3, <2>4 DEF TabShape
  <2>6. TabTags(t) /\ TabKnows(t) /\ TabCall(t) /\ TabSaves(t) /\ TabLeaves(t)
    BY <2>1, <2>2, <2>3, <2>4 DEF TabTags, TabKnows, TabCall, TabSaves, TabLeaves, On
  <2> QED BY <2>5, <2>6 DEF TabInv
<1> QED BY <1>3, <1>4 DEF SyncInv, TabInv

\* Every step keeps the invariant.
LEMMA NextSyncInv == Types /\ Types' /\ SyncInv /\ [SyncNext]_syncVars => SyncInv'
<1> SUFFICES ASSUME Types, Types', SyncInv, [SyncNext]_syncVars PROVE SyncInv'
  OBVIOUS
<1>1. CASE UNCHANGED syncVars
  <2>1. /\ UNCHANGED <<list, tab, late, minted, seen, dropped, lifeOf, life, pressed>>
    BY <1>1 DEF syncVars, ghosts
  <2>2. CopyMoves /\ Grows
    BY <2>1 DEF CopyMoves, Grows, Types, StateTypes
  <2>3. ASSUME NEW u \in Tabs PROVE TabInv(u)'
    <3>1. TabInv(u)
      BY DEF SyncInv, TabInv
    <3>2. tab'[u] = [tab[u] EXCEPT !.session = tab[u].session]
      BY <2>1, SameSession
    <3> QED BY <2>1, <2>2, <3>1, <3>2, OtherTabStays
  <2>4. CopyInv'
    BY <2>1, <2>2, CopyStays DEF SyncInv, TabInv
  <2>5. ASSUME NEW p \in late' PROVE PutInv(p)'
    BY <2>1, <2>2, PutStays DEF SyncInv, TabInv, LateInv, Types, StateTypes
  <2> QED BY <2>3, <2>4, <2>5 DEF SyncInv, LateInv, TabInv
<1>2. ASSUME NEW t \in Tabs, Work(t) PROVE SyncInv'
  BY <1>2, QuietInv, GetServedInv, GetBackInv, SaveStartInv, PutServedInv, PutSavedInv DEF Work
<1>3. ASSUME NEW t \in Tabs, Visit(t) PROVE SyncInv'
  BY <1>3, BeginEnd, QuietInv, DeletedInv, ImportInv, RemoveInv DEF Visit
<1>4. ASSUME NEW t \in Tabs, LeaveEnd(t) \/ DeleteFails(t) \/ Lose(t) \/ Expire(t) PROVE SyncInv'
  BY <1>4, BeginEnd, QuietInv
<1>5. ASSUME NEW p \in late, LateServed(p) PROVE SyncInv'
  BY <1>5, LateServedInv
<1> QED BY <1>1, <1>2, <1>3, <1>4, <1>5 DEF SyncNext

\* The invariant of the sync: what a tab, a call or a late PUT says of the copy is true of it
\* for as long as the copy has the rev they name.
THEOREM SyncInvariant == SyncSpec => [](Types /\ SyncInv)
<1>1. SyncSpec => []Types
  BY SyncTypes, PTL DEF Types
<1> QED BY <1>1, InitSyncInv, NextSyncInv, PTL DEF SyncSpec

\* A tab that has something the server is not known to have, and whose session may save
\* it, has a save to come or a call out (dirty, scheduleSave(), scheduleRetry()).
THEOREM NothingIsForgotten == SyncSpec => []NothingUnsavedIsForgotten
<1>1. SyncInv => NothingUnsavedIsForgotten
  BY DEF SyncInv, TabInv, TabSaves, NothingUnsavedIsForgotten
<1> QED BY <1>1, SyncInvariant, PTL

\* Lock, Disconnect and Switch that go on unasked leave no wallet behind that was there
\* when they were pressed: leaveAccount.js waits for a flush that covers them.
THEOREM LeavesSaved == SyncSpec => []LeavingSavesFirst
<1>1. SyncInv => LeavingSavesFirst
  BY DEF SyncInv, TabInv, TabLeaves, LeavingSavesFirst
<1> QED BY <1>1, SyncInvariant, PTL

-----------------------------------------------------------------------------
(* The dApp's side: what its steps do to the copy *)

\* How the copy changes.
LEMMA ListMoves ==
  ASSUME Types, SyncInv, SyncNext, ~ UNCHANGED list
  PROVE  \/ \E t \in Tabs : DeleteSaved(t)
         \/ \E p \in Puts : PutInv(p) /\ Accept(p)
<1>1. ASSUME NEW t \in Tabs, Work(t) PROVE \E p \in Puts : PutInv(p) /\ Accept(p)
  <2>1. PutServed(t)
    BY <1>1 DEF Work, LoadStart, GetServed, GetBack, SaveStart, PutSaved, PutConflicts,
       PutMismatches, SessionIsOver, CallFails
  <2>2. Out(t) = "put" /\ Accept(tab[t].call)
    BY <2>1 DEF PutServed
  <2>3. PutInv(tab[t].call)
    BY <2>2 DEF SyncInv, TabInv, TabCall
  <2>4. tab[t].call \in Puts
    <3>1. tab[t].call \in Calls \cup {None} /\ tab[t].call # None /\ tab[t].call.op = "put"
      BY <2>2 DEF Types, StateTypes, Tab, Out
    <3> QED BY <3>1, CallTypes
  <2> QED BY <2>2, <2>3, <2>4
<1>2. ASSUME NEW t \in Tabs, Visit(t) PROVE DeleteSaved(t)
  BY <1>2 DEF Visit, Open, Close, SignInAgain, LeaveStart, LeaveOff, Import, Remove
<1>3. ASSUME NEW t \in Tabs, LeaveEnd(t) \/ DeleteFails(t) \/ Lose(t) \/ Expire(t) PROVE FALSE
  BY <1>3 DEF LeaveEnd, DeleteFails, Lose, Expire
<1>4. ASSUME NEW p \in late, LateServed(p) PROVE p \in Puts /\ PutInv(p) /\ Accept(p)
  BY <1>4 DEF LateServed, SyncInv, TabInv, LateInv, Types, StateTypes
<1> QED BY <1>1, <1>2, <1>3, <1>4 DEF SyncNext

\* What one step takes out of the copy.
LEMMA CopyKeeps ==
  ASSUME Types, SyncInv, [SyncNext]_syncVars
  PROVE  \/ SavedCopy' = NoList \/ clobbered'
         \/ /\ Survives(SavedContent, SavedContent')
            /\ \A w \in Wallets : SavedContent.dead[w] \subseteq SavedContent'.dead[w]
<1>1. CASE UNCHANGED list
  <2>1. SavedContent' = SavedContent
    BY <1>1 DEF SavedCopy, SavedContent
  <2> HIDE DEF SavedContent
  <2> QED BY <2>1 DEF Survives
<1>2. ASSUME NEW t \in Tabs, DeleteSaved(t) PROVE SavedCopy' = NoList
  BY <1>2, Nones DEF DeleteSaved, Deleted, SavedCopy, Types, StateTypes
<1>3. ASSUME NEW p \in Puts, PutInv(p), Accept(p), ~clobbered'
      PROVE  /\ Survives(SavedContent, SavedContent')
             /\ \A w \in Wallets : SavedContent.dead[w] \subseteq SavedContent'.dead[w]
  <2>1. p.life = life /\ p.base = RevOf(SavedCopy)
        /\ list' = [list EXCEPT ![Me] = [rev |-> p.base + 1, keyId |-> p.key, ct |-> p.ct]]
    BY <1>3 DEF Accept, CanSave, Saved, SavedCopy
  <2>2. Survives(SavedContent, p.ct)
        /\ \A w \in Wallets : SavedContent.dead[w] \subseteq p.ct.dead[w]
    BY <1>3, <2>1 DEF PutInv, Current
  <2>3. SavedContent' = p.ct
    <3>1. /\ [rev |-> p.base + 1, keyId |-> p.key, ct |-> p.ct] # NoList
          /\ list \in [Account -> Lists]
      BY SyncAssumption DEF Types, StateTypes, Puts, SyncAssumption
    <3> QED BY <2>1, <3>1, Nones DEF SavedContent, SavedCopy
  <2> HIDE DEF SavedContent
  <2> QED BY <2>2, <2>3
<1> QED BY <1>1, <1>2, <1>3, ListMoves DEF syncVars

\* No save loses a wallet: what leaves the copy was removed by tabs that had held each of
\* its tags, through conflicts, lost answers and late PUTs.
THEOREM SavedWalletsStay == SyncSpec => SavedWalletStays
<1>1. Types /\ SyncInv /\ [SyncNext]_syncVars
        => [SavedCopy' = NoList \/ clobbered' \/ Survives(SavedContent, SavedContent')]_syncVars
  BY CopyKeeps
<1> QED BY <1>1, SyncInvariant, PTL DEF SyncSpec, SavedWalletStays

\* A removal that was saved stays in every later version of the copy.
THEOREM RemovalsAreKept == SyncSpec => RemovalsStay
<1>1. Types /\ SyncInv /\ [SyncNext]_syncVars
        => [SavedCopy' = NoList \/ clobbered' \/ \A w \in Wallets :
             SavedContent.dead[w] \subseteq SavedContent'.dead[w]]_syncVars
  BY CopyKeeps
<1> QED BY <1>1, SyncInvariant, PTL DEF SyncSpec, RemovalsStay

\* Whatever the tabs do, the server is a register of lists: the assumption says only that
\* the register takes the contents a tab sends.
THEOREM SyncUsesTheRegister ==
  ASSUME Content \subseteq Contents PROVE SyncSpec => RegisterSpec
<1>1. SyncInit => RegisterInit
  BY DEF SyncInit
<1>2. Types /\ SyncInv /\ [SyncNext]_syncVars => [RegisterNext]_list
  <2> SUFFICES ASSUME Types, SyncInv, SyncNext, ~ UNCHANGED list PROVE RegisterNext
    BY DEF syncVars
  <2>1. ASSUME NEW t \in Tabs, DeleteSaved(t) PROVE RegisterNext
    BY <2>1, Nones DEF DeleteSaved, RegisterNext, CanDelete
  <2>2. ASSUME NEW p \in Puts, Accept(p) PROVE RegisterNext
    <3>1. p.key \in Keys /\ p.ct \in Contents
      BY <2>2 DEF Puts
    <3> QED BY <2>2, <3>1, Nones DEF Accept, RegisterNext, CanSave
  <2> QED BY <2>1, <2>2, ListMoves
<1> QED BY <1>1, <1>2, SyncInvariant, PTL DEF SyncSpec, RegisterSpec
=============================================================================
