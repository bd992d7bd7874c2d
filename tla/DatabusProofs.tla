---------------------------- MODULE DatabusProofs ----------------------------
(***************************************************************************)
(* The lock of the shared memory, for every number of control programs and *)
(* of starts of the gateway, as long as a gateway is not killed and the    *)
(* kernel gives out no identifier 0.  databus.c gets both cases wrong: a   *)
(* gateway that was killed leaves its semaphore behind, and the next one   *)
(* sets it to 1 while it may be held; run databus_zero is the other case.  *)
(***************************************************************************)
EXTENDS Databus, TLAPS

Live(p) == semAt[p] \in Gen /\ semval[semAt[p]] # Removed

\* The variables that the lock depends on.
LockType ==
    /\ pc \in [Proc -> {"off", "shm", "sem", "idle", "lock", "copy", "unlock", "rmsem", "done"}]
    /\ semAt \in [Proc -> 0..starts]
    /\ adj \in [Proc -> {0, 1}]
    /\ semKey \in 0..starts /\ starts \in 0..MaxStarts
    /\ semval \in [Gen -> {Removed, 0, 1}]

\* Where a process is attached to a semaphore.
Attachment ==
    \A p \in Proc :
        /\ pc[p] \in {"off", "shm", "done"} => semAt[p] = 0 /\ adj[p] = 0
        /\ pc[p] \in {"idle", "lock", "copy", "unlock", "rmsem"} => semAt[p] # 0
        /\ pc[p] = "sem" => p = Gate /\ semAt[p] # 0

\* A semaphore that exists is held by the process inside, which the kernel knows
\* of, and by nobody else.
Held ==
    /\ \A p \in Proc : Live(p) /\ Inside(p) => adj[p] = 1
    /\ \A p \in Proc : Live(p) /\ pc[p] \in {"idle", "lock"} => adj[p] = 0
    /\ \A p \in Proc : Live(p) /\ adj[p] = 1 => semval[semAt[p]] = 0
    /\ \A p, q \in Proc : Live(p) /\ p # q /\ semAt[p] = semAt[q] => adj[p] + adj[q] <= 1

\* A gateway that starts makes a semaphore of its own, which nobody holds before
\* its value is set.
Fresh ==
    /\ \A g \in Gen : g > starts => semval[g] = 0
    /\ pc[Gate] \in {"off", "shm"} => semKey = 0
    /\ pc[Gate] = "shm" => /\ starts # 0
                           /\ semval[starts] = 0
                           /\ \A p \in Proc : semAt[p] # starts
    /\ pc[Gate] = "sem" => /\ semval[semAt[Gate]] = 0
                           /\ \A p \in Proc : semAt[p] = semAt[Gate] => adj[p] = 0

LInv == LockType /\ Attachment /\ Held /\ Fresh

-----------------------------------------------------------------------------
(* The invariant is inductive *)

\* Who is attached to a semaphore is attached to one that was made.
LEMMA AttachedExists ==
    ASSUME LInv, NEW p \in Proc, semAt[p] # 0
    PROVE  semAt[p] \in Gen /\ semAt[p] <= starts
BY DatabusAssumption DEF LInv, LockType, Gen

LEMMA LInitInv == Init => LInv
BY DatabusAssumption
   DEF Init, LInv, LockType, Attachment, Held, Fresh, Live, Inside, Gen, Removed, Proc

\* Steps that leave the semaphores and the attachments alone: the process stays
\* inside the lock or outside of it.
LEMMA Moves ==
    ASSUME LInv, NEW p \in Proc, NEW to \in {"idle", "lock", "copy", "unlock", "rmsem"},
           Go(p, to),
           UNCHANGED <<semAt, adj, semKey, starts, semval>>,
           \/ pc[p] = "idle" /\ to = "lock"
           \/ pc[p] = "copy" /\ to = "unlock"
           \/ pc[p] \in {"idle", "lock", "copy", "unlock"} /\ to = "rmsem"
    PROVE  LInv'
<1> USE DEF LInv, LockType, Attachment, Held, Fresh, Live, Inside, Go
<1>1. LockType' /\ Attachment'
  OBVIOUS
<1>2. Held'
  OBVIOUS
<1>3. Fresh'
  OBVIOUS
<1> QED
  BY <1>1, <1>2, <1>3

\* A process that ends gives back what it held and is attached to nothing.
LEMMA Ends ==
    ASSUME LInv, NEW p \in Proc, End(p),
           p = Gate => FALSE
    PROVE  LInv'
<1> USE DEF LInv, LockType, Attachment, Held, Fresh, Live, Inside, Go, Gen, Removed
<1>1. semval' = Undone(p) /\ starts' = starts /\ semKey' = semKey
  BY DEF End, kernel
<1>2. \A g \in Gen : semval'[g] = IF g = semAt[p] /\ semval[g] # Removed
                                 THEN semval[g] + adj[p] ELSE semval[g]
  BY <1>1 DEF Undone
<1>3. LockType'
  <2>1. semval' \in [Gen -> {Removed, 0, 1}]
    BY <1>1, <1>2 DEF Undone
  <2>2. QED
    BY <1>1, <2>1 DEF End
<1>4. Attachment'
  BY DEF End
<1>5. Held'
  BY <1>1, <1>2, <1>3 DEF End
<1>6. Fresh'
  <2>1. p # Gate /\ pc'[Gate] = pc[Gate] /\ semAt'[Gate] = semAt[Gate] /\ Gate \in Proc
    BY DEF End, Proc
  <2>2. \A g \in Gen : g > starts => semval'[g] = 0
    BY <1>2
  <2>3. pc[Gate] = "shm" => starts # 0 /\ semval'[starts] = 0 /\ \A q \in Proc : semAt'[q] # starts
    BY <1>2, DatabusAssumption DEF End
  <2>4. pc[Gate] = "sem" => /\ semval'[semAt[Gate]] = 0
                           /\ \A q \in Proc : semAt'[q] = semAt[Gate] => adj'[q] = 0
    BY <1>2, <2>1, DatabusAssumption DEF End
  <2>5. QED
    BY <1>1, <2>1, <2>2, <2>3, <2>4
<1> QED
  BY <1>3, <1>4, <1>5, <1>6

LEMMA LStepInv ==
    ASSUME ~ZeroId, "kill_gate" \notin Faults
    PROVE  LInv /\ [Next]_vars => LInv'
<1> SUFFICES ASSUME LInv, [Next]_vars PROVE LInv'
  OBVIOUS
<1> Gate \in Proc /\ Ctrl \subseteq Proc /\ Gate \notin Ctrl
  BY GateAssumption DEF Proc
<1> \A g : Usable(g)
  BY DEF Usable
<1> USE DEF LInv, LockType, Attachment, Held, Fresh, Live, Inside, Go, Gen, Removed
<1>1. CASE GateShm
  BY <1>1, DatabusAssumption DEF GateShm
<1>2. CASE GateSem
  BY <1>2 DEF GateSem
<1>3. CASE GateSetVal
  <2>1. semAt[Gate] \in Gen /\ semval[semAt[Gate]] = 0 /\ semAt[Gate] <= starts
    BY <1>3, AttachedExists DEF GateSetVal
  <2>2. LockType' /\ Attachment'
    BY <1>3, <2>1 DEF GateSetVal, attached, kernel
  <2>3. Held'
    BY <1>3, <2>1 DEF GateSetVal, attached
  <2>4. Fresh'
    BY <1>3, <2>1 DEF GateSetVal, attached, kernel
  <2> QED
    BY <2>2, <2>3, <2>4
<1>4. CASE GateStart
  BY <1>4, Moves DEF GateStart, Start, attached, kernel
<1>5. CASE PutOut
  BY <1>5, Moves DEF PutOut, attached, kernel
<1>6. CASE GetIn
  BY <1>6, Moves DEF GetIn, Reading, attached, kernel
<1>7. ASSUME NEW p \in Proc, Unlock(p) PROVE LInv'
  <2>1. semAt[p] \in Gen /\ semAt[p] <= starts
    BY <1>7, AttachedExists DEF Unlock
  <2>2. CASE semval[semAt[p]] = Removed
    <3>1. UNCHANGED <<semval, adj, semAt, semKey, starts>> /\ pc' = [pc EXCEPT ![p] = "idle"]
      BY <1>7, <2>2 DEF Unlock, attached, kernel
    <3>2. LockType' /\ Attachment'
      BY <1>7, <3>1 DEF Unlock
    <3>3. Held'
      BY <2>1, <2>2, <3>1
    <3>4. Fresh'
      BY <1>7, <3>1 DEF Unlock
    <3> QED
      BY <3>2, <3>3, <3>4
  <2>3. CASE semval[semAt[p]] # Removed
    <3>1. /\ semval' = [semval EXCEPT ![semAt[p]] = 1]
          /\ adj' = [adj EXCEPT ![p] = 0]
          /\ UNCHANGED <<semAt, semKey, starts>> /\ pc' = [pc EXCEPT ![p] = "idle"]
      BY <1>7, <2>1, <2>3 DEF Unlock, attached, kernel
    <3>2. pc[p] = "unlock" /\ adj[p] = 1
      BY <1>7, <2>1, <2>3 DEF Unlock
    <3>3. LockType' /\ Attachment'
      BY <2>1, <3>1, <3>2
    <3>4. Held'
      <4>1. \A q \in Proc : q # p /\ semAt[q] = semAt[p] => adj[q] = 0
        BY <2>1, <2>3, <3>2
      <4>2. \A q \in Proc : Live(q)' /\ semAt[q] # semAt[p] => Live(q) /\ semval'[semAt[q]] = semval[semAt[q]]
        BY <2>1, <3>1
      <4>3. \A q \in Proc : semAt[q] = semAt[p] => adj'[q] = 0
        BY <3>1, <4>1
      <4>4. \A q \in Proc : semAt[q] # semAt[p] => pc'[q] = pc[q] /\ adj'[q] = adj[q] /\ semAt'[q] = semAt[q]
        BY <3>1
      <4>5. pc'[p] = "idle" /\ \A q \in Proc : q # p => pc'[q] = pc[q]
        BY <3>1
      <4>6. \A q \in Proc : q # p /\ semAt[q] = semAt[p] => ~Inside(q)
        BY <2>1, <2>3, <4>1
      <4>7. /\ \A q \in Proc : Live(q)' /\ Inside(q)' => adj'[q] = 1
            /\ \A q \in Proc : Live(q)' /\ pc'[q] \in {"idle", "lock"} => adj'[q] = 0
        BY <3>1, <4>2, <4>3, <4>4, <4>5, <4>6
      <4>8. \A q \in Proc : Live(q)' /\ adj'[q] = 1 => semval'[semAt'[q]] = 0
        BY <3>1, <4>2, <4>3, <4>4
      <4>9. \A q, r \in Proc : Live(q)' /\ q # r /\ semAt'[q] = semAt'[r] => adj'[q] + adj'[r] <= 1
        BY <3>1, <4>2, <4>3, <4>4
      <4> QED
        BY <4>7, <4>8, <4>9
    <3>5. Fresh'
      BY <2>1, <2>3, <3>1, <3>2
    <3> QED
      BY <3>3, <3>4, <3>5
  <2> QED
    BY <2>2, <2>3
<1>8. CASE GateRmSem
  <2>1. /\ semAt[Gate] \in Gen /\ semAt[Gate] <= starts
        /\ semval' = [semval EXCEPT ![semAt[Gate]] = Removed]
        /\ adj' = [adj EXCEPT ![Gate] = 0] /\ semAt' = [semAt EXCEPT ![Gate] = 0]
        /\ semKey' = 0 /\ starts' = starts /\ pc' = [pc EXCEPT ![Gate] = "off"]
    BY <1>8, AttachedExists DEF GateRmSem, ReleasesSemaphore
  <2>2. LockType' /\ Attachment'
    BY <2>1
  <2>3. Held'
    BY <2>1
  <2>4. Fresh'
    BY <2>1
  <2> QED
    BY <2>2, <2>3, <2>4
<1>9. ASSUME NEW c \in Ctrl, CtrlShm(c) PROVE LInv'
  BY <1>9 DEF CtrlShm, kernel
<1>10. ASSUME NEW c \in Ctrl, CtrlSem(c) PROVE LInv'
  <2>1. /\ semAt[c] = 0 /\ adj[c] = 0 /\ semAt' = [semAt EXCEPT ![c] = semKey]
        /\ pc' = [pc EXCEPT ![c] = IF semKey = 0 THEN "done" ELSE "idle"]
        /\ UNCHANGED <<adj, semKey, starts, semval>>
    BY <1>10 DEF CtrlSem, kernel
  <2>2. LockType' /\ Attachment'
    BY <2>1
  <2>3. Held'
    BY <2>1
  <2>4. Fresh'
    BY <2>1
  <2> QED
    BY <2>2, <2>3, <2>4
<1>11. ASSUME NEW c \in Ctrl, CtrlStart(c) PROVE LInv'
  BY <1>11, Moves DEF CtrlStart, Start, attached, kernel
<1>12. ASSUME NEW c \in Ctrl, PutIn(c) PROVE LInv'
  BY <1>12, Moves DEF PutIn, attached, kernel
<1>13. ASSUME NEW c \in Ctrl, GetOut(c) PROVE LInv'
  BY <1>13, Moves DEF GetOut, Reading, attached, kernel
<1>14. ASSUME NEW c \in Ctrl, Exit(c) PROVE LInv'
  BY <1>14, Ends DEF Exit
<1>15. CASE TermGate
  BY <1>15, Moves DEF TermGate, attached
<1>16. ASSUME NEW p \in Proc, Lock(p) PROVE LInv'
  <2>1. /\ semAt[p] \in Gen /\ semAt[p] <= starts /\ pc[p] = "lock"
        /\ pc' = [pc EXCEPT ![p] = "copy"]
        /\ UNCHANGED <<semAt, semKey, starts>>
    BY <1>16, AttachedExists DEF Lock, attached, kernel
  <2>2. CASE semval[semAt[p]] = Removed
    <3>1. UNCHANGED <<semval, adj>>
      BY <1>16, <2>1, <2>2 DEF Lock
    <3>2. LockType' /\ Attachment'
      BY <2>1, <3>1
    <3>3. Held'
      BY <2>1, <2>2, <3>1
    <3>4. Fresh'
      BY <2>1, <3>1
    <3> QED
      BY <3>2, <3>3, <3>4
  <2>3. CASE semval[semAt[p]] # Removed
    <3>1. semval[semAt[p]] = 1 /\ adj[p] = 0
      BY <1>16, <2>1, <2>3 DEF Lock
    <3>2. /\ semval' = [semval EXCEPT ![semAt[p]] = 0]
          /\ adj' = [adj EXCEPT ![p] = 1]
      BY <1>16, <2>1, <2>3, <3>1 DEF Lock
    <3>3. LockType' /\ Attachment'
      BY <2>1, <3>1, <3>2
    <3>4. Held'
      BY <2>1, <2>3, <3>1, <3>2
    <3>5. Fresh'
      BY <2>1, <3>1, <3>2
    <3> QED
      BY <3>3, <3>4, <3>5
  <2> QED
    BY <2>2, <2>3
<1>17. ASSUME NEW p \in Proc, Kill(p) PROVE LInv'
  BY <1>17, Ends DEF Kill
<1>18. CASE UNCHANGED vars
  BY <1>18 DEF vars, attached, kernel
<1> QED
  BY <1>1, <1>2, <1>3, <1>4, <1>5, <1>6, <1>7, <1>8, <1>9, <1>10, <1>11, <1>12,
     <1>13, <1>14, <1>15, <1>16, <1>17, <1>18
     DEF Next, GateStep, CtrlStep

-----------------------------------------------------------------------------

\* Two processes are never inside the lock of one semaphore, however many control
\* programs come, are killed inside, or wait when the gateway is terminated, and
\* however often it is started again.
THEOREM LockExcludes ==
    ASSUME ~ZeroId, "kill_gate" \notin Faults
    PROVE  Spec => []MutualExclusion
<1>1. LInv /\ [Next]_vars => LInv'
  BY LStepInv
<1>2. LInv => MutualExclusion
  BY AttachedExists DEF LInv, Attachment, Held, Live, Inside, MutualExclusion, Removed
<1> QED
  BY LInitInv, <1>1, <1>2, PTL DEF Spec

\* Without a killed gateway and an identifier 0, the comments at databus.c:247 and
\* 250 are right: who is inside finds the semaphore at 0, and it
\* never rises above 1.
THEOREM SemaphoreIsBinary ==
    ASSUME ~ZeroId, "kill_gate" \notin Faults
    PROVE  Spec => [](LockedIsZero /\ UnlockedIsOne)
<1>1. LInv /\ [Next]_vars => LInv'
  BY LStepInv
<1>2. LInv => LockedIsZero
  BY AttachedExists DEF LInv, LockType, Attachment, Held, Live, Inside, LockedIsZero
<1>3. LInv => UnlockedIsOne
  BY DEF LInv, LockType, UnlockedIsOne, Removed
<1> QED
  BY LInitInv, <1>1, <1>2, <1>3, PTL DEF Spec
=============================================================================
