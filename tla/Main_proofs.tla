----------------------------- MODULE Main_proofs -----------------------------
(***************************************************************************)
(* Theorems about ControlLoop for any set of clients, any cycle counts and *)
(* any number of runs, with and without failing thread creation and early  *)
(* destruction; then about Main, whose main() is one such client.          *)
(*                                                                         *)
(* MainAssumption, which fixes the constants of ControlLoop to what main() *)
(* passes, is cited by the theorems about Main only.                       *)
(***************************************************************************)
EXTENDS Main, TLAPS

USE CycleCountsAssumption, MaxRunCallsAssumption, FlagsAssumption, NoClientAssumption

LEMMA InitLifecycleInv == Init => LifecycleInv
<1> SUFFICES ASSUME Init PROVE LifecycleInv
    OBVIOUS
<1> USE DEF Init
<1>1. TypeOK
  <2>1. /\ pc \in [Clients -> ClientPoints] /\ arg \in [Clients -> CycleCounts \cup {0}]
    BY DEF ClientPoints, LifecycleStates
  <2>2. 0 \in 0 .. MaxRunCalls
    OBVIOUS
  <2> QED BY <2>1, <2>2, Zenon DEF TypeOK, LifecycleStates, Active
<1>2. MutexProtects /\ LifecycleTellsWorker /\ IdleOwnsNothing /\ WorkerIsOwned
    BY DEF MutexProtects, LifecycleTellsWorker, IdleOwnsNothing, WorkerIsOwned,
       InCriticalSection, Active
<1>3. ExitIsJustified /\ Counting /\ Destruction
    BY DEF ExitIsJustified, Counting, Destruction, Active
<1> QED BY <1>1, <1>2, <1>3 DEF LifecycleInv

-----------------------------------------------------------------------------
(* The arguments of run() are numbers, also where 0 stands for none yet. *)
LEMMA CountsAreIntegers == \A n \in CycleCounts \cup {0} : n \in Int
BY CycleCountsAssumption

(* A client inside a critical section is the only one. *)
LEMMA OthersOutside ==
    ASSUME MutexProtects, NEW c \in Clients, pc[c] \in InCriticalSection
    PROVE  \A d \in Clients \ {c} : pc[d] \notin InCriticalSection
BY DEF MutexProtects

-----------------------------------------------------------------------------
(* One lemma per step of a client. *)

LEMMA CallRunKeepsInv ==
    ASSUME LifecycleInv, NEW c \in Clients, CallRun(c)
    PROVE  LifecycleInv'
<1> USE DEF LifecycleInv, CallRun, threadVars, historyVars, Goto, Acquire, ReturnAndRelease
<1>1. TypeOK'
    BY DEF TypeOK, ClientPoints, LifecycleStates, Active
<1>2. MutexProtects'
    BY DEF MutexProtects, InCriticalSection, ClientPoints, TypeOK
<1>3. LifecycleTellsWorker'
    BY DEF LifecycleTellsWorker, TypeOK, Active
<1>4. IdleOwnsNothing'
    BY DEF IdleOwnsNothing, TypeOK
<1>5. WorkerIsOwned'
    BY DEF WorkerIsOwned, TypeOK
<1>6. ExitIsJustified'
    BY DEF ExitIsJustified, StopSeen, TypeOK
<1>7. Counting'
    BY DEF Counting, StopSeen, TypeOK, Active
<1>8. Destruction'
    BY DEF Destruction, TypeOK
<1> QED BY <1>1, <1>2, <1>3, <1>4, <1>5, <1>6, <1>7, <1>8

LEMMA RunLockKeepsInv ==
    ASSUME LifecycleInv, NEW c \in Clients, RunLock(c)
    PROVE  LifecycleInv'
<1> USE DEF LifecycleInv, RunLock, threadVars, historyVars, Goto, Acquire, ReturnAndRelease
<1>1. TypeOK'
    BY DEF TypeOK, ClientPoints, LifecycleStates, Active
<1>2. MutexProtects'
    BY DEF MutexProtects, InCriticalSection, ClientPoints, TypeOK
<1>3. LifecycleTellsWorker'
    BY DEF LifecycleTellsWorker, TypeOK, Active
<1>4. IdleOwnsNothing'
    BY DEF IdleOwnsNothing, TypeOK
<1>5. WorkerIsOwned'
    BY DEF WorkerIsOwned, TypeOK
<1>6. ExitIsJustified'
    BY DEF ExitIsJustified, StopSeen, TypeOK
<1>7. Counting'
    BY DEF Counting, StopSeen, TypeOK, Active
<1>8. Destruction'
    BY DEF Destruction, TypeOK
<1> QED BY <1>1, <1>2, <1>3, <1>4, <1>5, <1>6, <1>7, <1>8

LEMMA RunRejectedKeepsInv ==
    ASSUME LifecycleInv, NEW c \in Clients, RunRejected(c)
    PROVE  LifecycleInv'
<1> USE DEF LifecycleInv, RunRejected, threadVars, historyVars, Goto, Acquire, ReturnAndRelease
<1>1. TypeOK'
    BY DEF TypeOK, ClientPoints, LifecycleStates, Active
<1>2. MutexProtects'
    BY DEF MutexProtects, InCriticalSection, ClientPoints, TypeOK
<1>0. \A d \in Clients \ {c} : pc[d] \notin InCriticalSection
    BY OthersOutside DEF InCriticalSection, ClientPoints
<1> USE DEF InCriticalSection, ClientPoints
<1>3. LifecycleTellsWorker'
    BY <1>0 DEF LifecycleTellsWorker, TypeOK, Active
<1>4. IdleOwnsNothing'
    BY <1>0 DEF IdleOwnsNothing, TypeOK
<1>5. WorkerIsOwned'
    BY <1>0 DEF WorkerIsOwned, TypeOK
<1>6. ExitIsJustified'
    BY <1>0 DEF ExitIsJustified, StopSeen, TypeOK
<1>7. Counting'
    BY <1>0 DEF Counting, StopSeen, TypeOK, Active
<1>8. Destruction'
    BY <1>0 DEF Destruction, TypeOK
<1> QED BY <1>1, <1>2, <1>3, <1>4, <1>5, <1>6, <1>7, <1>8

LEMMA RunAcceptedKeepsInv ==
    ASSUME LifecycleInv, NEW c \in Clients, RunAccepted(c)
    PROVE  LifecycleInv'
<1> USE DEF LifecycleInv, RunAccepted, MayRun, threadVars, historyVars, Goto, Acquire, ReturnAndRelease
<1>1. TypeOK'
  <2>1. arg[c] \in Int /\ arg[c] > 0 /\ requested \in Nat
    BY CountsAreIntegers DEF TypeOK
  <2>2. requested' \in Nat
    BY <2>1
  <2> QED BY <2>2 DEF TypeOK, ClientPoints, LifecycleStates
<1>2. MutexProtects'
    BY DEF MutexProtects, InCriticalSection, ClientPoints, TypeOK
<1>0. \A d \in Clients \ {c} : pc[d] \notin InCriticalSection
    BY OthersOutside DEF InCriticalSection, ClientPoints
<1> USE DEF InCriticalSection, ClientPoints
<1>3. LifecycleTellsWorker'
    BY <1>0 DEF LifecycleTellsWorker, TypeOK, Active
<1>4. IdleOwnsNothing'
    BY <1>0 DEF IdleOwnsNothing, TypeOK, LifecycleTellsWorker
<1>5. WorkerIsOwned'
    BY <1>0 DEF WorkerIsOwned, TypeOK
<1>6. ExitIsJustified'
    BY <1>0 DEF ExitIsJustified, StopSeen, TypeOK, LifecycleTellsWorker
<1>7. Counting'
  <2>1. worker = "none" /\ worker' = "none"
    BY DEF LifecycleTellsWorker
  <2>2. \A d \in Clients : pc'[d] = "run_construct" => d = c
    BY <1>0 DEF TypeOK
  <2>3. arg[c] \in Int /\ arg[c] > 0 /\ completed \in Nat /\ requested \in Nat
    BY CountsAreIntegers DEF TypeOK
  <2>4. completed <= requested
    BY DEF Counting
  <2>5. completed <= requested' /\ completed + arg[c] <= requested'
    BY <2>3, <2>4
  <2> QED BY <2>1, <2>2, <2>3, <2>5 DEF Counting, Active
<1>8. Destruction'
    BY <1>0 DEF Destruction, TypeOK
<1> QED BY <1>1, <1>2, <1>3, <1>4, <1>5, <1>6, <1>7, <1>8

LEMMA ConstructThreadKeepsInv ==
    ASSUME LifecycleInv, NEW c \in Clients, ConstructThread(c)
    PROVE  LifecycleInv'
<1> USE DEF LifecycleInv, ConstructThread, threadVars, historyVars, Goto, Acquire, ReturnAndRelease
<1>1. TypeOK'
    BY DEF TypeOK, ClientPoints, LifecycleStates, Active
<1>2. MutexProtects'
    BY DEF MutexProtects, InCriticalSection, ClientPoints, TypeOK
<1>0. \A d \in Clients \ {c} : pc[d] \notin InCriticalSection
    BY OthersOutside DEF InCriticalSection, ClientPoints
<1> USE DEF InCriticalSection, ClientPoints
<1>3. LifecycleTellsWorker'
    BY <1>0 DEF LifecycleTellsWorker, TypeOK, Active, IdleOwnsNothing
<1>4. IdleOwnsNothing'
    BY <1>0 DEF IdleOwnsNothing, TypeOK, LifecycleTellsWorker
<1>5. WorkerIsOwned'
    BY <1>0 DEF WorkerIsOwned, TypeOK
<1>6. ExitIsJustified'
    BY <1>0 DEF ExitIsJustified, StopSeen, TypeOK
<1>7. Counting'
    BY <1>0 DEF Counting, StopSeen, TypeOK, Active
<1>8. Destruction'
    BY <1>0 DEF Destruction, TypeOK
<1> QED BY <1>1, <1>2, <1>3, <1>4, <1>5, <1>6, <1>7, <1>8

LEMMA ConstructThrowsKeepsInv ==
    ASSUME LifecycleInv, NEW c \in Clients, ConstructThrows(c)
    PROVE  LifecycleInv'
<1> USE DEF LifecycleInv, ConstructThrows, threadVars, historyVars, Goto, Acquire, ReturnAndRelease
<1>1. TypeOK'
    BY DEF TypeOK, ClientPoints, LifecycleStates, Active
<1>2. MutexProtects'
    BY DEF MutexProtects, InCriticalSection, ClientPoints, TypeOK
<1>0. \A d \in Clients \ {c} : pc[d] \notin InCriticalSection
    BY OthersOutside DEF InCriticalSection, ClientPoints
<1> USE DEF InCriticalSection, ClientPoints
<1>3. LifecycleTellsWorker'
    BY DEF LifecycleTellsWorker, Active
<1>4. IdleOwnsNothing'
    BY <1>0 DEF IdleOwnsNothing, TypeOK
<1>5. WorkerIsOwned'
    BY <1>0 DEF WorkerIsOwned, TypeOK
<1>6. ExitIsJustified'
    BY <1>0 DEF ExitIsJustified, StopSeen, TypeOK
<1>7. Counting'
    BY <1>0 DEF Counting, StopSeen, TypeOK, Active
<1>8. Destruction'
    BY <1>0 DEF Destruction, TypeOK
<1> QED BY <1>1, <1>2, <1>3, <1>4, <1>5, <1>6, <1>7, <1>8

LEMMA AssignThreadKeepsInv ==
    ASSUME LifecycleInv, NEW c \in Clients, AssignThread(c)
    PROVE  LifecycleInv'
<1> USE DEF LifecycleInv, AssignThread, threadVars, historyVars, Goto, Acquire, ReturnAndRelease
<1>1. TypeOK'
    BY DEF TypeOK, ClientPoints, LifecycleStates, Active
<1>2. MutexProtects'
    BY DEF MutexProtects, InCriticalSection, ClientPoints, TypeOK
<1>0. \A d \in Clients \ {c} : pc[d] \notin InCriticalSection
    BY OthersOutside DEF InCriticalSection, ClientPoints
<1> USE DEF InCriticalSection, ClientPoints
<1>3. LifecycleTellsWorker'
    BY <1>0 DEF LifecycleTellsWorker, TypeOK, Active, IdleOwnsNothing
<1>4. IdleOwnsNothing'
    BY <1>0 DEF IdleOwnsNothing, TypeOK
<1>5. WorkerIsOwned'
    BY <1>0 DEF WorkerIsOwned, TypeOK
<1>6. ExitIsJustified'
    BY <1>0 DEF ExitIsJustified, StopSeen, TypeOK
<1>7. Counting'
    BY <1>0 DEF Counting, StopSeen, TypeOK, Active
<1>8. Destruction'
    BY <1>0 DEF Destruction, TypeOK
<1> QED BY <1>1, <1>2, <1>3, <1>4, <1>5, <1>6, <1>7, <1>8

LEMMA RequestStopKeepsInv ==
    ASSUME LifecycleInv, NEW c \in Clients, RequestStop(c)
    PROVE  LifecycleInv'
<1> USE DEF LifecycleInv, RequestStop, threadVars, historyVars, Goto, Acquire, ReturnAndRelease
<1>1. TypeOK'
    BY DEF TypeOK, ClientPoints, LifecycleStates, Active
<1>2. MutexProtects'
    BY DEF MutexProtects, InCriticalSection, ClientPoints, TypeOK
<1>3. LifecycleTellsWorker'
    BY DEF LifecycleTellsWorker, TypeOK, Active
<1>4. IdleOwnsNothing'
    BY DEF IdleOwnsNothing, TypeOK
<1>5. WorkerIsOwned'
    BY DEF WorkerIsOwned, TypeOK
<1>6. ExitIsJustified'
    BY DEF ExitIsJustified, StopSeen, TypeOK
<1>7. Counting'
    BY DEF Counting, StopSeen, TypeOK, Active
<1>8. Destruction'
    BY DEF Destruction, TypeOK
<1> QED BY <1>1, <1>2, <1>3, <1>4, <1>5, <1>6, <1>7, <1>8

LEMMA CallWaitKeepsInv ==
    ASSUME LifecycleInv, NEW c \in Clients, CallWait(c)
    PROVE  LifecycleInv'
<1> USE DEF LifecycleInv, CallWait, threadVars, historyVars, Goto, Acquire, ReturnAndRelease
<1>1. TypeOK'
    BY DEF TypeOK, ClientPoints, LifecycleStates, Active
<1>2. MutexProtects'
    BY DEF MutexProtects, InCriticalSection, ClientPoints, TypeOK
<1>3. LifecycleTellsWorker'
    BY DEF LifecycleTellsWorker, TypeOK, Active
<1>4. IdleOwnsNothing'
    BY DEF IdleOwnsNothing, TypeOK
<1>5. WorkerIsOwned'
    BY DEF WorkerIsOwned, TypeOK
<1>6. ExitIsJustified'
    BY DEF ExitIsJustified, StopSeen, TypeOK
<1>7. Counting'
    BY DEF Counting, StopSeen, TypeOK, Active
<1>8. Destruction'
    BY DEF Destruction, TypeOK
<1> QED BY <1>1, <1>2, <1>3, <1>4, <1>5, <1>6, <1>7, <1>8

LEMMA WaitLockKeepsInv ==
    ASSUME LifecycleInv, NEW c \in Clients, WaitLock(c)
    PROVE  LifecycleInv'
<1> USE DEF LifecycleInv, WaitLock, threadVars, historyVars, Goto, Acquire, ReturnAndRelease
<1>1. TypeOK'
    BY DEF TypeOK, ClientPoints, LifecycleStates, Active
<1>2. MutexProtects'
    BY DEF MutexProtects, InCriticalSection, ClientPoints, TypeOK
<1>3. LifecycleTellsWorker'
    BY DEF LifecycleTellsWorker, TypeOK, Active
<1>4. IdleOwnsNothing'
    BY DEF IdleOwnsNothing, TypeOK
<1>5. WorkerIsOwned'
    BY DEF WorkerIsOwned, TypeOK
<1>6. ExitIsJustified'
    BY DEF ExitIsJustified, StopSeen, TypeOK
<1>7. Counting'
    BY DEF Counting, StopSeen, TypeOK, Active
<1>8. Destruction'
    BY DEF Destruction, TypeOK
<1> QED BY <1>1, <1>2, <1>3, <1>4, <1>5, <1>6, <1>7, <1>8

LEMMA WaitCheckKeepsInv ==
    ASSUME LifecycleInv, NEW c \in Clients, WaitCheck(c)
    PROVE  LifecycleInv'
<1> USE DEF LifecycleInv, WaitCheck, threadVars, historyVars, Goto, Acquire, ReturnAndRelease
<1>1. TypeOK'
    BY DEF TypeOK, ClientPoints, LifecycleStates, Active
<1>2. MutexProtects'
    BY DEF MutexProtects, InCriticalSection, ClientPoints, TypeOK
<1>0. \A d \in Clients \ {c} : pc[d] \notin InCriticalSection
    BY OthersOutside DEF InCriticalSection, ClientPoints
<1> USE DEF InCriticalSection, ClientPoints
<1>3. LifecycleTellsWorker'
    BY <1>0 DEF LifecycleTellsWorker, TypeOK, Active
<1>4. IdleOwnsNothing'
    BY <1>0 DEF IdleOwnsNothing, TypeOK, WorkerIsOwned
<1>5. WorkerIsOwned'
    BY <1>0 DEF WorkerIsOwned, TypeOK
<1>6. ExitIsJustified'
    BY <1>0 DEF ExitIsJustified, StopSeen, TypeOK
<1>7. Counting'
    BY <1>0 DEF Counting, StopSeen, TypeOK, Active
<1>8. Destruction'
    BY <1>0 DEF Destruction, TypeOK
<1> QED BY <1>1, <1>2, <1>3, <1>4, <1>5, <1>6, <1>7, <1>8

LEMMA WaitJoinKeepsInv ==
    ASSUME LifecycleInv, NEW c \in Clients, WaitJoin(c)
    PROVE  LifecycleInv'
<1> USE DEF LifecycleInv, WaitJoin, threadVars, historyVars, Goto, Acquire, ReturnAndRelease
<1>1. TypeOK'
    BY DEF TypeOK, ClientPoints, LifecycleStates, Active
<1>2. MutexProtects'
    BY DEF MutexProtects, InCriticalSection, ClientPoints, TypeOK
<1>0. \A d \in Clients \ {c} : pc[d] \notin InCriticalSection
    BY OthersOutside DEF InCriticalSection, ClientPoints
<1> USE DEF InCriticalSection, ClientPoints
<1>3. LifecycleTellsWorker'
    BY <1>0 DEF LifecycleTellsWorker, TypeOK, Active
<1>4. IdleOwnsNothing'
    BY <1>0 DEF IdleOwnsNothing, TypeOK
<1>5. WorkerIsOwned'
    BY <1>0 DEF WorkerIsOwned, TypeOK, LifecycleTellsWorker
<1>6. ExitIsJustified'
    BY <1>0 DEF ExitIsJustified, StopSeen, TypeOK
<1>7. Counting'
    BY <1>0 DEF Counting, StopSeen, TypeOK, Active
<1>8. Destruction'
    BY <1>0 DEF Destruction, TypeOK
<1> QED BY <1>1, <1>2, <1>3, <1>4, <1>5, <1>6, <1>7, <1>8

LEMMA WaitIdleKeepsInv ==
    ASSUME LifecycleInv, NEW c \in Clients, WaitIdle(c)
    PROVE  LifecycleInv'
<1> USE DEF LifecycleInv, WaitIdle, threadVars, historyVars, Goto, Acquire, ReturnAndRelease
<1>1. TypeOK'
    BY DEF TypeOK, ClientPoints, LifecycleStates, Active
<1>2. MutexProtects'
    BY DEF MutexProtects, InCriticalSection, ClientPoints, TypeOK
<1>0. \A d \in Clients \ {c} : pc[d] \notin InCriticalSection
    BY OthersOutside DEF InCriticalSection, ClientPoints
<1> USE DEF InCriticalSection, ClientPoints
<1>3. LifecycleTellsWorker'
    BY <1>0 DEF LifecycleTellsWorker, TypeOK, Active, IdleOwnsNothing
<1>4. IdleOwnsNothing'
    BY <1>0 DEF IdleOwnsNothing, TypeOK, LifecycleTellsWorker
<1>5. WorkerIsOwned'
    BY <1>0 DEF WorkerIsOwned, TypeOK
<1>6. ExitIsJustified'
    BY <1>0 DEF ExitIsJustified, StopSeen, TypeOK
<1>7. Counting'
    BY <1>0 DEF Counting, StopSeen, TypeOK, Active
<1>8. Destruction'
    BY <1>0 DEF Destruction, TypeOK
<1> QED BY <1>1, <1>2, <1>3, <1>4, <1>5, <1>6, <1>7, <1>8

-----------------------------------------------------------------------------
(* One lemma per step of the destructor. *)

LEMMA DestroyMembersKeepsInv ==
    ASSUME LifecycleInv, DestroyMembers
    PROVE  LifecycleInv'
<1> USE DEF LifecycleInv, DestroyMembers, threadVars, historyVars
<1>1. TypeOK'
    BY DEF TypeOK, ClientPoints, LifecycleStates, Active
<1>2. MutexProtects'
    BY DEF MutexProtects, InCriticalSection, ClientPoints, TypeOK
<1>3. LifecycleTellsWorker'
    BY DEF LifecycleTellsWorker, TypeOK, Active
<1>4. IdleOwnsNothing'
    BY DEF IdleOwnsNothing, TypeOK
<1>5. WorkerIsOwned'
    BY DEF WorkerIsOwned, TypeOK
<1>6. ExitIsJustified'
    BY DEF ExitIsJustified, StopSeen, TypeOK
<1>7. Counting'
    BY DEF Counting, StopSeen, TypeOK, Active
<1>8. Destruction'
    BY DEF Destruction, TypeOK, WorkerIsOwned, Counting, ExitIsJustified, LifecycleTellsWorker, Active
<1> QED BY <1>1, <1>2, <1>3, <1>4, <1>5, <1>6, <1>7, <1>8

LEMMA DestroyThreadKeepsInv ==
    ASSUME LifecycleInv, DestroyThread
    PROVE  LifecycleInv'
<1> USE DEF LifecycleInv, DestroyThread, threadVars, historyVars
<1>1. TypeOK'
    BY DEF TypeOK, ClientPoints, LifecycleStates, Active
<1>2. MutexProtects'
    BY DEF MutexProtects, InCriticalSection, ClientPoints, TypeOK
<1>3. LifecycleTellsWorker'
    BY DEF LifecycleTellsWorker, TypeOK, Active
<1>4. IdleOwnsNothing'
    BY DEF IdleOwnsNothing, TypeOK
<1>5. WorkerIsOwned'
    BY DEF WorkerIsOwned, TypeOK
<1>6. ExitIsJustified'
    BY DEF ExitIsJustified, StopSeen, TypeOK, Destruction
<1>7. Counting'
    BY DEF Counting, StopSeen, TypeOK, Active, Destruction
<1>8. Destruction'
    BY DEF Destruction, TypeOK
<1> QED BY <1>1, <1>2, <1>3, <1>4, <1>5, <1>6, <1>7, <1>8

LEMMA DestroyJoinKeepsInv ==
    ASSUME LifecycleInv, DestroyJoin
    PROVE  LifecycleInv'
<1> USE DEF LifecycleInv, DestroyJoin, threadVars, historyVars
<1>1. TypeOK'
    BY DEF TypeOK, ClientPoints, LifecycleStates, Active
<1>2. MutexProtects'
    BY DEF MutexProtects, InCriticalSection, ClientPoints, TypeOK
<1>3. LifecycleTellsWorker'
    BY DEF LifecycleTellsWorker, TypeOK, Active
<1>4. IdleOwnsNothing'
    BY DEF IdleOwnsNothing, TypeOK, Destruction
<1>5. WorkerIsOwned'
    BY DEF WorkerIsOwned, TypeOK, Destruction, LifecycleTellsWorker
<1>6. ExitIsJustified'
    BY DEF ExitIsJustified, StopSeen, TypeOK
<1>7. Counting'
    BY DEF Counting, StopSeen, TypeOK, Active
<1>8. Destruction'
    BY DEF Destruction, TypeOK
<1> QED BY <1>1, <1>2, <1>3, <1>4, <1>5, <1>6, <1>7, <1>8

-----------------------------------------------------------------------------
(* One lemma per step of the worker. *)

LEMMA OnControlThreadStartKeepsInv ==
    ASSUME LifecycleInv, OnControlThreadStart
    PROVE  LifecycleInv'
<1> USE DEF LifecycleInv, OnControlThreadStart, clientVars, StopSeen
<1>1. TypeOK'
    BY DEF TypeOK, ClientPoints, LifecycleStates, Active
<1>2. MutexProtects'
    BY DEF MutexProtects, InCriticalSection, ClientPoints, TypeOK
<1>3. LifecycleTellsWorker'
    BY DEF LifecycleTellsWorker, TypeOK, Active
<1>4. IdleOwnsNothing'
    BY DEF IdleOwnsNothing, TypeOK
<1>5. WorkerIsOwned'
    BY DEF WorkerIsOwned, TypeOK
<1>6. ExitIsJustified'
    BY DEF ExitIsJustified, StopSeen, TypeOK
<1>7. Counting'
    BY DEF Counting, StopSeen, TypeOK, Active
<1>8. Destruction'
    BY DEF Destruction, TypeOK
<1> QED BY <1>1, <1>2, <1>3, <1>4, <1>5, <1>6, <1>7, <1>8

LEMMA CheckKeepsInv ==
    ASSUME LifecycleInv, Check
    PROVE  LifecycleInv'
<1> USE DEF LifecycleInv, Check, clientVars, StopSeen
<1>1. TypeOK'
    BY DEF TypeOK, ClientPoints, LifecycleStates, Active
<1>2. MutexProtects'
    BY DEF MutexProtects, InCriticalSection, ClientPoints, TypeOK
<1>3. LifecycleTellsWorker'
    BY DEF LifecycleTellsWorker, TypeOK, Active
<1>4. IdleOwnsNothing'
    BY DEF IdleOwnsNothing, TypeOK
<1>5. WorkerIsOwned'
    BY DEF WorkerIsOwned, TypeOK
<1>6. ExitIsJustified'
  <2>1. i \in Nat /\ count \in Int /\ i <= count
    BY DEF TypeOK, Counting, Active
  <2>2. i < count \/ i = count
    BY <2>1
  <2> QED BY <2>2 DEF ExitIsJustified, StopSeen
<1>7. Counting'
    BY DEF Counting, StopSeen, TypeOK, Active
<1>8. Destruction'
    BY DEF Destruction, TypeOK, Counting, Active
<1> QED BY <1>1, <1>2, <1>3, <1>4, <1>5, <1>6, <1>7, <1>8

LEMMA UpdateKeepsInv ==
    ASSUME LifecycleInv, Update
    PROVE  LifecycleInv'
<1> USE DEF LifecycleInv, Update, clientVars, StopSeen
<1>1. TypeOK'
    BY DEF TypeOK, ClientPoints, LifecycleStates, Active
<1>2. MutexProtects'
    BY DEF MutexProtects, InCriticalSection, ClientPoints, TypeOK
<1>3. LifecycleTellsWorker'
    BY DEF LifecycleTellsWorker, TypeOK, Active
<1>4. IdleOwnsNothing'
    BY DEF IdleOwnsNothing, TypeOK
<1>5. WorkerIsOwned'
    BY DEF WorkerIsOwned, TypeOK
<1>6. ExitIsJustified'
    BY DEF ExitIsJustified, StopSeen, TypeOK
<1>7. Counting'
  <2>1. /\ i \in Nat /\ count \in Int /\ completed \in Nat /\ requested \in Nat
        /\ i < count /\ completed + (count - i) <= requested
    BY DEF TypeOK, Counting
  <2>2. /\ i + 1 <= count /\ completed + 1 <= requested
        /\ (completed + 1) + (count - (i + 1)) <= requested
    BY <2>1
  <2>3. lateCycles = 0
    BY DEF TypeOK, Counting
  <2>4. \A c \in Clients : pc[c] # "run_construct"
    BY DEF IdleOwnsNothing
  <2>5. CASE StopSeen
    <3>1. lateCycles' = 1 /\ StopSeen'
      BY <2>3, <2>5
    <3> QED BY <2>1, <2>2, <2>4, <3>1 DEF Counting, Active
  <2>6. CASE ~StopSeen
    <3>1. lateCycles' = 0
      BY <2>3, <2>6
    <3> QED BY <2>1, <2>2, <2>4, <3>1 DEF Counting, Active
  <2> QED BY <2>5, <2>6
<1>8. Destruction'
    BY DEF Destruction, TypeOK
<1> QED BY <1>1, <1>2, <1>3, <1>4, <1>5, <1>6, <1>7, <1>8

LEMMA FinishKeepsInv ==
    ASSUME LifecycleInv, Finish
    PROVE  LifecycleInv'
<1> USE DEF LifecycleInv, Finish, clientVars, StopSeen
<1>1. TypeOK'
    BY DEF TypeOK, ClientPoints, LifecycleStates, Active
<1>2. MutexProtects'
    BY DEF MutexProtects, InCriticalSection, ClientPoints, TypeOK
<1>3. LifecycleTellsWorker'
    BY DEF LifecycleTellsWorker, TypeOK, Active
<1>4. IdleOwnsNothing'
    BY DEF IdleOwnsNothing, TypeOK
<1>5. WorkerIsOwned'
    BY DEF WorkerIsOwned, TypeOK
<1>6. ExitIsJustified'
    BY DEF ExitIsJustified, StopSeen, TypeOK
<1>7. Counting'
    BY DEF Counting, StopSeen, TypeOK, Active
<1>8. Destruction'
    BY DEF Destruction, TypeOK
<1> QED BY <1>1, <1>2, <1>3, <1>4, <1>5, <1>6, <1>7, <1>8

-----------------------------------------------------------------------------
LEMMA StepKeepsLifecycleInv == LifecycleInv /\ [Next]_vars => LifecycleInv'
<1> SUFFICES ASSUME LifecycleInv, [Next]_vars PROVE LifecycleInv'
  OBVIOUS
<1>1. ASSUME NEW c \in Clients, Run(c)
      PROVE  LifecycleInv'
  BY <1>1, CallRunKeepsInv, RunLockKeepsInv, RunRejectedKeepsInv, RunAcceptedKeepsInv,
     ConstructThreadKeepsInv, ConstructThrowsKeepsInv, AssignThreadKeepsInv DEF Run
<1>2. ASSUME NEW c \in Clients, Wait(c)
      PROVE  LifecycleInv'
  BY <1>2, CallWaitKeepsInv, WaitLockKeepsInv, WaitCheckKeepsInv, WaitJoinKeepsInv,
     WaitIdleKeepsInv DEF Wait
<1>3. ASSUME NEW c \in Clients, RequestStop(c)
      PROVE  LifecycleInv'
  BY <1>3, RequestStopKeepsInv
<1>4. CASE Worker
  BY <1>4, OnControlThreadStartKeepsInv, CheckKeepsInv, UpdateKeepsInv, FinishKeepsInv
     DEF Worker
<1>5. CASE Destroy
  BY <1>5, DestroyMembersKeepsInv, DestroyThreadKeepsInv, DestroyJoinKeepsInv DEF Destroy
<1>6. CASE UNCHANGED vars
  BY <1>6 DEF vars, LifecycleInv, TypeOK, MutexProtects, LifecycleTellsWorker,
     IdleOwnsNothing, WorkerIsOwned, ExitIsJustified, StopSeen, Counting, Destruction
<1> QED BY <1>1, <1>2, <1>3, <1>4, <1>5, <1>6 DEF Next, Terminated

(* LifecycleInv is inductive: whatever run(), wait(), requestStop(), the   *)
(* destructor and the worker do in any order, lifecycle_mutex_,            *)
(* lifecycle_state_, thread_ and the worker stay in agreement.             *)
THEOREM LifecycleInvariant == Spec => []LifecycleInv
BY InitLifecycleInv, StepKeepsLifecycleInv, PTL DEF Spec

(* A stop request is honoured between cycles: however the run() and wait() *)
(* calls of any number of clients interleave with it, at most the cycle in *)
(* progress still completes.                                               *)
THEOREM StopHonoured == Spec => []AtMostOneCycleAfterStop
<1>1. LifecycleInv => AtMostOneCycleAfterStop
    BY DEF LifecycleInv, Counting, AtMostOneCycleAfterStop
<1> QED BY <1>1, LifecycleInvariant, PTL

(* Under the callers' discipline of the destructor (joined, or polled up to *)
(* the cycles asked for, as main() does) no update() outlives the members   *)
(* it uses.                                                                 *)
THEOREM MembersOutliveUpdates ==
    ASSUME DestroyWhenBusy = FALSE
    PROVE  Spec => []NoUseAfterLifetime
<1>1. LifecycleInv => NoUseAfterLifetime
    BY DEF LifecycleInv, Destruction, NoUseAfterLifetime
<1> QED BY <1>1, LifecycleInvariant, PTL

(* A stop request for an existing worker is not lost: run(), the only       *)
(* function that clears the flag, does so only when there is no worker.     *)
THEOREM StopNotLost == Spec => StopIsNotLost
<1>1. LifecycleInv /\ [Next]_vars =>
        [worker # "none" /\ stopRequested /\ worker' # "none" => stopRequested']_vars
  <2> SUFFICES ASSUME LifecycleInv, Next, worker # "none", stopRequested
               PROVE  stopRequested'
    BY DEF vars
  <2>1. ASSUME NEW c \in Clients, RunAccepted(c)
        PROVE  FALSE
    BY <2>1 DEF RunAccepted, MayRun, LifecycleInv, LifecycleTellsWorker
  <2>2. ASSUME NEW c \in Clients, Run(c) \/ Wait(c) \/ RequestStop(c)
        PROVE  stopRequested'
    BY <2>1, <2>2 DEF Run, Wait, RequestStop, CallRun, RunLock, RunRejected, ConstructThread,
       ConstructThrows, AssignThread, CallWait, WaitLock, WaitCheck, WaitJoin, WaitIdle
  <2>3. CASE Worker
    BY <2>3 DEF Worker, OnControlThreadStart, Check, Update, Finish, clientVars
  <2>4. CASE Destroy
    BY <2>4 DEF Destroy, DestroyMembers, DestroyThread, DestroyJoin
  <2>5. CASE Terminated
    BY <2>5 DEF Terminated, vars
  <2> QED BY <2>2, <2>3, <2>4, <2>5 DEF Next
<1> QED BY <1>1, LifecycleInvariant, PTL DEF Spec, StopIsNotLost

(* The lifecycle goes Idle, Running, Finished, Idle and nowhere else.       *)
THEOREM LifecycleInOrder == Spec => LifecycleOrder
<1> DEFINE Order ==
      \/ lifecycle = "Idle" /\ lifecycle' = "Running"
      \/ lifecycle = "Running" /\ lifecycle' = "Finished"
      \/ lifecycle = "Finished" /\ lifecycle' = "Idle"
      \/ ThreadCreationMayFail /\ lifecycle = "Running" /\ lifecycle' = "Idle"
<1>1. LifecycleInv /\ [Next]_vars => [lifecycle' # lifecycle => Order]_vars
  <2> SUFFICES ASSUME LifecycleInv, Next, lifecycle' # lifecycle PROVE Order
    BY DEF vars
  <2>1. ASSUME NEW c \in Clients, WaitIdle(c)
        PROVE  Order
    <3>1. worker = "none" /\ pc[c] \in InCriticalSection
      BY <2>1 DEF WaitIdle, LifecycleInv, IdleOwnsNothing, InCriticalSection, ClientPoints
    <3>2. \A d \in Clients : pc[d] # "run_construct"
      BY <2>1, <3>1, OthersOutside
         DEF WaitIdle, LifecycleInv, InCriticalSection, ClientPoints
    <3>3. lifecycle \in {"Finished", "Running"}
      BY <2>1 DEF WaitIdle, LifecycleInv, TypeOK, LifecycleStates
    <3> QED BY <2>1, <3>1, <3>2, <3>3 DEF WaitIdle, LifecycleInv, WorkerIsOwned
  <2>2. ASSUME NEW c \in Clients, Run(c) \/ Wait(c) \/ RequestStop(c)
        PROVE  Order
    BY <2>1, <2>2 DEF Run, Wait, RequestStop, CallRun, RunLock, RunRejected, RunAccepted,
       MayRun, ConstructThread, ConstructThrows, AssignThread, CallWait, WaitLock,
       WaitCheck, WaitJoin
  <2>3. CASE Worker
    BY <2>3 DEF Worker, OnControlThreadStart, Check, Update, Finish, clientVars,
       LifecycleInv, LifecycleTellsWorker, Active
  <2>4. CASE Destroy
    BY <2>4 DEF Destroy, DestroyMembers, DestroyThread, DestroyJoin
  <2>5. CASE Terminated
    BY <2>5 DEF Terminated, vars
  <2> QED BY <2>2, <2>3, <2>4, <2>5 DEF Next
<1> QED BY <1>1, LifecycleInvariant, PTL DEF Spec, LifecycleOrder

-----------------------------------------------------------------------------
(* The distances of the worker and of the mutex's holder. *)

LEMMA WorkerStepComesCloser ==
    ASSUME LifecycleInv, Worker
    PROVE  /\ StepsToExit' < StepsToExit
           /\ StopSeen => StepsAfterStop[worker'] < StepsAfterStop[worker]
           /\ StopSeen' = StopSeen
<1>1. i \in Int /\ count \in Int /\ (worker \in Active => i <= count) /\ (worker = "update" => i < count)
    BY CountsAreIntegers, SMT DEF LifecycleInv, TypeOK, Counting
<1>2. StopSeen' = StopSeen
    BY DEF Worker, OnControlThreadStart, Check, Update, Finish, clientVars, StopSeen
<1>3. CASE OnControlThreadStart
    BY <1>1, <1>2, <1>3, SMT DEF OnControlThreadStart, clientVars, StepsToExit, StepsAfterStop
<1>4. CASE Check
  <2>1. worker = "check" /\ i' = i /\ count' = count /\ i <= count
      BY <1>1, <1>4 DEF Check, clientVars, Active
  <2>2. CASE worker' = "update"
    <3>1. ~StopSeen
        BY <1>4, <2>2 DEF Check
    <3> QED BY <1>1, <1>2, <2>1, <2>2, <3>1, SMT DEF StepsToExit
  <2>3. CASE worker' = "finish"
      BY <1>1, <1>2, <2>1, <2>3, SMT DEF StepsToExit, StepsAfterStop
  <2> QED BY <1>4, <2>2, <2>3 DEF Check
<1>5. CASE Update
  <2>1. worker = "update" /\ worker' = "check" /\ i' = i + 1 /\ count' = count
      BY <1>5 DEF Update, clientVars
  <2> QED BY <1>1, <1>2, <2>1, SMT DEF StepsToExit, StepsAfterStop
<1>6. CASE Finish
    BY <1>2, <1>6, SMT DEF Finish, StepsToExit, StepsAfterStop
<1> QED BY <1>3, <1>4, <1>5, <1>6 DEF Worker

LEMMA OthersLeaveWorker ==
    ASSUME LifecycleInv, Next, worker \in Active, ~Worker
    PROVE  UNCHANGED <<worker, i, count>> /\ (StopSeen => StopSeen')
<1>1. /\ worker \notin {"none", "exited"} /\ lifecycle # "Idle"
      /\ \A c \in Clients : pc[c] # "run_construct"
    BY DEF LifecycleInv, LifecycleTellsWorker, IdleOwnsNothing, Active
<1>2. ASSUME NEW c \in Clients, Run(c)
      PROVE  UNCHANGED <<worker, i, count, stopToken, stopRequested>>
    BY <1>1, <1>2 DEF Run, CallRun, RunLock, RunRejected, RunAccepted, MayRun, ConstructThread,
       ConstructThrows, AssignThread, threadVars
<1>3. ASSUME NEW c \in Clients, Wait(c)
      PROVE  UNCHANGED <<worker, i, count, stopToken, stopRequested>>
    BY <1>1, <1>3 DEF Wait, CallWait, WaitLock, WaitCheck, WaitJoin, WaitIdle, threadVars
<1>4. ASSUME NEW c \in Clients, RequestStop(c)
      PROVE  UNCHANGED <<worker, i, count>> /\ (StopSeen => StopSeen')
    BY <1>4 DEF RequestStop, threadVars, StopSeen
<1>5. CASE Destroy
  <2>1. CASE DestroyMembers
      BY <2>1 DEF DestroyMembers, threadVars, StopSeen
  <2>2. CASE DestroyThread
      BY <2>2 DEF DestroyThread, StopSeen, LifecycleInv, Destruction
  <2>3. CASE DestroyJoin
      BY <1>1, <2>3 DEF DestroyJoin
  <2> QED BY <1>5, <2>1, <2>2, <2>3 DEF Destroy
<1>6. CASE Terminated
    BY <1>6 DEF Terminated, vars, StopSeen
<1> QED BY <1>2, <1>3, <1>4, <1>5, <1>6 DEF Next, StopSeen

(* No run(), wait(), requestStop() or destructor keeps a worker from its end, and  *)
(* a stop request leaves it three steps.                                           *)
THEOREM WorkerIsNearExit == Spec => WorkerComesCloser
<1>1. ASSUME LifecycleInv, Next, worker \in Active
      PROVE  /\ StopSeen => StopSeen'
             /\ Worker => StepsToExit' < StepsToExit
             /\ Worker /\ StopSeen => StepsAfterStop[worker'] < StepsAfterStop[worker]
             /\ Worker \/ UNCHANGED <<StepsToExit, worker>>
  <2>1. CASE Worker
      BY <1>1, <2>1, WorkerStepComesCloser
  <2>2. CASE ~Worker
      BY <1>1, <2>2, OthersLeaveWorker DEF StepsToExit
  <2> QED BY <2>1, <2>2
<1>2. LifecycleInv /\ [Next]_vars =>
          [(worker \in Active) =>
              /\ StopSeen => StopSeen'
              /\ Worker => StepsToExit' < StepsToExit
              /\ Worker /\ StopSeen => StepsAfterStop[worker'] < StepsAfterStop[worker]
              /\ Worker \/ UNCHANGED <<StepsToExit, worker>>]_vars
    BY <1>1
<1> QED BY <1>2, LifecycleInvariant, PTL DEF Spec, WorkerComesCloser

(* A worker has at most two steps for each of its cycles and three more. *)
THEOREM WorkerBounded == Spec => []WorkerIsNear
<1>1. ASSUME LifecycleInv, worker \in Active
      PROVE  StepsToExit \in 1 .. 2 * count + 3
  <2>1. /\ i \in Nat /\ count \in Int /\ i <= count /\ 0 < count
        /\ worker = "update" => i < count
      BY <1>1, CountsAreIntegers, SMT DEF LifecycleInv, TypeOK, Counting
  <2> QED BY <1>1, <2>1, SMT DEF StepsToExit, Active
<1> QED BY <1>1, LifecycleInvariant, PTL DEF WorkerIsNear

(* Another client's step, which cannot be inside the critical section, leaves the  *)
(* mutex and the holder alone.                                                     *)
LEMMA OthersLeaveHolder ==
    ASSUME LifecycleInv, NEW c \in Clients, mutex = c, NEW d \in Clients, d # c,
           Run(d) \/ Wait(d) \/ RequestStop(d)
    PROVE  mutex' = c /\ pc'[c] = pc[c]
<1>1. /\ mutex # NoClient /\ pc[d] \notin InCriticalSection
      /\ pc \in [Clients -> ClientPoints]
    BY DEF LifecycleInv, TypeOK, MutexProtects
<1>2. pc[d] \in {"out", "run_lock", "wait_lock"}
    BY <1>1 DEF InCriticalSection
<1>3. CallRun(d) \/ CallWait(d) \/ RequestStop(d)
    BY <1>1, <1>2 DEF Run, Wait, RunLock, RunRejected, RunAccepted, ConstructThread,
       ConstructThrows, AssignThread, WaitLock, WaitCheck, WaitJoin, WaitIdle, Acquire
<1> QED BY <1>1, <1>3 DEF CallRun, CallWait, RequestStop, Goto

(* lifecycle_mutex_ is three steps of its holder from its release, whatever the    *)
(* worker, the other clients and the destructor do.                                *)
THEOREM ReleaseIsNear == Spec => ReleaseComesCloser
<1>1. ASSUME LifecycleInv, Next, NEW c \in Clients, mutex = c
      PROVE  IF Progress(c)
             THEN \/ mutex' = NoClient
                  \/ mutex' = c /\ StepsToRelease[pc'[c]] < StepsToRelease[pc[c]]
             ELSE mutex' = c /\ pc'[c] = pc[c]
  <2>1. mutex # NoClient /\ pc[c] \in InCriticalSection /\ pc \in [Clients -> ClientPoints]
      BY <1>1 DEF LifecycleInv, TypeOK, MutexProtects
  <2>2. CASE Progress(c)
    <3>1. CASE RunRejected(c) \/ ConstructThrows(c) \/ AssignThread(c) \/ WaitIdle(c)
      <4>1. mutex' = NoClient
          BY <3>1 DEF RunRejected, ConstructThrows, AssignThread, WaitIdle, ReturnAndRelease
      <4> QED BY <2>2, <4>1
    <3>2. CASE RunAccepted(c) \/ ConstructThread(c) \/ WaitCheck(c) \/ WaitJoin(c)
      <4>1. mutex' = c
          BY <1>1, <3>2 DEF RunAccepted, ConstructThread, WaitCheck, WaitJoin
      <4>2. StepsToRelease[pc'[c]] < StepsToRelease[pc[c]]
        <5>1. CASE RunAccepted(c)
            BY <2>1, <5>1, SMT DEF RunAccepted, Goto, StepsToRelease
        <5>2. CASE ConstructThread(c)
            BY <2>1, <5>2, SMT DEF ConstructThread, Goto, StepsToRelease
        <5>3. CASE WaitCheck(c)
            BY <2>1, <5>3, SMT DEF WaitCheck, Goto, StepsToRelease
        <5>4. CASE WaitJoin(c)
            BY <2>1, <5>4, SMT DEF WaitJoin, Goto, StepsToRelease
        <5> QED BY <3>2, <5>1, <5>2, <5>3, <5>4
      <4> QED BY <2>2, <4>1, <4>2
    <3> QED BY <2>2, <3>1, <3>2 DEF Progress
  <2>3. CASE ~Progress(c)
    <3>1. ASSUME NEW d \in Clients, Run(d) \/ Wait(d) \/ RequestStop(d)
          PROVE  mutex' = c /\ pc'[c] = pc[c]
      <4>1. CASE d = c
          BY <2>1, <2>3, <3>1, <4>1 DEF Progress, Run, Wait, CallRun, RunLock, CallWait, WaitLock,
             RequestStop, InCriticalSection
      <4>2. CASE d # c
          BY <1>1, <3>1, <4>2, OthersLeaveHolder
      <4> QED BY <4>1, <4>2
    <3>2. Worker \/ Destroy \/ Terminated => UNCHANGED <<mutex, pc>>
        BY DEF Worker, OnControlThreadStart, Check, Update, Finish, clientVars, Destroy,
           DestroyMembers, DestroyThread, DestroyJoin, Terminated, vars
    <3>3. mutex' = c /\ pc'[c] = pc[c]
        BY <1>1, <3>1, <3>2 DEF Next
    <3> QED BY <2>3, <3>3
  <2> QED BY <2>2, <2>3
<1>2. LifecycleInv /\ [Next]_vars =>
          [\A c \in Clients : mutex = c =>
              IF Progress(c)
              THEN \/ mutex' = NoClient
                   \/ mutex' = c /\ StepsToRelease[pc'[c]] < StepsToRelease[pc[c]]
              ELSE mutex' = c /\ pc'[c] = pc[c]]_vars
    BY <1>1
<1> QED BY <1>2, LifecycleInvariant, PTL DEF Spec, ReleaseComesCloser

(* A wait() that holds the mutex in join() waits for a worker that exists, and     *)
(* that no step of its own takes to the mutex: no deadlock of the two.             *)
THEOREM HolderIsNotStuck == Spec => []HolderWaitsForWorker
<1>1. LifecycleInv => HolderWaitsForWorker
    BY DEF LifecycleInv, IdleOwnsNothing, LifecycleTellsWorker, TypeOK, HolderWaitsForWorker
<1> QED BY <1>1, LifecycleInvariant, PTL

-----------------------------------------------------------------------------
(* Main: every step is one of its components', together or alone. *)

LEMMA StepUsesLoop == [MainNext]_mainVars => [Next]_vars
<1> SUFFICES ASSUME [MainNext]_mainVars PROVE [Next]_vars
    OBVIOUS
<1>1. Me \in Clients
    BY MainAssumption
<1>2. CASE RunLoop
  <2>1. RunLoop => Run(Me) \/ UNCHANGED vars
      BY DEF RunLoop, Run
  <2> QED BY <1>1, <1>2, <2>1 DEF Next
<1>3. CASE ControlThread
    BY <1>3 DEF ControlThread, Next, Worker
<1>4. CASE DestroyLoop
    BY <1>4 DEF DestroyLoop, Next
<1>5. CASE ~RunLoop /\ ~ControlThread /\ ~DestroyLoop
    BY <1>5 DEF MainNext, MainStep, Transmit, StartCommunication, Poll, StopCommunication, Report,
       DestroyCommunication, CommunicationThread, Ended, mainVars
<1> QED BY <1>2, <1>3, <1>4, <1>5

LEMMA StepUsesCan == [MainNext]_mainVars => [Can!Next]_Can!vars
<1> SUFFICES ASSUME [MainNext]_mainVars PROVE [Can!Next]_Can!vars
    OBVIOUS
<1>1. UNCHANGED canVars => UNCHANGED Can!vars
    BY DEF canVars, Can!vars
<1>2. CASE Transmit \/ StartCommunication \/ StopCommunication \/ DestroyCommunication
    BY <1>2 DEF Transmit, StartCommunication, StopCommunication, DestroyCommunication, Can!Next
<1>3. CASE ControlThread
    BY <1>1, <1>3 DEF ControlThread, Can!Next, Can!ControlCycle
<1>4. CASE CommunicationThread
    BY <1>4 DEF CommunicationThread, Can!Next
<1>5. CASE RunLoop \/ Poll \/ Report \/ DestroyLoop \/ Ended \/ UNCHANGED mainVars
    BY <1>1, <1>5 DEF RunLoop, Poll, Report, DestroyLoop, Ended, mainVars
<1> QED BY <1>2, <1>3, <1>4, <1>5 DEF MainNext, MainStep

-----------------------------------------------------------------------------
(* MainInv *)

LEMMA InitMainInv == MainInit => MainInv
<1> SUFFICES ASSUME MainInit PROVE MainInv
    OBVIOUS
<1> USE DEF MainInit
<1>1. LifecycleInv
    BY InitLifecycleInv
<1>2. CommunicationOwned
    BY DEF CommunicationOwned, Can!Init, Can!OwnershipInv, Can!ThreadIsOwned
<1>3. LoopOwned
    BY MainAssumption DEF LoopOwned, Init, AfterPoll
<1>4. BuffersInUse /\ at \in BeforeRun
    BY DEF BuffersInUse, Can!Init, BeforeRun
<1> QED BY <1>1, <1>2, <1>3, <1>4 DEF MainInv

LEMMA CanKeepsOwnership ==
    ASSUME Can!OwnershipInv, running \in BOOLEAN, canJoinable \in BOOLEAN,
           [Can!Next]_Can!vars
    PROVE  Can!OwnershipInv' /\ running' \in BOOLEAN /\ canJoinable' \in BOOLEAN
<1> USE DEF Can!OwnershipInv, Can!ThreadIsOwned
<1>1. CASE Can!Start \/ Can!ConstructThread \/ Can!ConstructThrows
  <2>1. CASE Can!Start
      BY <2>1 DEF Can!Start
  <2>2. CASE Can!ConstructThread
      BY <2>2 DEF Can!ConstructThread
  <2>3. CASE Can!ConstructThrows
      BY <2>3 DEF Can!ConstructThrows
  <2> QED BY <1>1, <2>1, <2>2, <2>3
<1>2. CASE Can!StopCall \/ Can!Destroy
  <2>1. CASE Can!Stop("join", "out")
      BY <2>1 DEF Can!Stop
  <2>2. CASE Can!Join("join", "out")
      BY <2>2 DEF Can!Join
  <2>3. CASE Can!Stop("destroy", "gone")
      BY <2>3 DEF Can!Stop
  <2>4. CASE Can!Join("destroy", "gone")
      BY <2>4 DEF Can!Join
  <2> QED BY <1>2, <2>1, <2>2, <2>3, <2>4 DEF Can!StopCall, Can!Destroy
<1>3. CASE Can!CommunicationThread
  <2>1. cpc # "none" /\ cpc' # "none" /\ UNCHANGED <<running, canJoinable, owner>>
      BY <1>3 DEF Can!CommunicationThread, Can!CheckRunning, Can!Receive, Can!ReceiveNothing,
         Can!Decode, Can!PublishCommand, Can!TransmitState, Can!ownerVars
  <2>2. cpc' = "exited" => ~running
      BY <1>3 DEF Can!CommunicationThread, Can!CheckRunning, Can!Receive, Can!ReceiveNothing,
         Can!Decode, Can!PublishCommand, Can!TransmitState
  <2> QED BY <2>1, <2>2
<1>4. CASE Can!SendCommand \/ Can!SendForeign \/ Can!ControlCycle \/ UNCHANGED Can!vars
    BY <1>4 DEF Can!SendCommand, Can!SendForeign, Can!ControlCycle, Can!ReadCommand,
       Can!BeginPublishState, Can!EndPublishState, Can!ownerVars, Can!vars
<1> QED BY <1>1, <1>2, <1>3, <1>4 DEF Can!Next

(* Once the polling has seen the last cycle, the worker has no cycle left to do. *)
LEMMA NoCycleLeft ==
    ASSUME MainInv, at \in AfterPoll
    PROVE  worker \notin {"starting", "update"}
<1>1. /\ completed = requested /\ completed \in Nat /\ requested \in Nat
      /\ i \in Nat /\ count \in Int
    BY CountsAreIntegers DEF MainInv, LoopOwned, LifecycleInv, TypeOK
<1>2. /\ worker # "none" => completed + (count - i) <= requested
      /\ worker = "update" => i < count
      /\ worker = "starting" => i = 0 /\ 0 < count
    BY DEF MainInv, LifecycleInv, Counting, Active
<1> QED BY <1>1, <1>2, SMT

(* main() stays where it is, and neither calls anything. *)
LEMMA MainUnmoved ==
    ASSUME MainInv, LifecycleInv', Can!OwnershipInv',
           UNCHANGED <<at, running, canJoinable, owner, pc, arg, lifetime, runCalls, requested>>,
           joinable' => joinable,
           runCalls = 0 \/ pc[Me] \in {"run_lock", "run_check"} => lifecycle' = "Idle",
           at \in AfterPoll => completed' = completed,
           BuffersInUse'
    PROVE  MainInv'
BY DEF MainInv, CommunicationOwned, LoopOwned

(* The steps of main() that concern the communication. *)
LEMMA CommunicationCallsKeepInv ==
    ASSUME MainInv, LifecycleInv', [Can!Next]_Can!vars,
           Transmit \/ StartCommunication \/ StopCommunication \/ DestroyCommunication
    PROVE  MainInv'
<1> USE DEF MainInv
<1>1. /\ Can!OwnershipInv' /\ running' \in BOOLEAN /\ canJoinable' \in BOOLEAN
    BY CanKeepsOwnership DEF CommunicationOwned
<1>2. UNCHANGED vars /\ wpc' = wpc
    BY DEF Transmit, StartCommunication, StopCommunication, DestroyCommunication,
       Can!SendCommand, Can!Start, Can!ConstructThread, Can!ConstructThrows,
       Can!StopCall, Can!Destroy, Can!Stop, Can!Join, Can!workerVars
<1>3. at' \in BeforeRun \cup {"poll", "terminated"} \cup AfterPoll
    BY DEF Transmit, StartCommunication, StopCommunication, DestroyCommunication,
       BeforeRun, AfterPoll
<1>4. BuffersInUse'
    BY <1>2 DEF BuffersInUse, vars
<1>5. LoopOwned'
  <2>1. \/ at \in BeforeRun \ {"run"} /\ at' \in {"start", "run", "terminated"}
        \/ at \in {"stop", "return"} /\ at' \in {"stop", "print", "return", "destroy_loop"}
      BY DEF Transmit, StartCommunication, StopCommunication, DestroyCommunication, BeforeRun
  <2> QED BY <1>2, <2>1 DEF LoopOwned, vars, BeforeRun, AfterPoll
<1>6. CommunicationOwned'
  <2> USE DEF CommunicationOwned
  <2>1. CASE Transmit
      BY <1>1, <2>1 DEF Transmit, Can!SendCommand, Can!ownerVars
  <2>2. CASE StartCommunication
      BY <1>1, <2>2 DEF StartCommunication, Can!Start, Can!ConstructThread, Can!ConstructThrows
  <2>3. CASE StopCommunication
    <3>1. CASE Can!Stop("join", "out")
        BY <1>1, <2>3, <3>1 DEF StopCommunication, Can!Stop
    <3>2. CASE Can!Join("join", "out")
        BY <1>1, <2>3, <3>2 DEF StopCommunication, Can!Join, Can!OwnershipInv
    <3> QED BY <2>3, <3>1, <3>2 DEF StopCommunication, Can!StopCall
  <2>4. CASE DestroyCommunication
    <3>1. CASE Can!Stop("destroy", "gone")
      <4>1. owner = "out" /\ ~canJoinable
          BY <2>4, <3>1 DEF DestroyCommunication, Can!Stop, Can!OwnershipInv, Can!ThreadIsOwned
      <4> QED BY <1>1, <2>4, <3>1, <4>1 DEF DestroyCommunication, Can!Stop
    <3>2. ~Can!Join("destroy", "gone")
        BY DEF Can!Join
    <3> QED BY <2>4, <3>1, <3>2 DEF DestroyCommunication, Can!Destroy
  <2> QED BY <2>1, <2>2, <2>3, <2>4
<1> QED BY <1>3, <1>4, <1>5, <1>6

(* The steps of main() that concern the loop. *)
LEMMA RunLoopKeepsInv ==
    ASSUME MainInv, LifecycleInv', RunLoop
    PROVE  MainInv'
<1> USE DEF MainInv, RunLoop
<1>1. /\ Me \in Clients /\ MaxRunCalls = 1 /\ CycleCounts = {CycleCount} /\ CycleCount \in Nat \ {0}
      /\ pc \in [Clients -> ClientPoints] /\ arg \in [Clients -> CycleCounts \cup {0}]
      /\ requested \in Nat /\ runCalls \in {0, 1}
  <2>1. runCalls \in 0 .. MaxRunCalls
      BY DEF LifecycleInv, TypeOK
  <2> QED BY <2>1, MainAssumption, SMT DEF LifecycleInv, TypeOK
<1>2. UNCHANGED canVars
    OBVIOUS
<1>3. CommunicationOwned'
    BY <1>2 DEF CommunicationOwned, canVars, Can!OwnershipInv, Can!ThreadIsOwned, AfterPoll
<1>4. BuffersInUse'
  <2>1. worker' = worker \/ (worker' = "starting" /\ worker = "none")
      BY <1>1 DEF CallRun, RunLock, RunAccepted, ConstructThread, RunRejected, AssignThread,
         ConstructThrows, threadVars, LifecycleInv, IdleOwnsNothing
  <2> QED BY <1>2, <2>1 DEF BuffersInUse, canVars
<1>5. LoopOwned'
  <2> DEFINE Moves(before, after) ==
        at = "run" /\ pc[Me] = before /\ pc'[Me] = after /\ UNCHANGED <<lifetime, completed>>
  <2>1. CASE CallRun(Me) /\ at' = "run"
    <3>1. Moves("out", "run_lock") /\ arg'[Me] = CycleCount
        BY <1>1, <2>1 DEF CallRun, Goto, threadVars
    <3>2. runCalls = 0 /\ runCalls' = 1 /\ UNCHANGED <<lifecycle, requested, joinable>>
        BY <1>1, <2>1, SMT DEF CallRun, threadVars
    <3> QED BY <2>1, <3>1, <3>2 DEF LoopOwned, AfterPoll
  <2>2. CASE RunLock(Me) /\ at' = "run"
    <3>1. Moves("run_lock", "run_check") /\ UNCHANGED <<arg, runCalls, lifecycle, requested, joinable>>
        BY <1>1, <2>2 DEF RunLock, Goto, threadVars, historyVars
    <3> QED BY <2>2, <3>1 DEF LoopOwned, AfterPoll
  <2>3. CASE RunAccepted(Me) /\ at' = "run"
    <3>1. Moves("run_check", "run_construct") /\ UNCHANGED <<arg, runCalls, joinable>>
        BY <1>1, <2>3 DEF RunAccepted, Goto, threadVars
    <3>2. requested' = 0 + CycleCount /\ runCalls # 0
        BY <2>3, <3>1 DEF RunAccepted, LoopOwned
    <3>3. requested' = CycleCount
        BY <1>1, <3>2, SMT
    <3> QED BY <2>3, <3>1, <3>2, <3>3 DEF LoopOwned, AfterPoll
  <2>4. CASE ConstructThread(Me) /\ at' = "run"
    <3>1. Moves("run_construct", "run_assign") /\ UNCHANGED <<arg, runCalls, lifecycle, requested, joinable>>
        BY <1>1, <2>4 DEF ConstructThread, Goto, historyVars
    <3> QED BY <2>4, <3>1 DEF LoopOwned, AfterPoll
  <2>5. ~RunRejected(Me)
    <3>1. ASSUME RunRejected(Me)
          PROVE  pc[Me] = "run_check" /\ arg[Me] = CycleCount /\ lifecycle = "Idle"
        BY <3>1 DEF RunRejected, LoopOwned
    <3>2. CycleCount > 0
        BY <1>1, SMT
    <3> QED BY <3>1, <3>2 DEF RunRejected, MayRun
  <2>6. CASE AssignThread(Me) /\ at' = "poll"
    <3>1. Moves("run_assign", "out") /\ UNCHANGED <<arg, runCalls, lifecycle, requested>>
        BY <1>1, <2>6 DEF AssignThread, ReturnAndRelease, Goto, historyVars
    <3> QED BY <2>6, <3>1 DEF LoopOwned, AfterPoll
  <2>7. CASE ConstructThrows(Me) /\ at' = "terminated"
    <3>1. Moves("run_construct", "out") /\ UNCHANGED <<arg, runCalls, lifecycle, requested, joinable>>
        BY <1>1, <2>7 DEF ConstructThrows, ReturnAndRelease, Goto, threadVars, historyVars
    <3> QED BY <2>7, <3>1 DEF LoopOwned, AfterPoll
  <2> QED BY <2>1, <2>2, <2>3, <2>4, <2>5, <2>6, <2>7
<1> QED BY <1>3, <1>4, <1>5 DEF BeforeRun

LEMMA DestroyLoopKeepsInv ==
    ASSUME MainInv, LifecycleInv', DestroyLoop
    PROVE  MainInv'
<1> USE DEF MainInv, DestroyLoop
<1>1. UNCHANGED canVars /\ at = "destroy_loop" /\ at' \in {"destroy_loop", "done"}
    OBVIOUS
<1>2. /\ UNCHANGED <<pc, arg, lifecycle, completed, runCalls, requested>>
      /\ worker' = worker \/ worker = "exited"
      /\ lifetime' # "alive"
      /\ lifetime' = "gone" => ~joinable'
    BY DEF Destroy, DestroyMembers, DestroyThread, DestroyJoin, threadVars, historyVars
<1>3. CommunicationOwned'
    BY <1>1 DEF CommunicationOwned, canVars, Can!OwnershipInv, Can!ThreadIsOwned, AfterPoll
<1>4. BuffersInUse'
    BY <1>1, <1>2 DEF BuffersInUse, canVars
<1>5. LoopOwned'
    BY <1>1, <1>2 DEF LoopOwned, AfterPoll
<1> QED BY <1>1, <1>3, <1>4, <1>5 DEF AfterPoll

(* The polling ends when the loop has done all it was asked for. *)
LEMMA PollKeepsInv ==
    ASSUME MainInv, LifecycleInv', Poll
    PROVE  MainInv'
<1> USE DEF MainInv, Poll
<1>1. completed = CycleCount
  <2>1. completed <= requested /\ requested = CycleCount /\ completed \in Nat
      BY DEF LifecycleInv, Counting, LoopOwned, TypeOK
  <2> QED BY <2>1, MainAssumption, SMT
<1>2. CommunicationOwned'
    BY DEF CommunicationOwned, canVars, Can!OwnershipInv, Can!ThreadIsOwned
<1>3. LoopOwned'
    BY <1>1 DEF LoopOwned, vars, AfterPoll
<1>4. BuffersInUse' /\ at' \in AfterPoll
    BY DEF BuffersInUse, vars, canVars, AfterPoll
<1> QED BY <1>2, <1>3, <1>4

LEMMA ReportKeepsInv ==
    ASSUME MainInv, LifecycleInv', Report
    PROVE  MainInv'
<1> USE DEF MainInv, Report
<1>1. CommunicationOwned'
    BY DEF CommunicationOwned, canVars, Can!OwnershipInv, Can!ThreadIsOwned
<1>2. LoopOwned'
    BY DEF LoopOwned, vars, AfterPoll
<1>3. BuffersInUse' /\ at' \in AfterPoll
    BY DEF BuffersInUse, vars, canVars, AfterPoll
<1> QED BY <1>1, <1>2, <1>3

LEMMA ControlThreadKeepsInv ==
    ASSUME MainInv, LifecycleInv', Can!OwnershipInv', ControlThread
    PROVE  MainInv'
<1> USE DEF MainInv, ControlThread
<1>1. /\ UNCHANGED <<at, joinable, pc, arg, lifetime, runCalls, requested>>
      /\ worker \in Active
    BY DEF OnControlThreadStart, Check, Update, Finish, clientVars, vars, Active
<1>2. UNCHANGED <<running, canJoinable, owner>>
    BY DEF Can!ReadCommand, Can!BeginPublishState, Can!EndPublishState, Can!ownerVars, canVars
<1>3. lifecycle = "Running"
    BY <1>1 DEF LifecycleInv, LifecycleTellsWorker
<1>4. at \in AfterPoll => completed' = completed
    BY NoCycleLeft DEF OnControlThreadStart, Check, Update, Finish, vars
<1>5. BuffersInUse'
    BY DEF BuffersInUse, OnControlThreadStart, Check, Update, Finish, vars, canVars,
       Can!ReadCommand, Can!BeginPublishState, Can!EndPublishState
<1> QED BY <1>1, <1>2, <1>3, <1>4, <1>5, MainUnmoved DEF LoopOwned

LEMMA CommunicationThreadKeepsInv ==
    ASSUME MainInv, LifecycleInv', Can!OwnershipInv', CommunicationThread
    PROVE  MainInv'
<1> USE DEF MainInv, CommunicationThread
<1>1. UNCHANGED <<at, vars, wpc, running, canJoinable, owner>>
    BY DEF Can!CommunicationThread, Can!CheckRunning, Can!Receive, Can!ReceiveNothing,
       Can!Decode, Can!PublishCommand, Can!TransmitState, Can!ownerVars, Can!workerVars
<1>2. BuffersInUse'
    BY <1>1 DEF BuffersInUse, vars
<1> QED BY <1>1, <1>2, MainUnmoved DEF LoopOwned, vars

LEMMA StepKeepsMainInv == MainInv /\ [MainNext]_mainVars => MainInv'
<1> SUFFICES ASSUME MainInv, [MainNext]_mainVars PROVE MainInv'
    OBVIOUS
<1>1. LifecycleInv'
    BY StepUsesLoop, StepKeepsLifecycleInv DEF MainInv
<1>2. [Can!Next]_Can!vars /\ Can!OwnershipInv'
    BY StepUsesCan, CanKeepsOwnership DEF MainInv, CommunicationOwned
<1>3. CASE UNCHANGED mainVars
  <2>1. UNCHANGED <<at, vars, canVars>>
      BY <1>3 DEF mainVars
  <2> QED BY <1>1, <1>2, <2>1, MainUnmoved DEF MainInv, LoopOwned, BuffersInUse, vars, canVars
<1>4. CASE MainStep
    BY <1>1, <1>2, <1>4, CommunicationCallsKeepInv, RunLoopKeepsInv, DestroyLoopKeepsInv,
       PollKeepsInv, ReportKeepsInv DEF MainStep
<1>5. CASE ControlThread \/ CommunicationThread
    BY <1>1, <1>2, <1>5, ControlThreadKeepsInv, CommunicationThreadKeepsInv
<1> QED BY <1>3, <1>4, <1>5 DEF MainNext, Ended

-----------------------------------------------------------------------------
(* MainInv is inductive: main() takes the loop and the communication through   *)
(* their lives in the order of its statements, whatever the two threads do.    *)
THEOREM MainInvariant == MainSpec => []MainInv
BY InitMainInv, StepKeepsMainInv, PTL DEF MainSpec

(* The program uses the loop and the communication as their modules say, so    *)
(* that what is proved of ControlLoop and CanCommunication holds in it.        *)
THEOREM MainUsesComponents == MainSpec => Spec /\ UsesCommunication
<1>1. MainInit => Init /\ Can!Init
    BY DEF MainInit
<1> QED BY <1>1, StepUsesLoop, StepUsesCan, PTL DEF MainSpec, Spec, UsesCommunication, Can!Spec

-----------------------------------------------------------------------------
(* The loop with a disciplined destructor differs from the other in the guard  *)
(* of DestroyMembers only.                                                     *)

LEMMA LoopClientsAgree ==
    ASSUME NEW c \in Clients
    PROVE  /\ Run(c) => Loop!Run(c)
           /\ Wait(c) => Loop!Wait(c)
           /\ RequestStop(c) => Loop!RequestStop(c)
<1> USE DEF threadVars, historyVars, Loop!threadVars, Loop!historyVars, Goto, Loop!Goto,
        Acquire, Loop!Acquire, ReturnAndRelease, Loop!ReturnAndRelease, MayRun, Loop!MayRun
<1>1. Run(c) => Loop!Run(c)
    BY Zenon DEF Run, CallRun, RunLock, RunRejected, RunAccepted, ConstructThread, ConstructThrows,
       AssignThread, Loop!Run, Loop!CallRun, Loop!RunLock, Loop!RunRejected, Loop!RunAccepted,
       Loop!ConstructThread, Loop!ConstructThrows, Loop!AssignThread
<1>2. Wait(c) => Loop!Wait(c)
    BY Zenon DEF Wait, CallWait, WaitLock, WaitCheck, WaitJoin, WaitIdle,
       Loop!Wait, Loop!CallWait, Loop!WaitLock, Loop!WaitCheck, Loop!WaitJoin, Loop!WaitIdle
<1>3. RequestStop(c) => Loop!RequestStop(c)
    BY Zenon DEF RequestStop, Loop!RequestStop
<1> QED BY <1>1, <1>2, <1>3

LEMMA LoopOthersAgree ==
    /\ Worker => Loop!Worker
    /\ DestroyMembers /\ completed >= requested => Loop!DestroyMembers
    /\ DestroyThread => Loop!DestroyThread
    /\ DestroyJoin => Loop!DestroyJoin
    /\ UNCHANGED vars => UNCHANGED Loop!vars
<1> USE DEF threadVars, historyVars, Loop!threadVars, Loop!historyVars
<1>1. Worker => Loop!Worker
    BY Zenon DEF Worker, OnControlThreadStart, Check, Update, Finish, clientVars, StopSeen,
       Loop!Worker, Loop!OnControlThreadStart, Loop!Check, Loop!Update, Loop!Finish,
       Loop!clientVars, Loop!StopSeen
<1>2. DestroyMembers /\ completed >= requested => Loop!DestroyMembers
    BY DEF DestroyMembers, Loop!DestroyMembers
<1>3. DestroyThread => Loop!DestroyThread
    BY DEF DestroyThread, Loop!DestroyThread
<1>4. DestroyJoin => Loop!DestroyJoin
    BY DEF DestroyJoin, Loop!DestroyJoin
<1>5. UNCHANGED vars => UNCHANGED Loop!vars
    BY DEF vars, Loop!vars
<1> QED BY <1>1, <1>2, <1>3, <1>4, <1>5

(* Polling completedCycles() stands in for wait(): the program is a ControlLoop  *)
(* whose destructor is never called while a cycle is still to be done, although  *)
(* nothing but the counter tells main() so (main.cpp:60).                        *)
THEOREM PollingIsEnough == MainSpec => PollingSuffices
<1>1. MainInit => Loop!Init
    BY DEF MainInit, Init, Loop!Init
<1>2. MainInv /\ [MainNext]_mainVars => [Loop!Next]_Loop!vars
  <2> SUFFICES ASSUME MainInv, [MainNext]_mainVars PROVE [Loop!Next]_Loop!vars
      OBVIOUS
  <2>1. ASSUME DestroyMembers PROVE completed >= requested
    <3>1. lifetime = "alive" /\ lifetime' = "members"
        BY <2>1 DEF DestroyMembers
    <3>2. MainInv'
        BY StepKeepsMainInv
    <3>3. completed' = completed /\ requested' = requested
        BY <2>1 DEF DestroyMembers, threadVars, historyVars
    <3>4. completed = requested /\ completed \in Nat
        BY <3>1, <3>2, <3>3 DEF MainInv, LoopOwned, AfterPoll, LifecycleInv, TypeOK
    <3> QED BY <3>4, SMT
  <2>2. [Next]_vars
      BY StepUsesLoop
  <2> QED BY <2>1, <2>2, LoopClientsAgree, LoopOthersAgree
          DEF Next, Loop!Next, Destroy, Loop!Destroy, Terminated
<1> QED BY <1>1, <1>2, MainInvariant, PTL DEF MainSpec, PollingSuffices, Loop!Spec

(* No update() of the program outlives the members it uses, although its       *)
(* destructor does not wait for the worker (DestroyWhenBusy).                  *)
THEOREM ProgramMembersOutliveUpdates == MainSpec => []NoUseAfterLifetime
<1>1. MainInv => NoUseAfterLifetime
  <2> SUFFICES ASSUME MainInv, lifetime # "alive" PROVE worker # "update"
      BY DEF NoUseAfterLifetime
  <2> QED BY NoCycleLeft DEF MainInv, LoopOwned, AfterPoll
<1> QED BY <1>1, MainInvariant, PTL

(* What main() prints is final, and what its destructors take away is no       *)
(* longer used by a thread: the worker is past its last cycle when polling     *)
(* ends, the communication thread is gone after stop(), the worker at the end. *)
THEOREM NothingIsLeftBehind == MainSpec => []NothingLeftBehind
<1>1. MainInv => NothingLeftBehind
  <2> SUFFICES ASSUME MainInv PROVE NothingLeftBehind
      OBVIOUS
  <2> USE DEF MainInv
  <2>1. at \in AfterPoll => completed = CycleCount /\ worker \notin {"starting", "update"} /\ wpc = "read"
      BY NoCycleLeft DEF LoopOwned, BuffersInUse
  <2>2. at \in {"print", "return", "destroy_loop", "done"} => cpc = "none" /\ ~running
      BY DEF CommunicationOwned, Can!OwnershipInv, Can!ThreadIsOwned
  <2>3. ASSUME at = "done" PROVE worker = "none"
    <3>1. ~joinable /\ pc[Me] # "run_assign" /\ Clients = {Me}
        BY <2>3, MainAssumption DEF LoopOwned
    <3> QED BY <3>1 DEF LifecycleInv, WorkerIsOwned
  <2> QED BY <2>1, <2>2, <2>3 DEF NothingLeftBehind, AfterPoll
<1> QED BY <1>1, MainInvariant, PTL

-----------------------------------------------------------------------------
(* main()'s polling is answered. *)

LEMMA RunLoopCounts ==
    ASSUME MainInv, RunIsCounted, RunLoop
    PROVE  RunIsCounted'
<1> USE DEF MainInv, RunIsCounted
<1>1. /\ Me \in Clients /\ CycleCount \in Nat \ {0} /\ at = "run"
      /\ ~stopToken /\ completed \in Nat
      /\ pc[Me] # "out" => arg[Me] = CycleCount
    BY MainAssumption DEF RunLoop, LoopOwned, LifecycleInv, TypeOK, BeforeRun
<1>2. CASE (CallRun(Me) \/ RunLock(Me) \/ RunAccepted(Me)) /\ at' = "run"
    BY <1>1, <1>2 DEF CallRun, RunLock, RunAccepted, threadVars
<1>3. CASE ConstructThread(Me) /\ at' = "run"
  <2>1. pc[Me] = "run_construct" /\ arg[Me] = CycleCount
      BY <1>1, <1>3 DEF ConstructThread
  <2>2. completed + CycleCount <= requested /\ requested = CycleCount
      BY <1>1, <2>1 DEF LifecycleInv, Counting, LoopOwned
  <2>3. completed = 0
      BY <1>1, <2>2, SMT
  <2> QED BY <1>1, <1>3, <2>1, <2>3 DEF ConstructThread
<1>4. ~RunRejected(Me)
  <2>1. RunRejected(Me) => pc[Me] = "run_check" /\ arg[Me] = CycleCount /\ lifecycle = "Idle"
      BY <1>1 DEF RunRejected, LoopOwned
  <2>2. CycleCount > 0
      BY <1>1, SMT
  <2> QED BY <2>1, <2>2 DEF RunRejected, MayRun
<1>5. CASE AssignThread(Me) /\ at' = "poll"
  <2>1. worker # "none"
      BY <1>1, <1>5 DEF AssignThread, LifecycleInv, IdleOwnsNothing
  <2> QED BY <1>1, <1>5, <2>1 DEF AssignThread
<1>6. CASE ConstructThrows(Me) /\ at' = "terminated"
    BY <1>1, <1>6 DEF ConstructThrows, threadVars, BeforeRun
<1> QED BY <1>2, <1>3, <1>4, <1>5, <1>6 DEF RunLoop

LEMMA StepKeepsRunCounted == MainInv /\ RunIsCounted /\ [MainNext]_mainVars => RunIsCounted'
<1> SUFFICES ASSUME MainInv, RunIsCounted, [MainNext]_mainVars PROVE RunIsCounted'
    OBVIOUS
<1>1. CASE ControlThread
  <2>1. UNCHANGED <<at, stopRequested, stopToken, count>> /\ worker # "none"
      BY <1>1 DEF ControlThread, OnControlThreadStart, Check, Update, Finish, clientVars, vars
  <2>2. completed' = i'
      BY <1>1 DEF ControlThread, OnControlThreadStart, Check, Update, Finish, vars, RunIsCounted
  <2>3. worker' # "none"
      BY <1>1, <2>1 DEF ControlThread, OnControlThreadStart, Check, Update, Finish, vars
  <2> QED BY <2>1, <2>2, <2>3 DEF RunIsCounted
<1>2. CASE DestroyLoop
  <2>1. at \notin {"poll"} \cup BeforeRun /\ at' \notin {"poll"} \cup BeforeRun
      BY <1>2 DEF DestroyLoop, BeforeRun
  <2>2. UNCHANGED <<stopRequested, completed, i, count>> /\ (worker' = worker \/ worker' = "none")
      BY <1>2 DEF DestroyLoop, Destroy, DestroyMembers, DestroyThread, DestroyJoin, threadVars
  <2> QED BY <2>1, <2>2 DEF RunIsCounted
<1>3. CASE RunLoop
    BY <1>3, RunLoopCounts
<1>4. CASE ~ControlThread /\ ~DestroyLoop /\ ~RunLoop
  <2>1. /\ UNCHANGED vars
        /\ at' = "poll" => at = "poll"
        /\ at' \in BeforeRun => at \in BeforeRun
      BY <1>4 DEF MainNext, MainStep, Transmit, StartCommunication, Poll, StopCommunication, Report,
         DestroyCommunication, CommunicationThread, Ended, mainVars, BeforeRun
  <2> QED BY <2>1 DEF RunIsCounted, vars
<1> QED BY <1>1, <1>2, <1>3, <1>4

(* Whenever main() polls, the counter has reached cycle_count or a worker that     *)
(* nobody has stopped is still in its function: with WorkerIsNearExit the polling  *)
(* takes no more than the worker's steps.                                          *)
THEOREM PollingIsAnswered == MainSpec => []PollIsAnswered
<1>1. MainInit => RunIsCounted
    BY DEF MainInit, Init, RunIsCounted
<1>2. MainInv /\ RunIsCounted => PollIsAnswered
  <2> SUFFICES ASSUME MainInv, RunIsCounted, at = "poll", worker \notin Active
               PROVE  completed >= CycleCount
      BY DEF PollIsAnswered
  <2>1. worker = "exited" /\ ~StopSeen
      BY DEF MainInv, LifecycleInv, TypeOK, RunIsCounted, StopSeen
  <2>2. i = count /\ count = CycleCount /\ completed = i
      BY <2>1 DEF MainInv, LifecycleInv, ExitIsJustified, RunIsCounted
  <2> QED BY <2>2, MainAssumption, SMT
<1> QED BY <1>1, <1>2, StepKeepsRunCounted, MainInvariant, PTL DEF MainSpec
=============================================================================
