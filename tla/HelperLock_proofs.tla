-------------------------- MODULE HelperLock_proofs --------------------------
(***************************************************************************)
(* The lock excludes, for any number of attempts, as long as no recorded   *)
(* process start drifts from the reported one by more than the tolerance.  *)
(*                                                                         *)
(* The argument: every attempt that published stays listed while it lives, *)
(* so of two that scanned afterwards, the one that listed last saw the     *)
(* other, and a winner has seen nobody.                                    *)
(***************************************************************************)
EXTENDS HelperLock, TLAPS

Scanners == {"judge", "write", "held"}

Sees(i, j) == j \in todo[i] \cup current[i]

\* A published attempt whose process lives keeps its identity file.
StaysListed == \A i \in Instances : pc[i] \in Published => i \in files

OneSawTheOther ==
  \A i, j \in Instances :
    i # j /\ pc[i] \in Scanners /\ pc[j] \in Scanners => Sees(i, j) \/ Sees(j, i)

WinnerIsAlone ==
  \A i \in Instances : Holds(i) => todo[i] = {} /\ current[i] = {i}

IInv == TypeOK /\ StaysListed /\ OneSawTheOther /\ WinnerIsAlone

\* Two winners would each have seen only itself.
LEMMA AloneExcludes == OneSawTheOther /\ WinnerIsAlone => MutualExclusion
BY DEF OneSawTheOther, WinnerIsAlone, MutualExclusion, Holds, Scanners, Sees

\* Nobody has published yet.
LEMMA InitHolds == Init => IInv
BY InstancesAssumption, AttemptsAssumption, SkewAssumption
   DEF Init, IInv, TypeOK, StaysListed, OneSawTheOther, WinnerIsAlone, Holds, Places,
       Published, Ended, Scanners

\* Leaving the scan for any place keeps the types of what it changes.
LEMMA LeaveIsTyped ==
  ASSUME TypeOK, NEW i \in Instances, NEW place \in Places, Leave(i, place)
  PROVE  /\ pc' \in [Instances -> Places]
         /\ todo' \in [Instances -> SUBSET Instances]
         /\ current' \in [Instances -> SUBSET Instances]
         /\ tries' \in [Instances -> 0..(Attempts - 1)]
         /\ skew' \in [Instances -> 0..MaxSkew]
<1>1. 0 \in 0..(Attempts - 1)
  BY AttemptsAssumption
<1>2. pc' \in [Instances -> Places]
  BY DEF TypeOK, Leave, Goto
<1>3. todo' \in [Instances -> SUBSET Instances] /\ current' \in [Instances -> SUBSET Instances]
  BY DEF TypeOK, Leave
<1>4. tries' \in [Instances -> 0..(Attempts - 1)] /\ skew' \in [Instances -> 0..MaxSkew]
  BY <1>1 DEF TypeOK, Leave
<1> QED
  BY <1>2, <1>3, <1>4

\* Every step keeps the types.
LEMMA TypeStep == ASSUME TypeOK, [Next]_vars PROVE TypeOK'
<1> USE InstancesAssumption, AttemptsAssumption, SkewAssumption DEF TypeOK, Places, Published, Ended
<1>1. ASSUME NEW i \in Instances, Acquire(i) PROVE TypeOK'
  <2>1. CASE Precheck(i) \/ List(i)
    BY <2>1 DEF Precheck, List, Listing, Goto
  <2>2. ASSUME NEW j \in Instances, Judge(i, j) PROVE TypeOK'
    <3>1. todo' \in [Instances -> SUBSET Instances]
      BY <2>2 DEF Judge
    <3>2. current' \in [Instances -> SUBSET Instances]
      BY <2>2 DEF Judge
    <3>3. files' \subseteq Instances
      BY <2>2 DEF Judge
    <3> QED
      BY <2>2, <3>1, <3>2, <3>3 DEF Judge
  <2>3. CASE Busy(i) \/ Lose(i)
    BY <2>3, LeaveIsTyped DEF Busy, Lose
  <2>4. CASE Publish(i)
    BY <2>4 DEF Publish, Goto
  <2>5. CASE Win(i) \/ WritePid(i)
    BY <2>5 DEF Win, WritePid, Goto
  <2>6. CASE Wait(i)
    BY <2>6 DEF Wait, Goto
  <2> QED
    BY <1>1, <2>1, <2>2, <2>3, <2>4, <2>5, <2>6 DEF Acquire
<1>2. ASSUME NEW i \in Instances, CleanUp(i) PROVE TypeOK'
  BY <1>2 DEF CleanUp, Withdraw, WithdrawPid, WithdrawUnlink, ReleasePid, ReleaseFile, Goto
<1>3. ASSUME NEW i \in Instances, Release(i) PROVE TypeOK'
  BY <1>3, LeaveIsTyped DEF Release
<1>4. ASSUME NEW i \in Instances, Throw(i) PROVE TypeOK'
  BY <1>4, LeaveIsTyped DEF Throw
<1>5. ASSUME NEW i \in Instances, Crash(i) PROVE TypeOK'
  BY <1>5, LeaveIsTyped DEF Crash
<1>6. ASSUME NEW i \in Instances, Sleep(i) PROVE TypeOK'
  BY <1>6 DEF Sleep
<1>7. CASE ClockSet
  <2>1. \A i \in Instances : skew'[i] \in 0..MaxSkew
    BY <1>7 DEF ClockSet, Recorded
  <2> QED
    BY <1>7, <2>1 DEF ClockSet
<1>8. CASE UNCHANGED vars
  BY <1>8 DEF vars
<1> QED
  BY <1>1, <1>2, <1>3, <1>4, <1>5, <1>6, <1>7, <1>8 DEF Next

\* Every step keeps the three facts the exclusion rests on.
LEMMA InvStep ==
  ASSUME MaxSkew <= Tolerance, IInv, [Next]_vars
  PROVE  StaysListed' /\ OneSawTheOther' /\ WinnerIsAlone'
<1> USE DEF IInv, TypeOK, StaysListed, OneSawTheOther, WinnerIsAlone, Holds, Published, Scanners,
            Sees
<1> DEFINE Goal == StaysListed' /\ OneSawTheOther' /\ WinnerIsAlone'
<1>1. ASSUME NEW i \in Instances, Precheck(i) PROVE Goal
  BY <1>1 DEF Precheck, Listing, Goto
<1>2. ASSUME NEW i \in Instances, List(i) PROVE Goal
  BY <1>2 DEF List, Listing, Goto
<1>3. ASSUME NEW i \in Instances, NEW j \in Instances, Judge(i, j) PROVE Goal
  <2>1. pc[j] # "dead" => IsCurrent(j)
    BY SkewAssumption DEF IsCurrent
  <2>2. StaysListed'
    BY <1>3, <2>1 DEF Judge
  <2>3. WinnerIsAlone'
    BY <1>3 DEF Judge
  <2>4. pc[j] \in Scanners => j \in todo'[i] \cup current'[i]
    BY <1>3, <2>1 DEF Judge, IsCurrent
  <2>5. /\ \A k \in Instances \ {j} : k \in todo[i] \cup current[i] => k \in todo'[i] \cup current'[i]
        /\ \A k \in Instances \ {i} : todo'[k] = todo[k] /\ current'[k] = current[k]
        /\ pc' = pc
    BY <1>3 DEF Judge
  <2>6. OneSawTheOther'
    BY <2>4, <2>5
  <2> QED
    BY <2>2, <2>3, <2>6
<1>4. ASSUME NEW i \in Instances, Busy(i) \/ Lose(i) PROVE Goal
  BY <1>4 DEF Busy, Lose, Leave, Goto
<1>5. ASSUME NEW i \in Instances, Publish(i) PROVE Goal
  BY <1>5 DEF Publish, Goto
<1>6. ASSUME NEW i \in Instances, Win(i) PROVE Goal
  BY <1>6 DEF Win, Scanned, Goto
<1>7. ASSUME NEW i \in Instances, Wait(i) PROVE Goal
  BY <1>7 DEF Wait, Scanned, Goto
<1>8. ASSUME NEW i \in Instances, WritePid(i) PROVE Goal
  BY <1>8 DEF WritePid, Goto
<1>9. ASSUME NEW i \in Instances, CleanUp(i) PROVE Goal
  BY <1>9 DEF CleanUp, Withdraw, WithdrawPid, WithdrawUnlink, ReleasePid, ReleaseFile, Goto
<1>10. ASSUME NEW i \in Instances, Release(i) \/ Throw(i) \/ Crash(i) PROVE Goal
  BY <1>10 DEF Release, Throw, Crash, Leave, Goto
<1>11. ASSUME NEW i \in Instances, Sleep(i) PROVE Goal
  BY <1>11 DEF Sleep
<1>12. CASE ClockSet
  BY <1>12 DEF ClockSet
<1>13. CASE UNCHANGED vars
  BY <1>13 DEF vars
<1> QED
  BY <1>1, <1>2, <1>3, <1>4, <1>5, <1>6, <1>7, <1>8, <1>9, <1>10, <1>11, <1>12, <1>13
     DEF Next, Acquire

\* Never two holders, whatever attempts crash, throw, wait or withdraw.
THEOREM LockExcludes ==
  ASSUME MaxSkew <= Tolerance
  PROVE  Spec => []MutualExclusion
<1>1. IInv /\ [Next]_vars => IInv'
  BY TypeStep, InvStep DEF IInv
<1>2. IInv => MutualExclusion
  BY AloneExcludes DEF IInv
<1> QED
  BY InitHolds, <1>1, <1>2, PTL DEF Spec

\* The model keeps to its types without any assumption about the clocks.
THEOREM LockIsTyped == Spec => []TypeOK
<1>1. Init => TypeOK
  BY InitHolds DEF IInv
<1>2. TypeOK /\ [Next]_vars => TypeOK'
  BY TypeStep
<1> QED
  BY <1>1, <1>2, PTL DEF Spec

-----------------------------------------------------------------------------
(* What the owner leaves behind                                            *)

Releasing == {"releasePid", "releaseFile"}

\* An attempt that scans has found its own file, or has yet to judge it.
OwnIsFound == \A i \in Instances : pc[i] = "judge" => Sees(i, i)

\* Who releases was alone, so every attempt that scans still sees it: its
\* file is the last thing it takes away.
ReleaseIsSeen ==
  \A i, j \in Instances :
    pc[j] \in Releasing => j \in files /\ (pc[i] \in Scanners => Sees(i, j))

OwnerInv == IInv /\ OwnIsFound /\ ReleaseIsSeen

LEMMA OwnIsFoundStep ==
  ASSUME MaxSkew <= Tolerance, IInv, OwnIsFound, [Next]_vars
  PROVE  OwnIsFound'
<1> USE DEF IInv, TypeOK, OwnIsFound, Sees
<1>1. ASSUME NEW i \in Instances, Acquire(i) PROVE OwnIsFound'
  <2>1. CASE List(i)
    BY <2>1 DEF List, Listing, Goto, StaysListed, Published
  <2>2. ASSUME NEW j \in Instances, Judge(i, j) PROVE OwnIsFound'
    <3>1. pc[j] = "judge" => j \in files /\ IsCurrent(j)
      BY SkewAssumption DEF IsCurrent, StaysListed, Published
    <3> QED
      BY <2>2, <3>1 DEF Judge
  <2>3. CASE Precheck(i)
    BY <2>3 DEF Precheck, Listing, Goto
  <2>4. CASE Busy(i) \/ Lose(i)
    BY <2>4 DEF Busy, Lose, Leave, Goto
  <2>5. CASE Publish(i) \/ Win(i) \/ Wait(i) \/ WritePid(i)
    BY <2>5 DEF Publish, Win, Wait, WritePid, Goto
  <2> QED
    BY <1>1, <2>1, <2>2, <2>3, <2>4, <2>5 DEF Acquire
<1>2. ASSUME NEW i \in Instances, CleanUp(i) PROVE OwnIsFound'
  BY <1>2 DEF CleanUp, Withdraw, WithdrawPid, WithdrawUnlink, ReleasePid, ReleaseFile, Goto
<1>3. ASSUME NEW i \in Instances, Release(i) \/ Throw(i) \/ Crash(i) PROVE OwnIsFound'
  BY <1>3 DEF Release, Throw, Crash, Leave, Goto
<1>4. ASSUME NEW i \in Instances, Sleep(i) PROVE OwnIsFound'
  BY <1>4 DEF Sleep
<1>5. CASE ClockSet
  BY <1>5 DEF ClockSet
<1>6. CASE UNCHANGED vars
  BY <1>6 DEF vars
<1> QED
  BY <1>1, <1>2, <1>3, <1>4, <1>5, <1>6 DEF Next

LEMMA ReleaseIsSeenStep ==
  ASSUME MaxSkew <= Tolerance, IInv, ReleaseIsSeen, [Next]_vars
  PROVE  ReleaseIsSeen'
<1> USE DEF IInv, TypeOK, ReleaseIsSeen, Sees, Scanners, Releasing
<1>1. ASSUME NEW i \in Instances, Acquire(i) PROVE ReleaseIsSeen'
  <2>1. CASE List(i) \/ Precheck(i)
    BY <2>1 DEF List, Precheck, Listing, Goto
  <2>2. ASSUME NEW j \in Instances, Judge(i, j) PROVE ReleaseIsSeen'
    <3>1. pc[j] # "dead" => IsCurrent(j)
      BY SkewAssumption DEF IsCurrent
    <3> QED
      BY <2>2, <3>1 DEF Judge
  <2>3. CASE Busy(i) \/ Lose(i)
    BY <2>3 DEF Busy, Lose, Leave, Goto
  <2>4. CASE Publish(i) \/ Win(i) \/ Wait(i) \/ WritePid(i)
    BY <2>4 DEF Publish, Win, Wait, WritePid, Scanned, Goto
  <2> QED
    BY <1>1, <2>1, <2>2, <2>3, <2>4 DEF Acquire
<1>2. ASSUME NEW i \in Instances, CleanUp(i) PROVE ReleaseIsSeen'
  BY <1>2 DEF CleanUp, Withdraw, WithdrawPid, WithdrawUnlink, ReleasePid, ReleaseFile, Goto
<1>3. ASSUME NEW i \in Instances, Release(i) PROVE ReleaseIsSeen'
  <2>1. i \in files
    BY <1>3 DEF Release, StaysListed, Published
  <2>2. \A k \in Instances \ {i} : pc[k] \in Scanners => Sees(k, i)
    BY <1>3 DEF Release, OneSawTheOther, WinnerIsAlone, Holds
  <2>3. /\ \A k \in Instances \ {i} : pc'[k] = pc[k] /\ todo'[k] = todo[k] /\ current'[k] = current[k]
        /\ pc'[i] \in Releasing /\ files' = files
    BY <1>3 DEF Release, Leave, Goto
  <2> QED
    BY <2>1, <2>2, <2>3
<1>4. ASSUME NEW i \in Instances, Throw(i) \/ Crash(i) PROVE ReleaseIsSeen'
  BY <1>4 DEF Throw, Crash, Leave, Goto
<1>5. ASSUME NEW i \in Instances, Sleep(i) PROVE ReleaseIsSeen'
  BY <1>5 DEF Sleep
<1>6. CASE ClockSet
  BY <1>6 DEF ClockSet
<1>7. CASE UNCHANGED vars
  BY <1>7 DEF vars
<1> QED
  BY <1>1, <1>2, <1>3, <1>4, <1>5, <1>6, <1>7 DEF Next

\* What OwnerInv says of one step of whoever touches the pid file.
LEMMA OwnerKeepsPidFile ==
  ASSUME OwnerInv, [Next]_vars,
         NEW i \in Instances, pc[i] = "held", pidFile = i, pidFile' # i
  PROVE  \E j \in Instances : pc[j] = "withdrawUnlink"
<1> USE DEF OwnerInv, IInv
<1>1. \A j \in Instances : Holds(j) => j = i
  BY AloneExcludes DEF MutualExclusion, Holds
<1>2. \A j \in Instances : pc[j] # "releasePid"
  BY DEF ReleaseIsSeen, WinnerIsAlone, Releasing, Scanners, Holds, Sees
<1>3. ASSUME NEW j \in Instances, Acquire(j) PROVE WritePid(j)
  BY <1>3 DEF Acquire, Precheck, List, Listing, Judge, Busy, Publish, Win, Wait, Lose
<1>4. ASSUME NEW j \in Instances, WritePid(j) PROVE FALSE
  BY <1>1, <1>4 DEF WritePid, Holds
<1>5. ASSUME NEW j \in Instances, CleanUp(j) PROVE pc[j] = "withdrawUnlink"
  BY <1>2, <1>5 DEF CleanUp, Withdraw, WithdrawPid, WithdrawUnlink, ReleasePid, ReleaseFile
<1>6. ASSUME NEW j \in Instances, Throw(j) PROVE FALSE
  BY <1>1, <1>6 DEF Throw, Holds
<1>7. ASSUME NEW j \in Instances, Release(j) \/ Crash(j) \/ Sleep(j) PROVE FALSE
  BY <1>7 DEF Release, Crash, Sleep
<1>8. ~ ClockSet /\ ~ UNCHANGED vars
  BY DEF ClockSet, vars
<1> QED
  BY <1>3, <1>4, <1>5, <1>6, <1>7, <1>8 DEF Next

\* OwnerInv is inductive while the drift stays within the tolerance.
LEMMA OwnerInvHolds ==
  ASSUME MaxSkew <= Tolerance
  PROVE  Spec => []OwnerInv
<1>1. Init => OwnerInv
  BY InitHolds DEF Init, OwnerInv, OwnIsFound, ReleaseIsSeen, Releasing
<1>2. OwnerInv /\ [Next]_vars => OwnerInv'
  BY TypeStep, InvStep, OwnIsFoundStep, ReleaseIsSeenStep DEF OwnerInv, IInv
<1> QED
  BY <1>1, <1>2, PTL DEF Spec

\* An attempt that looks again after publishing finds itself: it never gives
\* up because it took its own identity file for that of a dead process.
THEOREM OwnIdentityIsFound ==
  ASSUME MaxSkew <= Tolerance
  PROVE  Spec => []OwnIdentityIsCurrent
<1>1. OwnerInv => OwnIdentityIsCurrent
  BY DEF OwnerInv, OwnIsFound, OwnIdentityIsCurrent, Scanned, Sees
<1> QED
  BY <1>1, OwnerInvHolds, PTL

\* While its holder lives the pid file names it, whatever losers, crashed
\* owners and releasing owners clean up, but for an attempt that failed after
\* it had itself replaced the file.
THEOREM PidFileStays ==
  ASSUME MaxSkew <= Tolerance
  PROVE  Spec => PidFileIsKept
<1> DEFINE Kept == \A i \in Instances :
                     pc[i] = "held" /\ pidFile = i /\ pidFile' # i
                       => \E j \in Instances : pc[j] = "withdrawUnlink"
<1>1. OwnerInv /\ [Next]_vars => [Kept]_vars
  BY OwnerKeepsPidFile
<1>2. PidFileIsKept <=> [][Kept]_vars
  BY DEF PidFileIsKept
<1> QED
  BY <1>1, <1>2, OwnerInvHolds, PTL DEF Spec

=============================================================================
