----------------------------- MODULE HelperLock -----------------------------
(***************************************************************************)
(* The lock that makes one process the only writer of the state directory: *)
(* the Helper takes it for its life, a Claude task for one request.  Every *)
(* attempt has an identity file of its own in the locks directory; who     *)
(* finds no other current identity beside his own, after publishing it,    *)
(* holds the lock.  A file whose owner is judged gone is removed by        *)
(* whoever sees it, and the judgement compares clocks: the process start   *)
(* the owner recorded with the start the system reports now.               *)
(***************************************************************************)
EXTENDS Integers, FiniteSets

CONSTANTS
  Instances,   \* the attempts, in the order of their instanceIds
  Attempts,    \* LOCK_COLLISION_SETTLE_ATTEMPTS
  Tolerance,   \* PROCESS_START_TOLERANCE_MS
  MaxSkew,     \* bound on how far recorded and reported starts may drift apart
  NoOne        \* no helper.pid.json

ASSUME InstancesAssumption == Instances \subseteq Nat /\ NoOne \notin Instances
ASSUME AttemptsAssumption == Attempts \in Nat \ {0}
ASSUME SkewAssumption == Tolerance \in Nat /\ MaxSkew \in Nat

VARIABLES
  pc,        \* where each attempt is; "dead" once its process is
  files,     \* the identity files in the locks directory
  pidFile,   \* the owner named in helper.pid.json
  todo,      \* of each attempt, the listed files it has not judged yet
  current,   \* and those it judged current
  tries,     \* its rounds of the election
  skew       \* recorded against reported start of its process

vars == <<pc, files, pidFile, todo, current, tries, skew>>

Published == {"list", "judge", "write", "held"}
Ended     == {"over", "released", "dead"}

Goto(i, place) == pc' = [pc EXCEPT ![i] = place]

\* Leaving the scan, the attempt forgets what it found.
Leave(i, place) ==
  /\ Goto(i, place)
  /\ todo' = [todo EXCEPT ![i] = {}] /\ current' = [current EXCEPT ![i] = {}]
  /\ tries' = [tries EXCEPT ![i] = 0] /\ UNCHANGED skew

-----------------------------------------------------------------------------
(* collectCurrentContenders: list the directory, then judge each file      *)

\* Mutant: a start at the edge of the tolerance is taken for another process.
IsCurrentStrictly(j) == pc[j] # "dead" /\ skew[j] < Tolerance

\* Mutant: an identity is believed whatever has become of its process.
IsCurrentAfterDeath(j) == skew[j] <= Tolerance

IsCurrent(j) == pc[j] # "dead" /\ skew[j] <= Tolerance

Listing(i, from, to) ==
  /\ pc[i] = from /\ Goto(i, to)
  /\ todo' = [todo EXCEPT ![i] = files]
  /\ current' = [current EXCEPT ![i] = {}]
  /\ UNCHANGED <<files, pidFile, tries, skew>>

Precheck(i) == Listing(i, "start", "precheck")
List(i)     == Listing(i, "list", "judge")

\* A file that vanished since the listing is passed over; the file of an
\* owner that is gone is removed.
Judge(i, j) ==
  /\ pc[i] \in {"precheck", "judge"}
  /\ j \in todo[i]
  /\ todo' = [todo EXCEPT ![i] = @ \ {j}]
  /\ \/ j \notin files /\ UNCHANGED <<current, files>>
     \/ IsCurrent(j) /\ current' = [current EXCEPT ![i] = @ \cup {j}] /\ UNCHANGED files
     \/ ~IsCurrent(j) /\ files' = files \ {j} /\ UNCHANGED current
  /\ UNCHANGED <<pc, pidFile, tries, skew>>

-----------------------------------------------------------------------------
(* acquireHelperInstanceLock                                               *)

\* Someone holds the lock or is after it: HELPER_ALREADY_RUNNING.
Busy(i) ==
  /\ pc[i] = "precheck" /\ todo[i] = {} /\ current[i] # {}
  /\ Leave(i, "over")
  /\ UNCHANGED <<files, pidFile>>

\* Mutant: the lock is taken on the strength of the first look.
PublishAndWin(i) ==
  /\ pc[i] = "precheck" /\ todo[i] = {} /\ current[i] = {}
  /\ files' = files \cup {i}
  /\ Goto(i, "write")
  /\ UNCHANGED <<pidFile, todo, current, tries, skew>>

Publish(i) ==
  /\ pc[i] = "precheck" /\ todo[i] = {} /\ current[i] = {}
  /\ files' = files \cup {i}
  /\ Goto(i, "list")
  /\ UNCHANGED <<pidFile, todo, current, tries, skew>>

Scanned(i) == pc[i] = "judge" /\ todo[i] = {}

\* Alone: the lock is taken.
Win(i) ==
  /\ Scanned(i) /\ current[i] = {i}
  /\ Goto(i, "write")
  /\ UNCHANGED <<files, pidFile, todo, current, tries, skew>>

Preferred(i) == \A j \in current[i] : i <= j

\* Mutant: one attempt too many.
WaitOnceMore(i) ==
  /\ Scanned(i) /\ i \in current[i] /\ current[i] # {i}
  /\ Preferred(i) /\ tries[i] < Attempts
  /\ Goto(i, "list")
  /\ tries' = [tries EXCEPT ![i] = @ + 1]
  /\ UNCHANGED <<files, pidFile, todo, current, skew>>

\* Mutant: the attempts are not counted.
WaitUncounted(i) ==
  /\ Scanned(i) /\ i \in current[i] /\ current[i] # {i} /\ Preferred(i)
  /\ Goto(i, "list")
  /\ UNCHANGED <<files, pidFile, todo, current, tries, skew>>

\* First by instanceId, it waits for the others to withdraw and looks again.
Wait(i) ==
  /\ Scanned(i) /\ i \in current[i] /\ current[i] # {i}
  /\ Preferred(i) /\ tries[i] + 1 < Attempts
  /\ Goto(i, "list")
  /\ tries' = [tries EXCEPT ![i] = @ + 1]
  /\ UNCHANGED <<files, pidFile, todo, current, skew>>

\* Mutant: the loser clears the pid file as well.
LoseClearingPid(i) ==
  /\ Scanned(i) /\ (i \notin current[i] \/ ~Preferred(i))
  /\ Leave(i, "withdraw")
  /\ pidFile' = NoOne
  /\ UNCHANGED files

\* Not first, or out of attempts, or its own identity not current: it loses.
Lose(i) ==
  /\ Scanned(i)
  /\ \/ i \notin current[i]
     \/ ~Preferred(i)
     \/ current[i] # {i} /\ tries[i] + 1 = Attempts
  /\ Leave(i, "withdraw")
  /\ UNCHANGED <<files, pidFile>>

WritePid(i) ==
  /\ pc[i] = "write"
  /\ pidFile' = i
  /\ Goto(i, "held")
  /\ UNCHANGED <<files, todo, current, tries, skew>>

\* Listing, judging or writing throws: before the pid file is in place, or
\* after it, when the mode or the sync of its directory fails.
Throw(i) ==
  /\ pc[i] \in {"list", "judge", "write"}
  /\ \/ UNCHANGED pidFile
     \/ pc[i] = "write" /\ pidFile' = i
  /\ Leave(i, "withdraw")
  /\ UNCHANGED files

\* The catch block: the identity file first, then the pid file if it is ours.
Withdraw(i) ==
  /\ pc[i] = "withdraw"
  /\ files' = files \ {i}
  /\ Goto(i, "withdrawPid")
  /\ UNCHANGED <<pidFile, todo, current, tries, skew>>

WithdrawPid(i) ==
  /\ pc[i] = "withdrawPid"
  /\ Goto(i, IF pidFile = i THEN "withdrawUnlink" ELSE "over")
  /\ UNCHANGED <<files, pidFile, todo, current, tries, skew>>

WithdrawUnlink(i) ==
  /\ pc[i] = "withdrawUnlink"
  /\ pidFile' = NoOne
  /\ Goto(i, "over")
  /\ UNCHANGED <<files, todo, current, tries, skew>>

-----------------------------------------------------------------------------
(* HelperInstanceLock.release: the pid file if it is ours, then the file   *)

Release(i) ==
  /\ pc[i] = "held"
  /\ Leave(i, IF pidFile = i THEN "releasePid" ELSE "releaseFile")
  /\ UNCHANGED <<files, pidFile>>

ReleasePid(i) ==
  /\ pc[i] = "releasePid"
  /\ pidFile' = NoOne
  /\ Goto(i, "releaseFile")
  /\ UNCHANGED <<files, todo, current, tries, skew>>

ReleaseFile(i) ==
  /\ pc[i] = "releaseFile"
  /\ files' = files \ {i}
  /\ Goto(i, "released")
  /\ UNCHANGED <<pidFile, todo, current, tries, skew>>

-----------------------------------------------------------------------------
(* The environment                                                         *)

Crash(i) ==
  /\ pc[i] \notin Ended \cup {"start"}
  /\ Leave(i, "dead")
  /\ UNCHANGED <<files, pidFile>>

\* The wall clock is set: the start the system derives from it moves away
\* from the one in every identity recorded before.
Recorded == {i \in Instances : pc[i] \notin Ended \cup {"start"}}

ClockSet ==
  /\ Recorded # {} /\ \A i \in Recorded : skew[i] < MaxSkew
  /\ skew' = [i \in Instances |-> skew[i] + IF i \in Recorded THEN 1 ELSE 0]
  /\ UNCHANGED <<pc, files, pidFile, todo, current, tries>>

\* The machine sleeps: process.uptime, from which a running process will
\* compute its start, does not count the time.
Sleep(i) ==
  /\ pc[i] = "start" /\ skew[i] < MaxSkew
  /\ skew' = [skew EXCEPT ![i] = @ + 1]
  /\ UNCHANGED <<pc, files, pidFile, todo, current, tries>>

-----------------------------------------------------------------------------

Init ==
  /\ pc = [i \in Instances |-> "start"]
  /\ files = {}
  /\ pidFile = NoOne
  /\ todo = [i \in Instances |-> {}]
  /\ current = [i \in Instances |-> {}]
  /\ tries = [i \in Instances |-> 0]
  /\ skew = [i \in Instances |-> 0]

Acquire(i) ==
  \/ Precheck(i) \/ List(i) \/ (\E j \in Instances : Judge(i, j))
  \/ Busy(i) \/ Publish(i) \/ Win(i) \/ Wait(i) \/ Lose(i) \/ WritePid(i)

CleanUp(i) ==
  \/ Withdraw(i) \/ WithdrawPid(i) \/ WithdrawUnlink(i)
  \/ ReleasePid(i) \/ ReleaseFile(i)

Next ==
  \/ \E i \in Instances :
       \/ Acquire(i) \/ CleanUp(i)
       \/ Release(i) \/ Throw(i) \/ Crash(i) \/ Sleep(i)
  \/ ClockSet

\* Some process that can go on does: attempts are finite, so all of them end.
Fairness == WF_vars(\E i \in Instances : Acquire(i) \/ CleanUp(i))

Spec == Init /\ [][Next]_vars

FairSpec == Spec /\ Fairness

-----------------------------------------------------------------------------
(* Properties                                                              *)

Places == Published \cup Ended
  \cup {"start", "precheck", "withdraw", "withdrawPid", "withdrawUnlink", "releasePid",
        "releaseFile"}

TypeOK ==
  /\ pc \in [Instances -> Places]
  /\ files \subseteq Instances
  /\ pidFile \in Instances \cup {NoOne}
  /\ todo \in [Instances -> SUBSET Instances] /\ current \in [Instances -> SUBSET Instances]
  /\ tries \in [Instances -> 0..(Attempts - 1)] /\ skew \in [Instances -> 0..MaxSkew]

\* README.md:194, "Helper ... is the only state writer": two live processes
\* never have the lock, or are about to return with it, at the same time.
Holds(i) == pc[i] \in {"write", "held"}

MutualExclusion == \A i, j \in Instances : Holds(i) /\ Holds(j) => i = j

\* Whatever losers, releasing owners and crashed owners clean up, the pid
\* file by which the Doctor finds the Helper keeps naming a live holder,
\* except when an attempt failed after it had itself replaced that file.
PidFileIsKept ==
  [][\A i \in Instances :
       pc[i] = "held" /\ pidFile = i /\ pidFile' # i
         => \E j \in Instances : pc[j] = "withdrawUnlink"]_vars

\* An attempt that published its identity finds it when it looks again: it
\* does not take its own file for that of a dead process.
OwnIdentityIsCurrent ==
  \A i \in Instances : Scanned(i) => i \in current[i]

\* The election settles: every attempt takes the lock, gives up or dies, and
\* what it began to clean up is cleaned up.
AttemptsEnd ==
  \A i \in Instances : pc[i] \notin Ended \cup {"start", "held"} ~> pc[i] \in Ended \cup {"held"}

\* What others left behind keeps nobody out: an attempt that begins when all the
\* others have ended, by a crash at any place or otherwise, is not told that a
\* Helper is running.  It takes the lock, unless it dies or a call of its own fails.
NoneIsKeptOut ==
  \A i \in Instances :
    (pc[i] = "start" /\ \A j \in Instances \ {i} : pc[j] \in Ended)
      ~> pc[i] \in {"held", "withdraw", "dead"}

=============================================================================
