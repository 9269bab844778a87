-------------------------- MODULE EmailQueueProofs --------------------------
(* Theorems about EmailQueue, for any number of mails and workers and any  *)
(* setting of the attempts, of the stalls and of the jobs that are kept.   *)
EXTENDS EmailQueue, FiniteSetTheorems, TLAPS

Tried == {"active", "completed", "removed"}

\* A start of job j is a failed attempt, a stall, or the one that is running
\* or was completed; the attempts and the stalls left are one at least as long
\* as the job has not failed.
Counted(j) ==
    LET k == job[j] IN
    /\ taken[j] = k.made + k.stalls + IF k.state \in Tried THEN 1 ELSE 0
    /\ k.state = "none" => k.made = 0 /\ k.stalls = 0 /\ k.lock = NoWorker
    /\ k.state \notin {"none", "failed"} => k.made < Attempts /\ k.stalls <= MaxStalls
    /\ k.state = "failed" => \/ k.made = Attempts /\ k.stalls <= MaxStalls
                             \/ k.made < Attempts /\ k.stalls = MaxStalls + 1

\* Jobs are there from their posting on.
Posted(j) == (job[j].state # "none") = (j <= posted)

\* The worker a lock names is running that job.
Locked(j) ==
    LET w == job[j].lock IN
    w # NoWorker => job[j].state = "active" /\ work[w].job = j /\ work[w].step # "idle"

\* A worker runs a posted job, or none; a handler has returned only after the
\* provider took the mail.
GoodWork(w) ==
    LET k == work[w] IN
    /\ k.step = "idle" => k = Idle
    /\ k.step # "idle" => k.job \in Jobs /\ k.job <= posted
    /\ k.step = "ok" => sent[k.job] > 0

Mailed(j) ==
    sent[j] > 0 => j <= posted /\ job[j].name \in JobName

Waits     == \A p \in DOMAIN waiting : job[waiting[p]].state = "wait"
Distinct  == \A p, q \in DOMAIN waiting : waiting[p] = waiting[q] => p = q
Kept      == /\ \A p \in DOMAIN done : job[done[p]].state = "completed"
             /\ \A p, q \in DOMAIN done : done[p] = done[q] => p = q

AllCounted == \A j \in Jobs : Counted(j)
AllPosted  == \A j \in Jobs : Posted(j)
AllLocked  == \A j \in Jobs : Locked(j)
AllWork    == \A w \in Workers : GoodWork(w)
AllMailed  == \A j \in Jobs : Mailed(j)

QInv == /\ TypeOK /\ AllCounted /\ AllPosted /\ AllLocked /\ AllWork /\ AllMailed
        /\ Waits /\ Distinct /\ Kept /\ CompletedWasMailed

LEMMA JobType ==
  ASSUME TypeOK, NEW j \in Jobs
  PROVE  /\ job[j] \in Job /\ taken[j] \in Nat /\ sent[j] \in Nat /\ faults[j] \in Nat
         /\ job[j].made \in Nat /\ job[j].stalls \in Nat /\ posted \in Nat /\ j \in Nat
  BY MaxJobsAssumption, AttemptsAssumption, MaxStallsAssumption DEF TypeOK, Job, Jobs

LEMMA Owned ==
  ASSUME QInv, NEW w \in Workers, Owns(w)
  PROVE  /\ work[w].step # "idle" /\ work[w].job \in Jobs /\ work[w].job <= posted
         /\ job[work[w].job].state = "active" /\ job[work[w].job].lock = w
<1>1. work[w].step # "idle"
  BY DEF Owns, QInv, AllWork, GoodWork
<1>2. work[w].job \in Jobs /\ work[w].job <= posted
  BY <1>1 DEF QInv, AllWork, GoodWork
<1> QED
  BY <1>1, <1>2, WorkersAssumption DEF Owns, QInv, AllLocked, Locked

LEMMA Listed ==
  ASSUME TypeOK
  PROVE  /\ \A p \in DOMAIN done : done[p] \in Jobs
         /\ \A p \in DOMAIN waiting : waiting[p] \in Jobs
  BY DEF TypeOK

-----------------------------------------------------------------------------
(* Posting and taking.                                                      *)

LEMMA AddStep ==
  ASSUME QInv, NEW name \in Names, Add(name)
  PROVE  QInv'
<1> DEFINE p == posted + 1
           new == [job[p] EXCEPT !.name = name, !.state = "wait"]
<1>1. p \in Jobs /\ posted' = p /\ posted \in Nat /\ UNCHANGED <<done, work, sent, taken, faults>>
  BY MaxJobsAssumption DEF Add, QInv, TypeOK, Jobs, history
<1>2. /\ job[p].state = "none" /\ job[p].made = 0 /\ job[p].stalls = 0
      /\ job[p].lock = NoWorker /\ taken[p] = 0
  BY <1>1, JobType DEF QInv, AllPosted, Posted, AllCounted, Counted, Tried
<1>3. /\ new \in Job /\ new.state = "wait" /\ new.name = name /\ new.made = 0
      /\ new.stalls = 0 /\ new.lock = NoWorker
  BY <1>1, <1>2, NamesAssumption, JobType DEF QInv, Job
<1>4. job' = [job EXCEPT ![p] = new]
  BY <1>1 DEF Add, QInv, TypeOK
<1> HIDE DEF new
<1>5. job' \in [Jobs -> Job] /\ \A j \in Jobs : job'[j] = IF j = p THEN new ELSE job[j]
  BY <1>1, <1>3, <1>4 DEF QInv, TypeOK
<1>6. waiting' = Append(waiting, p) /\ waiting \in Seq(Jobs) /\ waiting' \in Seq(Jobs)
  BY <1>1 DEF Add, QInv, TypeOK
<1>7. TypeOK'
  <2>1. posted' \in 0..MaxJobs
    BY <1>1, MaxJobsAssumption DEF Jobs
  <2> QED
    BY <1>1, <1>5, <1>6, <2>1 DEF QInv, TypeOK
<1>8. AllCounted'
  BY <1>1, <1>2, <1>3, <1>5, AttemptsAssumption, MaxStallsAssumption
  DEF QInv, AllCounted, Counted, Tried
<1>9. AllPosted'
  BY <1>1, <1>3, <1>5 DEF QInv, AllPosted, Posted, Jobs
<1>10. AllLocked'
  BY <1>1, <1>3, <1>5 DEF QInv, AllLocked, Locked
<1>11. AllWork'
  BY <1>1 DEF QInv, AllWork, GoodWork, Jobs
<1>12. AllMailed' /\ CompletedWasMailed'
  <2>1. sent[p] = 0
    BY <1>1, JobType DEF QInv, AllMailed, Mailed
  <2> QED
    BY <1>1, <1>3, <1>5, <2>1 DEF QInv, AllMailed, Mailed, CompletedWasMailed, Jobs
<1>13. Waits' /\ Distinct'
  BY <1>2, <1>3, <1>5, <1>6 DEF QInv, Waits, Distinct
<1>14. Kept'
  BY <1>1, <1>2, <1>5, Listed DEF QInv, Kept
<1> QED
  BY <1>7, <1>8, <1>9, <1>10, <1>11, <1>12, <1>13, <1>14 DEF QInv

\* The number a posted job takes is one that no job has yet.
LEMMA NextIsFree ==
  ASSUME QInv, NEW name \in Names, Add(name)
  PROVE  \E p \in Jobs : p = posted + 1 /\ job[p].state = "none"
<1>1. posted \in Nat /\ posted < MaxJobs /\ MaxJobs \in Nat
  BY MaxJobsAssumption DEF Add, QInv, TypeOK
<1>2. PICK p \in Jobs : p = posted + 1
  BY <1>1 DEF Jobs
<1>3. Posted(p) /\ ~(p <= posted)
  BY <1>1, <1>2 DEF QInv, AllPosted
<1> QED
  BY <1>2, <1>3 DEF Posted

LEMMA HeadWaits ==
  ASSUME QInv, NEW w \in Workers, Take(w)
  PROVE  \E j \in Jobs : j = Head(waiting) /\ job[j].state = "wait"
<1>1. waiting \in Seq(Jobs) /\ waiting # <<>> /\ Waits
  BY DEF Take, QInv, TypeOK
<1>2. 1 \in DOMAIN waiting /\ Head(waiting) = waiting[1] /\ waiting[1] \in Jobs
  BY <1>1
<1> QED
  BY <1>1, <1>2 DEF Waits

LEMMA TakeStep ==
  ASSUME QInv, NEW w \in Workers, Take(w)
  PROVE  QInv'
<1>1. PICK j \in Jobs : /\ waiting \in Seq(Jobs) /\ waiting # <<>> /\ j = Head(waiting)
                       /\ j = waiting[1] /\ 1 \in DOMAIN waiting
  BY DEF Take, QInv, TypeOK
<1> DEFINE new == [job[j] EXCEPT !.state = "active", !.lock = w]
           k == [job |-> j, step |-> "send"]
<1>2. /\ UNCHANGED <<posted, done, sent, faults>> /\ waiting' = Tail(waiting)
      /\ work' = [work EXCEPT ![w] = k] /\ work[w] = Idle
      /\ taken' = [taken EXCEPT ![j] = taken[j] + 1]
  BY <1>1 DEF Take, QInv, TypeOK
<1>3. job[j].state = "wait" /\ j <= posted /\ job[j].lock = NoWorker
  <2>1. job[j].state = "wait"
    BY <1>1 DEF QInv, Waits
  <2> QED
    BY <1>1, <2>1, WorkersAssumption DEF QInv, AllPosted, Posted, AllLocked, Locked
<1>4. /\ new \in Job /\ new.state = "active" /\ new.lock = w /\ new.name = job[j].name
      /\ new.made = job[j].made /\ new.stalls = job[j].stalls
  BY <1>1, JobType DEF QInv, Job
<1>5. job' = [job EXCEPT ![j] = new]
  BY <1>1 DEF Take, QInv, TypeOK
<1> HIDE DEF new
<1>6. job' \in [Jobs -> Job] /\ \A i \in Jobs : job'[i] = IF i = j THEN new ELSE job[i]
  BY <1>1, <1>4, <1>5 DEF QInv, TypeOK
<1>7. \A x \in Workers : work'[x] = IF x = w THEN k ELSE work[x]
  BY <1>2 DEF QInv, TypeOK
<1>8. /\ waiting' \in Seq(Jobs) /\ DOMAIN waiting' = 1..(Len(waiting) - 1)
      /\ \A p \in DOMAIN waiting' : waiting'[p] = waiting[p + 1] /\ p + 1 \in DOMAIN waiting
  BY <1>1, <1>2
<1>9. TypeOK'
  <2>1. taken' \in [Jobs -> Nat]
    <3>1. taken \in [Jobs -> Nat] /\ taken[j] + 1 \in Nat
      BY <1>1 DEF QInv, TypeOK
    <3> QED
      BY <1>2, <3>1
  <2>2. work' \in [Workers -> [job : 0..MaxJobs, step : {"idle", "send", "ok", "threw"}]]
    <3>1. j \in 0..MaxJobs
      BY <1>1, MaxJobsAssumption DEF Jobs
    <3> QED
      BY <1>2, <3>1 DEF QInv, TypeOK
  <2> QED
    BY <1>2, <1>6, <1>8, <2>1, <2>2 DEF QInv, TypeOK
<1>10. AllCounted'
  <2>1. \A i \in Jobs : i # j => taken'[i] = taken[i] /\ job'[i] = job[i]
    BY <1>2, <1>6 DEF QInv, TypeOK
  <2>2. taken'[j] = taken[j] + 1 /\ job'[j] = new
    BY <1>1, <1>2, <1>6 DEF QInv, TypeOK
  <2>3. Counted(j)'
    <3>1. /\ taken[j] = job[j].made + job[j].stalls
          /\ job[j].made < Attempts /\ job[j].stalls <= MaxStalls
          /\ taken[j] \in Nat /\ job[j].made \in Nat /\ job[j].stalls \in Nat
      BY <1>3, JobType DEF QInv, AllCounted, Counted, Tried
    <3>2. taken'[j] = job'[j].made + job'[j].stalls + 1 /\ job'[j].state \in Tried
      BY <1>4, <2>2, <3>1 DEF Tried
    <3> QED
      BY <1>4, <2>2, <3>1, <3>2 DEF Counted
  <2> QED
    BY <2>1, <2>3 DEF QInv, AllCounted, Counted
<1>11. AllPosted'
  BY <1>2, <1>3, <1>4, <1>6 DEF QInv, AllPosted, Posted
<1>12. AllLocked'
  <2> SUFFICES ASSUME NEW i \in Jobs, job'[i].lock # NoWorker
               PROVE  /\ job'[i].state = "active" /\ work'[job'[i].lock].job = i
                      /\ work'[job'[i].lock].step # "idle"
    BY DEF AllLocked, Locked
  <2>1. CASE i = j
    BY <1>4, <1>6, <1>7, <2>1
  <2>2. CASE i # j
    <3>1. job'[i] = job[i] /\ job[i].lock \in Workers
      BY <1>6, <2>2, JobType DEF QInv, Job
    <3>2. work[job[i].lock].step # "idle" /\ job[i].lock # w
      BY <1>2, <2>2, <3>1 DEF QInv, AllLocked, Locked, Idle
    <3> QED
      BY <1>7, <3>1, <3>2 DEF QInv, AllLocked, Locked
  <2> QED
    BY <2>1, <2>2
<1>13. AllWork'
  BY <1>1, <1>2, <1>3, <1>7 DEF QInv, AllWork, GoodWork
<1>14. AllMailed' /\ CompletedWasMailed'
  BY <1>2, <1>4, <1>6 DEF QInv, AllMailed, Mailed, CompletedWasMailed
<1>15. Waits' /\ Distinct'
  <2>1. \A p \in DOMAIN waiting' : waiting'[p] # j /\ waiting'[p] \in Jobs
    BY <1>1, <1>8 DEF QInv, Distinct
  <2> QED
    BY <1>1, <1>6, <1>8, <2>1 DEF QInv, Waits, Distinct
<1>16. Kept'
  BY <1>2, <1>3, <1>6, Listed DEF QInv, Kept
<1> QED
  BY <1>9, <1>10, <1>11, <1>12, <1>13, <1>14, <1>15, <1>16 DEF QInv

-----------------------------------------------------------------------------
(* The steps that give up the lock of one job, or move it to the wait list. *)

LEMMA PhaseOf ==
  ASSUME NEW k
  PROVE  /\ k.state = "delayed" => Phase(k) = 4
         /\ k.state = "wait" => Phase(k) = 3
         /\ k.state = "active" /\ k.lock # NoWorker => Phase(k) = 2
         /\ k.state = "active" /\ k.lock = NoWorker => Phase(k) = 1
         /\ k.state = "completed" => Phase(k) = 1
         /\ k.state \notin {"delayed", "wait", "active", "completed"} => Phase(k) = 0
  BY DEF Phase

CountedAs(j, k) ==
    /\ taken[j] = k.made + k.stalls + IF k.state \in Tried THEN 1 ELSE 0
    /\ k.state # "failed" => k.made < Attempts /\ k.stalls <= MaxStalls
    /\ k.state = "failed" => \/ k.made = Attempts /\ k.stalls <= MaxStalls
                             \/ k.made < Attempts /\ k.stalls = MaxStalls + 1

Released(j, new) ==
    /\ job[j].state \in {"active", "delayed"}
    /\ new \in Job
    /\ new.name = job[j].name
    /\ new.lock = NoWorker
    /\ new.state \in {"active", "wait", "delayed", "failed"}
    /\ CountedAs(j, new)
    /\ StepsLeft(new) < StepsLeft(job[j])
    /\ job' = [job EXCEPT ![j] = new]
    /\ UNCHANGED <<posted, done, taken, sent>>
    /\ faults' \in [Jobs -> Nat]
    /\ work' \in [Workers -> [job : 0..MaxJobs, step : {"idle", "send", "ok", "threw"}]]
    /\ \A x \in Workers :
         \/ work'[x] = work[x]
         \/ work'[x] = Idle /\ (work[x].job = j \/ ~Owns(x))
    /\ \/ new.state # "wait" /\ UNCHANGED waiting
       \/ new.state = "wait" /\ waiting' = Append(waiting, j)
       \/ new.state = "wait" /\ waiting' = <<j>> \o waiting

LEMMA ReleasedStep ==
  ASSUME QInv, NEW j \in Jobs, NEW new, Released(j, new)
  PROVE  QInv'
<1> USE DEF Released
<1>1. job' \in [Jobs -> Job] /\ \A i \in Jobs : job'[i] = IF i = j THEN new ELSE job[i]
  BY DEF QInv, TypeOK
<1>2. \A p \in DOMAIN waiting : waiting[p] \in Jobs /\ waiting[p] # j
  BY Listed DEF QInv, Waits
<1>3. /\ waiting' \in Seq(Jobs) /\ Waits' /\ Distinct'
  <2>1. waiting \in Seq(Jobs)
    BY DEF QInv, TypeOK
  <2>2. CASE UNCHANGED waiting
    BY <1>1, <1>2, <2>1, <2>2 DEF QInv, Waits, Distinct
  <2>3. CASE new.state = "wait" /\ waiting' = Append(waiting, j)
    BY <1>1, <1>2, <2>1, <2>3 DEF QInv, Waits, Distinct
  <2>4. CASE new.state = "wait" /\ waiting' = <<j>> \o waiting
    <3>1. /\ waiting' \in Seq(Jobs) /\ DOMAIN waiting' = 1..(Len(waiting) + 1)
          /\ \A p \in DOMAIN waiting' : \/ p = 1 /\ waiting'[p] = j
                                        \/ /\ p > 1 /\ p - 1 \in DOMAIN waiting
                                           /\ waiting'[p] = waiting[p - 1]
      BY <2>1, <2>4
    <3>2. Waits'
      BY <1>1, <1>2, <2>4, <3>1 DEF QInv, Waits
    <3>3. Distinct'
      <4> SUFFICES ASSUME NEW p \in DOMAIN waiting', NEW q \in DOMAIN waiting',
                          waiting'[p] = waiting'[q]
                   PROVE  p = q
        BY DEF Distinct
      <4>1. CASE p = 1 \/ q = 1
        BY <1>2, <3>1, <4>1
      <4>2. CASE p # 1 /\ q # 1
        <5>1. /\ p - 1 \in DOMAIN waiting /\ q - 1 \in DOMAIN waiting
              /\ waiting[p - 1] = waiting[q - 1]
          BY <3>1, <4>2
        <5>2. p - 1 = q - 1
          BY <5>1 DEF QInv, Distinct
        <5> QED
          BY <2>1, <3>1, <5>2
      <4> QED
        BY <4>1, <4>2
    <3> QED
      BY <3>1, <3>2, <3>3
  <2> QED
    BY <2>2, <2>3, <2>4
<1>4. TypeOK'
  BY <1>1, <1>3 DEF QInv, TypeOK
<1>5. AllCounted'
  BY <1>1 DEF QInv, AllCounted, Counted, CountedAs
<1>6. AllPosted'
  BY <1>1 DEF QInv, AllPosted, Posted
<1>7. AllLocked'
  <2> SUFFICES ASSUME NEW i \in Jobs, job'[i].lock # NoWorker
               PROVE  /\ job'[i].state = "active" /\ work'[job'[i].lock].job = i
                      /\ work'[job'[i].lock].step # "idle"
    BY DEF AllLocked, Locked
  <2>1. i # j /\ job'[i] = job[i] /\ job[i].lock \in Workers
    BY <1>1, JobType DEF QInv, Job
  <2>2. /\ job[i].state = "active" /\ work[job[i].lock].job = i
        /\ work[job[i].lock].step # "idle"
    BY <2>1 DEF QInv, AllLocked, Locked
  <2>3. Owns(job[i].lock)
    BY <2>1, <2>2 DEF Owns, Idle
  <2> QED
    BY <2>1, <2>2, <2>3
<1>8. AllWork'
  BY DEF QInv, AllWork, GoodWork, Idle
<1>9. AllMailed' /\ CompletedWasMailed'
  BY <1>1 DEF QInv, AllMailed, Mailed, CompletedWasMailed
<1>10. Kept'
  BY <1>1, Listed DEF QInv, Kept
<1> QED
  BY <1>3, <1>4, <1>5, <1>6, <1>7, <1>8, <1>9, <1>10 DEF QInv

LEMMA RetryReleases ==
  ASSUME QInv, NEW w \in Workers, Retry(w), Owns(w)
  PROVE  \E j \in Jobs, new \in Job : Released(j, new) /\ work[w].job = j
<1>1. PICK j \in Jobs : j = work[w].job /\ job[j].state = "active"
  BY Owned
<1> DEFINE st == IF job[j].made + 1 < Attempts THEN "delayed" ELSE "failed"
           new == [job[j] EXCEPT !.made = job[j].made + 1, !.lock = NoWorker,
                                 !.state = st]
<1>2. /\ taken[j] = job[j].made + job[j].stalls + 1 /\ job[j].made < Attempts
      /\ job[j].stalls <= MaxStalls /\ job[j].made \in Nat /\ job[j].stalls \in Nat
      /\ taken[j] \in Nat
  BY <1>1, JobType DEF QInv, AllCounted, Counted, Tried
<1>3. /\ new \in Job /\ new.name = job[j].name /\ new.lock = NoWorker
      /\ new.made = job[j].made + 1 /\ new.stalls = job[j].stalls
      /\ new.state = st
  <2>1. job[j].made + 1 \in 0..Attempts /\ st \in {"delayed", "failed"}
    BY <1>2, AttemptsAssumption
  <2> HIDE DEF st
  <2> QED
    BY <2>1, JobType DEF QInv, Job
<1>4. job' = [job EXCEPT ![j] = new]
  <2>1. new = Attempted(job[j])
    BY DEF Attempted
  <2> HIDE DEF new
  <2> QED
    BY <1>1, <2>1 DEF Retry
<1> HIDE DEF new
<1>5. CountedAs(j, new) /\ StepsLeft(new) < StepsLeft(job[j])
  <2>1. CountedAs(j, new)
    BY <1>2, <1>3, AttemptsAssumption DEF CountedAs, Tried
  <2>2. Phase(job[j]) \in {1, 2} /\ Phase(new) \in {0, 4}
    BY <1>1, <1>3, PhaseOf
  <2>3. StepsLeft(new) < StepsLeft(job[j])
    BY <1>2, <1>3, <2>2, AttemptsAssumption, MaxStallsAssumption DEF StepsLeft
  <2> QED
    BY <2>1, <2>3
<1>6. /\ UNCHANGED <<posted, done, taken, sent, waiting>> /\ faults' \in [Jobs -> Nat]
      /\ work' = [work EXCEPT ![w] = Idle]
  BY DEF Retry, Leave, history, QInv, TypeOK
<1>7. work' \in [Workers -> [job : 0..MaxJobs, step : {"idle", "send", "ok", "threw"}]]
  BY <1>6, MaxJobsAssumption DEF QInv, TypeOK, Idle
<1>8. \A x \in Workers : \/ work'[x] = work[x]
                         \/ work'[x] = Idle /\ (work[x].job = j \/ ~Owns(x))
  BY <1>1, <1>6 DEF QInv, TypeOK
<1> QED
  BY <1>1, <1>3, <1>4, <1>5, <1>6, <1>7, <1>8 DEF Released

LEMMA UnlockReleases ==
  ASSUME QInv, NEW w \in Workers, Owns(w), LoseLock(w) \/ Crash(w)
  PROVE  \E j \in Jobs, new \in Job : Released(j, new) /\ work[w].job = j
<1>1. PICK j \in Jobs : j = work[w].job /\ job[j].state = "active"
  BY Owned
<1> DEFINE new == [job[j] EXCEPT !.lock = NoWorker]
<1>2. /\ new \in Job /\ new.name = job[j].name /\ new.lock = NoWorker
      /\ new.made = job[j].made /\ new.stalls = job[j].stalls /\ new.state = "active"
  BY <1>1, JobType DEF QInv, Job
<1>3. job' = [job EXCEPT ![j] = new]
  BY <1>1 DEF LoseLock, Crash, QInv, TypeOK
<1> HIDE DEF new
<1>4. CountedAs(j, new) /\ StepsLeft(new) < StepsLeft(job[j])
  <2>1. CountedAs(j, new)
    BY <1>1, <1>2 DEF CountedAs, QInv, AllCounted, Counted, Tried
  <2>2. Phase(job[j]) = 2 /\ Phase(new) = 1
    BY <1>1, <1>2, PhaseOf, WorkersAssumption DEF Owns
  <2>3. StepsLeft(new) < StepsLeft(job[j])
    BY <1>2, <2>2, JobType, AttemptsAssumption, MaxStallsAssumption DEF StepsLeft, QInv
  <2> QED
    BY <2>1, <2>3
<1>5. /\ UNCHANGED <<posted, done, taken, sent, waiting>> /\ faults' \in [Jobs -> Nat]
      /\ UNCHANGED work \/ work' = [work EXCEPT ![w] = Idle]
  <2>1. /\ UNCHANGED <<posted, done, taken, sent, waiting>>
        /\ faults' = [faults EXCEPT ![j] = faults[j] + 1]
        /\ UNCHANGED work \/ work' = [work EXCEPT ![w] = Idle]
    BY <1>1 DEF LoseLock, Crash, Leave, Fault
  <2>2. faults \in [Jobs -> Nat]
    BY DEF QInv, TypeOK
  <2> QED
    BY <2>1, <2>2
<1>6. work' \in [Workers -> [job : 0..MaxJobs, step : {"idle", "send", "ok", "threw"}]]
  <2>1. Idle \in [job : 0..MaxJobs, step : {"idle", "send", "ok", "threw"}]
    BY MaxJobsAssumption DEF Idle
  <2> QED
    BY <1>5, <2>1 DEF QInv, TypeOK
<1>7. \A x \in Workers : \/ work'[x] = work[x]
                         \/ work'[x] = Idle /\ (work[x].job = j \/ ~Owns(x))
  BY <1>1, <1>5 DEF QInv, TypeOK
<1> QED
  BY <1>1, <1>2, <1>3, <1>4, <1>5, <1>6, <1>7 DEF Released

LEMMA PromoteReleases ==
  ASSUME QInv, NEW j \in Jobs, Promote(j)
  PROVE  \E new \in Job : Released(j, new)
<1> DEFINE new == [job[j] EXCEPT !.state = "wait"]
<1>1. job[j].state = "delayed" /\ job[j].lock = NoWorker
  BY DEF Promote, QInv, AllLocked, Locked
<1>2. /\ new \in Job /\ new.name = job[j].name /\ new.lock = NoWorker
      /\ new.made = job[j].made /\ new.stalls = job[j].stalls /\ new.state = "wait"
  BY <1>1, JobType DEF QInv, Job
<1>3. job' = [job EXCEPT ![j] = new]
  BY DEF Promote, QInv, TypeOK
<1> HIDE DEF new
<1>4. CountedAs(j, new) /\ StepsLeft(new) < StepsLeft(job[j])
  <2>1. CountedAs(j, new)
    BY <1>1, <1>2 DEF CountedAs, QInv, AllCounted, Counted, Tried
  <2>2. Phase(job[j]) = 4 /\ Phase(new) = 3
    BY <1>1, <1>2, PhaseOf
  <2>3. StepsLeft(new) < StepsLeft(job[j])
    BY <1>2, <2>2, JobType, AttemptsAssumption, MaxStallsAssumption DEF StepsLeft, QInv
  <2> QED
    BY <2>1, <2>3
<1>5. /\ UNCHANGED <<posted, done, taken, sent, work>> /\ faults' \in [Jobs -> Nat]
      /\ waiting' = Append(waiting, j)
  BY DEF Promote, history, QInv, TypeOK
<1> QED
  BY <1>1, <1>2, <1>3, <1>4, <1>5 DEF Released, QInv, TypeOK

LEMMA RecoverReleases ==
  ASSUME QInv, NEW j \in Jobs, Recover(j)
  PROVE  \E new \in Job : Released(j, new)
<1> DEFINE st == IF job[j].stalls < MaxStalls THEN "wait" ELSE "failed"
           new == [job[j] EXCEPT !.state = st, !.stalls = job[j].stalls + 1]
<1>1. job[j].state = "active" /\ job[j].lock = NoWorker
  BY DEF Recover
<1>2. /\ taken[j] = job[j].made + job[j].stalls + 1 /\ job[j].made < Attempts
      /\ job[j].stalls <= MaxStalls /\ job[j].made \in Nat /\ job[j].stalls \in Nat
      /\ taken[j] \in Nat
  BY <1>1, JobType DEF QInv, AllCounted, Counted, Tried
<1>3. /\ new \in Job /\ new.name = job[j].name /\ new.lock = NoWorker
      /\ new.made = job[j].made /\ new.stalls = job[j].stalls + 1 /\ new.state = st
  <2>1. job[j].stalls + 1 \in 0..MaxStalls + 1 /\ st \in {"wait", "failed"}
    BY <1>2, MaxStallsAssumption
  <2> HIDE DEF st
  <2> QED
    BY <1>1, <2>1, JobType DEF QInv, Job
<1>4. job' = [job EXCEPT ![j] = new]
  BY DEF Recover, QInv, TypeOK
<1> HIDE DEF new
<1>5. CountedAs(j, new) /\ StepsLeft(new) < StepsLeft(job[j])
  <2>1. CountedAs(j, new)
    BY <1>2, <1>3, MaxStallsAssumption, AttemptsAssumption DEF CountedAs, Tried
  <2>2. Phase(job[j]) = 1 /\ Phase(new) \in {0, 3}
    BY <1>1, <1>3, PhaseOf
  <2>3. StepsLeft(new) < StepsLeft(job[j])
    BY <1>2, <1>3, <2>2, AttemptsAssumption, MaxStallsAssumption DEF StepsLeft
  <2> QED
    BY <2>1, <2>3
<1>6. /\ UNCHANGED <<posted, done, taken, sent, work>> /\ faults' \in [Jobs -> Nat]
      /\ \/ st # "wait" /\ UNCHANGED waiting
         \/ st = "wait" /\ waiting' = <<j>> \o waiting
  BY DEF Recover, history, QInv, TypeOK
<1> QED
  BY <1>1, <1>3, <1>4, <1>5, <1>6 DEF Released, QInv, TypeOK

-----------------------------------------------------------------------------
(* The worker's own steps.                                                  *)

\* A worker without its job's lock goes idle, and nothing else changes.
LEMMA LeaveStep ==
  ASSUME QInv, NEW w \in Workers, ~Owns(w), work' = [work EXCEPT ![w] = Idle],
         UNCHANGED <<queue, history>>
  PROVE  QInv'
<1>1. \A x \in Workers : work'[x] = IF x = w THEN Idle ELSE work[x]
  BY DEF QInv, TypeOK
<1>2. TypeOK'
  BY MaxJobsAssumption DEF QInv, TypeOK, queue, history, Idle
<1>3. /\ AllCounted' /\ AllPosted' /\ AllMailed' /\ CompletedWasMailed'
      /\ Waits' /\ Distinct' /\ Kept'
  BY DEF QInv, queue, history, AllCounted, Counted, AllPosted, Posted, AllMailed, Mailed,
         CompletedWasMailed, Waits, Distinct, Kept
<1>4. AllWork'
  BY <1>1 DEF QInv, AllWork, GoodWork, queue, history, Idle
<1>5. AllLocked'
  <2> SUFFICES ASSUME NEW i \in Jobs, job[i].lock # NoWorker
               PROVE  /\ job[i].state = "active" /\ work'[job[i].lock].job = i
                      /\ work'[job[i].lock].step # "idle"
    BY DEF AllLocked, Locked, queue
  <2>1. job[i].lock \in Workers
    BY JobType DEF QInv, Job
  <2>2. /\ job[i].state = "active" /\ work[job[i].lock].job = i
        /\ work[job[i].lock].step # "idle"
    BY DEF QInv, AllLocked, Locked
  <2>3. Owns(job[i].lock)
    BY <2>2 DEF Owns, Idle
  <2> QED
    BY <1>1, <2>1, <2>2, <2>3
<1> QED
  BY <1>2, <1>3, <1>4, <1>5 DEF QInv

LEMMA ProcessStep ==
  ASSUME QInv, NEW w \in Workers, Process(w)
  PROVE  QInv'
<1>1. PICK j \in Jobs : j = work[w].job /\ j <= posted /\ work[w].step = "send"
  BY DEF Process, QInv, AllWork, GoodWork
<1>2. /\ UNCHANGED <<posted, job, waiting, done, taken>> /\ job[j].name \in JobName \cup {Unknown}
      /\ sent' = sent \/ (sent' = [sent EXCEPT ![j] = sent[j] + 1] /\ job[j].name # Unknown)
      /\ faults' = faults \/ faults' = [faults EXCEPT ![j] = faults[j] + 1]
  BY <1>1, JobType DEF Process, Accepted, Fault, queue, QInv, Job
<1>3. PICK st \in {"ok", "threw"} :
        /\ work' = [work EXCEPT ![w].step = st]
        /\ st = "ok" => sent' = [sent EXCEPT ![j] = sent[j] + 1]
  BY <1>1 DEF Process, Accepted, Goto
<1>4. sent' \in [Jobs -> Nat] /\ \A i \in Jobs : /\ sent'[i] >= sent[i]
                                                 /\ sent[i] \in Nat /\ sent'[i] \in Nat
                                                 /\ sent'[i] # sent[i] =>
                                                      i = j /\ job[j].name # Unknown
  <2>1. sent \in [Jobs -> Nat]
    BY DEF QInv, TypeOK
  <2>2. CASE sent' = sent
    BY <2>1, <2>2
  <2>3. CASE sent' = [sent EXCEPT ![j] = sent[j] + 1] /\ job[j].name # Unknown
    <3>1. \A i \in Jobs : sent'[i] = IF i = j THEN sent[i] + 1 ELSE sent[i]
      BY <2>1, <2>3
    <3> QED
      BY <2>1, <2>3, <3>1
  <2> QED
    BY <1>2, <2>2, <2>3
<1>5. /\ work' \in [Workers -> [job : 0..MaxJobs, step : {"idle", "send", "ok", "threw"}]]
      /\ \A x \in Workers : /\ work'[x].job = work[x].job
                            /\ x # w => work'[x] = work[x]
                            /\ x = w => work'[x].step = st
  <2> DEFINE Place == [job : 0..MaxJobs, step : {"idle", "send", "ok", "threw"}]
  <2>1. work \in [Workers -> Place]
    BY DEF QInv, TypeOK
  <2>2. [work[w] EXCEPT !.step = st] \in Place
    BY <1>3, <2>1
  <2>3. \A x \in Workers : work'[x] = IF x = w THEN [work[w] EXCEPT !.step = st] ELSE work[x]
    BY <1>3, <2>1
  <2>4. [work[w] EXCEPT !.step = st].job = work[w].job /\ [work[w] EXCEPT !.step = st].step = st
    BY <2>1
  <2>5. work' \in [Workers -> Place]
    BY <1>3, <2>1, <2>2
  <2> QED
    BY <2>3, <2>4, <2>5
<1>6. faults' \in [Jobs -> Nat]
  <2>1. faults \in [Jobs -> Nat]
    BY DEF QInv, TypeOK
  <2> QED
    BY <1>2, <2>1
<1>7. TypeOK'
  BY <1>2, <1>4, <1>5, <1>6 DEF QInv, TypeOK
<1>8. AllCounted' /\ AllPosted' /\ Waits' /\ Distinct' /\ Kept'
  BY <1>2 DEF QInv, AllCounted, Counted, AllPosted, Posted, Waits, Distinct, Kept
<1>9. AllLocked'
  <2> SUFFICES ASSUME NEW i \in Jobs, job[i].lock # NoWorker
               PROVE  /\ job[i].state = "active" /\ work'[job[i].lock].job = i
                      /\ work'[job[i].lock].step # "idle"
    BY <1>2 DEF AllLocked, Locked
  <2>1. job[i].lock \in Workers
    BY JobType DEF QInv, Job
  <2> QED
    BY <1>5, <2>1 DEF QInv, AllLocked, Locked
<1>10. AllWork'
  <2> SUFFICES ASSUME NEW x \in Workers
               PROVE  GoodWork(x)'
    BY DEF AllWork
  <2>1. CASE x = w
    <3>1. st = "ok" => sent'[j] > 0
      BY <1>3, <1>4 DEF QInv, TypeOK
    <3> QED
      BY <1>1, <1>2, <1>5, <2>1, <3>1 DEF GoodWork
  <2>2. CASE x # w
    <3>1. work[x].step # "idle" => work[x].job \in Jobs
      BY DEF QInv, AllWork, GoodWork
    <3>2. work[x].step = "ok" => sent'[work[x].job] > 0
      BY <1>4, <3>1 DEF QInv, AllWork, GoodWork
    <3> QED
      BY <1>2, <1>5, <2>2, <3>2 DEF QInv, AllWork, GoodWork
  <2> QED
    BY <2>1, <2>2
<1>11. AllMailed'
  BY <1>1, <1>2, <1>4 DEF QInv, AllMailed, Mailed
<1>12. CompletedWasMailed'
  BY <1>2, <1>4 DEF QInv, CompletedWasMailed
<1> QED
  BY <1>7, <1>8, <1>9, <1>10, <1>11, <1>12 DEF QInv

LEMMA EndedJob ==
  ASSUME NEW k \in Job, NEW st \in {"completed", "removed"}
  PROVE  LET e == Ended(k, st) IN
         /\ e \in Job /\ e.state = st /\ e.lock = NoWorker
         /\ e.name = k.name /\ e.made = k.made /\ e.stalls = k.stalls
  BY DEF Job, Ended

\* Of the jobs, completing one changes that one and perhaps the oldest kept.
LEMMA CompletedJobs ==
  ASSUME QInv, NEW w \in Workers, Complete(w), Owns(w)
  PROVE  \A i \in Jobs :
           \/ job'[i] = job[i] /\ i # work[w].job
           \/ /\ i = work[w].job \/ job[i].state = "completed"
              /\ job'[i].state \in {"completed", "removed"}
<1>1. work[w].job \in Jobs
  BY Owned
<1>2. PICK kept : kept = Append(done, work[w].job)
  OBVIOUS
<1>3. PICK h : h = Head(kept)
  OBVIOUS
<1> DEFINE over == Len(kept) > KeepCompleted
<1>4. job' = [i \in Jobs |-> IF over /\ i = h THEN Ended(job[i], "removed")
                             ELSE IF i = work[w].job THEN Ended(job[i], "completed")
                             ELSE job[i]]
  BY <1>2, <1>3 DEF Complete
<1> HIDE DEF over
<1>5. done \in Seq(Jobs)
  BY DEF QInv, TypeOK
<1>6. h = work[w].job \/ (h = done[1] /\ 1 \in DOMAIN done)
  BY <1>1, <1>2, <1>3, <1>5
<1>7. h = work[w].job \/ job[h].state = "completed"
  BY <1>6 DEF QInv, Kept
<1> TAKE i \in Jobs
<1>8. job[i] \in Job
  BY JobType DEF QInv
<1>9. CASE over /\ i = h
  BY <1>4, <1>7, <1>8, <1>9, EndedJob
<1>10. CASE ~(over /\ i = h) /\ i = work[w].job
  BY <1>4, <1>8, <1>10, EndedJob
<1>11. CASE ~(over /\ i = h) /\ i # work[w].job
  BY <1>4, <1>11
<1> QED
  BY <1>9, <1>10, <1>11

\* Completing counts no attempt and no stall; a job completed before is removed.
LEMMA CompletedCounts ==
  ASSUME QInv, NEW w \in Workers, Complete(w), Owns(w), NEW i \in Jobs, job'[i] # job[i]
  PROVE  /\ job'[i].made = job[i].made /\ job'[i].stalls = job[i].stalls
         /\ \/ i = work[w].job /\ job'[i].state \in {"completed", "removed"}
            \/ job[i].state = "completed" /\ job'[i].state = "removed"
<1>1. PICK kept : kept = Append(done, work[w].job)
  OBVIOUS
<1>2. PICK h : h = Head(kept)
  OBVIOUS
<1> DEFINE over == Len(kept) > KeepCompleted
<1>3. job'[i] = IF over /\ i = h THEN Ended(job[i], "removed")
                ELSE IF i = work[w].job THEN Ended(job[i], "completed")
                ELSE job[i]
  BY <1>1, <1>2 DEF Complete
<1> HIDE DEF over
<1>4. job[i] \in Job
  BY JobType DEF QInv
<1>5. i = work[w].job \/ job[i].state = "completed"
  BY CompletedJobs
<1>6. CASE job'[i] = Ended(job[i], "removed")
  BY <1>4, <1>5, <1>6, EndedJob
<1>7. CASE i = work[w].job /\ job'[i] = Ended(job[i], "completed")
  BY <1>4, <1>7, EndedJob
<1> QED
  BY <1>3, <1>6, <1>7

\* An owned job is completed; of the kept ones the oldest may go.
LEMMA CompleteStep ==
  ASSUME QInv, NEW w \in Workers, Complete(w), Owns(w)
  PROVE  QInv'
<1>1. PICK j \in Jobs : /\ j = work[w].job /\ j <= posted /\ job[j].state = "active"
                       /\ work[w].step = "ok" /\ sent[j] > 0
  BY Owned DEF Complete, QInv, AllWork, GoodWork
<1>2. /\ UNCHANGED <<posted, waiting, sent, taken, faults>>
      /\ work' = [work EXCEPT ![w] = Idle]
  BY DEF Complete, Leave, history
<1>a. PICK kept : kept = Append(done, j)
  OBVIOUS
<1>b. PICK h : h = Head(kept)
  OBVIOUS
<1> DEFINE over == Len(kept) > KeepCompleted
<1>3. /\ done' = IF over THEN Tail(kept) ELSE kept
      /\ job' = [i \in Jobs |-> IF over /\ i = h THEN Ended(job[i], "removed")
                                ELSE IF i = j THEN Ended(job[i], "completed")
                                ELSE job[i]]
  BY <1>1, <1>a, <1>b DEF Complete
<1> HIDE DEF over
<1>4. done \in Seq(Jobs) /\ Len(done) \in Nat
  BY DEF QInv, TypeOK
<1>5. /\ kept \in Seq(Jobs) /\ kept # <<>> /\ DOMAIN kept = 1..(Len(done) + 1)
      /\ Len(kept) = Len(done) + 1 /\ h = kept[1]
      /\ \A p \in DOMAIN kept : \/ p = Len(done) + 1 /\ kept[p] = j
                                \/ p \in DOMAIN done /\ kept[p] = done[p]
  BY <1>a, <1>b, <1>4
<1>6. /\ \A p, q \in DOMAIN kept : kept[p] = kept[q] => p = q
      /\ \A p \in DOMAIN kept : /\ kept[p] \in Jobs
                                /\ kept[p] = j \/ job[kept[p]].state = "completed"
  BY <1>1, <1>4, <1>5, Listed DEF QInv, Kept
<1>7. h \in Jobs /\ (h = j \/ job[h].state = "completed")
  BY <1>4, <1>5, <1>6
<1>8. \A i \in Jobs :
        /\ job'[i] \in Job /\ job'[i].name = job[i].name
        /\ job'[i].made = job[i].made /\ job'[i].stalls = job[i].stalls
        /\ \/ job'[i] = job[i] /\ i # j /\ ~(over /\ i = h)
           \/ /\ job[i].state \in {"active", "completed"} /\ job'[i].lock = NoWorker
              /\ i = j \/ i = h
              /\ job'[i].state = IF over /\ i = h THEN "removed" ELSE "completed"
  <2> TAKE i \in Jobs
  <2>1. job[i] \in Job
    BY JobType DEF QInv
  <2>2. CASE over /\ i = h
    <3>1. job'[i] = Ended(job[i], "removed")
      BY <1>3, <2>2
    <3> QED
      BY <1>1, <1>7, <2>1, <2>2, <3>1, EndedJob
  <2>3. CASE ~(over /\ i = h) /\ i = j
    <3>1. job'[i] = Ended(job[i], "completed")
      BY <1>3, <2>3
    <3> QED
      BY <1>1, <2>1, <2>3, <3>1, EndedJob
  <2>4. CASE ~(over /\ i = h) /\ i # j
    <3>1. job'[i] = job[i]
      BY <1>3, <2>4
    <3> QED
      BY <2>1, <2>4, <3>1
  <2> QED
    BY <2>2, <2>3, <2>4
<1>9. done' \in Seq(Jobs) /\ Kept'
  <2>1. CASE ~over
    <3>1. done' = kept
      BY <1>3, <2>1
    <3>2. \A i \in Jobs : i = j \/ job[i].state = "completed" => job'[i].state = "completed"
      BY <1>8, <2>1
    <3> QED
      BY <1>5, <1>6, <3>1, <3>2 DEF Kept
  <2>2. CASE over
    <3>1. done' = Tail(kept)
      BY <1>3, <2>2
    <3>2. /\ DOMAIN done' = 1..Len(done) /\ done' \in Seq(Jobs)
          /\ \A p \in DOMAIN done' : /\ done'[p] = kept[p + 1] /\ p \in Nat \ {0}
                                     /\ p + 1 \in DOMAIN kept
      BY <1>4, <1>5, <3>1
    <3>3. \A p \in DOMAIN done' : done'[p] # h
      BY <1>4, <1>5, <1>6, <3>2
    <3>4. \A i \in Jobs : i # h /\ (i = j \/ job[i].state = "completed")
                            => job'[i].state = "completed"
      BY <1>8
    <3>5. \A p, q \in DOMAIN done' : done'[p] = done'[q] => p = q
      <4> TAKE p, q \in DOMAIN done'
      <4> HAVE done'[p] = done'[q]
      <4>1. p + 1 = q + 1
        BY <1>6, <3>2
      <4> QED
        BY <3>2, <4>1
    <3>6. \A p \in DOMAIN done' : job'[done'[p]].state = "completed"
      BY <1>6, <3>2, <3>3, <3>4
    <3> QED
      BY <3>2, <3>5, <3>6 DEF Kept
  <2> QED
    BY <2>1, <2>2
<1>10. /\ work' \in [Workers -> [job : 0..MaxJobs, step : {"idle", "send", "ok", "threw"}]]
       /\ \A x \in Workers : work'[x] = IF x = w THEN Idle ELSE work[x]
  <2>1. Idle \in [job : 0..MaxJobs, step : {"idle", "send", "ok", "threw"}]
    BY MaxJobsAssumption DEF Idle
  <2> QED
    BY <1>2, <2>1 DEF QInv, TypeOK
<1>11. TypeOK'
  <2>1. job' \in [Jobs -> Job]
    BY <1>3, <1>8
  <2> QED
    BY <1>2, <1>9, <1>10, <2>1 DEF QInv, TypeOK
<1>12. AllCounted'
  <2> SUFFICES ASSUME NEW i \in Jobs
               PROVE  Counted(i)'
    BY DEF AllCounted
  <2>1. Counted(i) /\ taken'[i] = taken[i]
    BY <1>2 DEF QInv, AllCounted
  <2>2. CASE job'[i] = job[i]
    BY <2>1, <2>2 DEF Counted
  <2>3. CASE job'[i] # job[i]
    <3>1. /\ job'[i].made = job[i].made /\ job'[i].stalls = job[i].stalls
          /\ job[i].state \in {"active", "completed"}
          /\ job'[i].state \in {"completed", "removed"}
      BY <1>8, <2>3
    <3> QED
      BY <2>1, <3>1 DEF Counted, Tried
  <2> QED
    BY <2>2, <2>3
<1>13. AllPosted' /\ AllMailed'
  <2> SUFFICES ASSUME NEW i \in Jobs
               PROVE  Posted(i)' /\ Mailed(i)'
    BY DEF AllPosted, AllMailed
  <2>1. Posted(i) /\ Mailed(i) /\ sent'[i] = sent[i] /\ posted' = posted
    BY <1>2 DEF QInv, AllPosted, AllMailed
  <2>2. job'[i].name = job[i].name /\ (job[i].state = "none") = (job'[i].state = "none")
    BY <1>8
  <2> QED
    BY <2>1, <2>2 DEF Posted, Mailed
<1>14. AllLocked'
  <2> SUFFICES ASSUME NEW i \in Jobs, job'[i].lock # NoWorker
               PROVE  /\ job'[i].state = "active" /\ work'[job'[i].lock].job = i
                      /\ work'[job'[i].lock].step # "idle"
    BY DEF AllLocked, Locked
  <2>1. i # j /\ job'[i] = job[i]
    BY <1>8
  <2>2. job[i].lock \in Workers
    BY <2>1, JobType DEF QInv, Job
  <2>3. job[i].state = "active" /\ work[job[i].lock].job = i /\ work[job[i].lock].step # "idle"
    BY <2>1 DEF QInv, AllLocked, Locked
  <2> QED
    BY <1>1, <1>10, <2>1, <2>2, <2>3
<1>15. AllWork'
  BY <1>2, <1>10 DEF QInv, AllWork, GoodWork, Idle
<1>16. CompletedWasMailed'
  <2> SUFFICES ASSUME NEW i \in Jobs, job'[i].state \in {"completed", "removed"}
               PROVE  sent[i] > 0
    BY <1>2 DEF CompletedWasMailed
  <2>1. i = j \/ job[i].state \in {"completed", "removed"}
    BY <1>7, <1>8
  <2> QED
    BY <1>1, <2>1 DEF QInv, CompletedWasMailed
<1>17. Waits' /\ Distinct'
  <2>1. waiting' = waiting
    BY <1>2
  <2>2. \A i \in Jobs : job[i].state = "wait" => job'[i].state = "wait"
    BY <1>8
  <2>3. \A p \in DOMAIN waiting : waiting[p] \in Jobs
    BY Listed DEF QInv
  <2> QED
    BY <2>1, <2>2, <2>3 DEF QInv, Waits, Distinct
<1> QED
  BY <1>9, <1>11, <1>12, <1>13, <1>14, <1>15, <1>16, <1>17 DEF QInv

LEMMA QInvInit == Init => QInv
  BY MaxJobsAssumption, AttemptsAssumption, MaxStallsAssumption
  DEF Init, QInv, TypeOK, Jobs, Job, Absent, Unknown, Idle, AllCounted, Counted, Tried,
      AllPosted, Posted, AllLocked, Locked, AllWork, GoodWork, AllMailed, Mailed,
      Waits, Distinct, Kept, CompletedWasMailed

LEMMA QInvStep == QInv /\ [Next]_vars => QInv'
<1> SUFFICES ASSUME QInv, [Next]_vars
             PROVE  QInv'
  OBVIOUS
<1>1. CASE UNCHANGED vars
  BY <1>1 DEF vars, queue, history, QInv, TypeOK, AllCounted, Counted, AllPosted, Posted,
     AllLocked, Locked, AllWork, GoodWork, AllMailed, Mailed, Waits, Distinct, Kept,
     CompletedWasMailed
<1>2. ASSUME NEW w \in Workers, Complete(w) \/ Retry(w) \/ Crash(w), ~Owns(w)
      PROVE  QInv'
  <2>1. work' = [work EXCEPT ![w] = Idle] /\ UNCHANGED <<queue, history>>
    BY <1>2 DEF Complete, Retry, Crash, Leave, queue, history
  <2> QED
    BY <1>2, <2>1, LeaveStep
<1>3. ASSUME NEW w \in Workers, Retry(w) \/ Crash(w) \/ LoseLock(w), Owns(w)
      PROVE  QInv'
  <2>1. PICK j \in Jobs, new \in Job : Released(j, new)
    BY <1>3, RetryReleases, UnlockReleases
  <2> QED
    BY <2>1, ReleasedStep
<1>4. ASSUME NEW j \in Jobs, Promote(j) \/ Recover(j)
      PROVE  QInv'
  <2>1. PICK new \in Job : Released(j, new)
    BY <1>4, PromoteReleases, RecoverReleases
  <2> QED
    BY <2>1, ReleasedStep
<1>5. ASSUME NEW w \in Workers, LoseLock(w)
      PROVE  Owns(w)
  BY <1>5 DEF LoseLock
<1> QED
  BY <1>1, <1>2, <1>3, <1>4, <1>5, AddStep, TakeStep, ProcessStep, CompleteStep DEF Next

-----------------------------------------------------------------------------
(* The theorems that follow from QInv.                                      *)

LEMMA QInvAlways == Spec => []QInv
<1>1. QInv /\ [Next]_vars => QInv'
  BY QInvStep
<1> QED
  BY <1>1, QInvInit, PTL DEF Spec

\* Every variable keeps its type, whatever the workers, the provider and the
\* timers of the queue do.
THEOREM TypeCorrect == Spec => []TypeOK
<1>1. QInv => TypeOK
  BY DEF QInv
<1> QED
  BY <1>1, QInvAlways, PTL

\* A completed job's mail was accepted by the provider, though crashes, lost
\* locks and second workers separate the call from the report.
THEOREM CompletedMail == Spec => []CompletedWasMailed
<1>1. QInv => CompletedWasMailed
  BY DEF QInv
<1> QED
  BY <1>1, QInvAlways, PTL

\* A job is started at most Attempts + MaxStalls times, and fails only after
\* all its attempts or one stall too many.
THEOREM BoundedTries == Spec => []TriesAreBounded
<1>1. QInv => TriesAreBounded
  <2> SUFFICES ASSUME QInv, NEW j \in Jobs
               PROVE  /\ taken[j] <= Attempts + MaxStalls
                      /\ job[j].state = "failed" =>
                            taken[j] >= Attempts \/ job[j].stalls > MaxStalls
    BY DEF TriesAreBounded
  <2>1. Counted(j) /\ job[j].made \in Nat /\ job[j].stalls \in Nat /\ taken[j] \in Nat
    BY JobType DEF QInv, AllCounted
  <2>2. CASE job[j].state = "failed"
    BY <2>1, <2>2, AttemptsAssumption, MaxStallsAssumption DEF Counted, Tried
  <2>3. CASE job[j].state = "none"
    BY <2>1, <2>3, AttemptsAssumption, MaxStallsAssumption DEF Counted, Tried
  <2>4. CASE job[j].state \notin {"none", "failed"}
    BY <2>1, <2>4, AttemptsAssumption, MaxStallsAssumption DEF Counted
  <2> QED
    BY <2>2, <2>3, <2>4
<1> QED
  BY <1>1, QInvAlways, PTL

\* No template of the five mails is rendered with a blank: method, handler and
\* template, three files, name the same data.
LEMMA FilledTemplates ==
  \A name \in JobName : Placeholders(name) \subseteq Rendered(name)
BY DEF JobName, Placeholders, Rendered, JobData, Context

-----------------------------------------------------------------------------
(* EmailQueue implements Outbox.                                            *)

LEMMA OutcomeOf ==
  ASSUME NEW k
  PROVE  /\ k.state \in {"completed", "removed"} => Outcome(k) = "confirmed"
         /\ k.state = "failed" => Outcome(k) = "given up"
         /\ k.state \notin {"completed", "removed", "failed"} => Outcome(k) = "open"
  BY DEF Outcome

LEMMA OutboxInit == Init => O!Init
<1> SUFFICES ASSUME Init
             PROVE  O!Init
  OBVIOUS
<1>1. 1..posted = {} /\ {j \in Jobs : sent[j] > 0} = {}
  BY DEF Init
<1>2. \A j \in Jobs : Outcome(job[j]) = "open"
  <2> SUFFICES ASSUME NEW j \in Jobs
               PROVE  Outcome(job[j]) = "open"
    OBVIOUS
  <2>1. job[j].state = "none"
    BY DEF Init, Absent
  <2> QED
    BY <2>1, OutcomeOf
<1> QED
  BY <1>1, <1>2 DEF O!Init

\* One job's outcome may be decided; nothing else that AuthService sees changes.
LEMMA OutboxReleased ==
  ASSUME QInv, NEW j \in Jobs, NEW new \in Job, Released(j, new)
  PROVE  O!Next \/ UNCHANGED O!outboxVars
<1>1. /\ UNCHANGED <<posted, sent>> /\ Outcome(job[j]) = "open"
      /\ Outcome(new) \in {"open", "given up"} /\ j \in 1..posted
      /\ \A i \in Jobs : job'[i] = IF i = j THEN new ELSE job[i]
  <2>1. j \in 1..posted
    BY JobType DEF Released, QInv, AllPosted, Posted, Jobs
  <2>2. Outcome(job[j]) = "open"
    BY OutcomeOf DEF Released
  <2>3. Outcome(new) \in {"open", "given up"}
    BY OutcomeOf DEF Released
  <2>4. \A i \in Jobs : job'[i] = IF i = j THEN new ELSE job[i]
    BY DEF Released, QInv, TypeOK
  <2> QED
    BY <2>1, <2>2, <2>3, <2>4 DEF Released
<1>2. \A i \in Jobs : Outcome(job[i])' = IF i = j THEN Outcome(new) ELSE Outcome(job[i])
  BY <1>1
<1>3. CASE Outcome(new) = "open"
  <2>1. [i \in Jobs |-> Outcome(job[i])]' = [i \in Jobs |-> Outcome(job[i])]
    BY <1>1, <1>2, <1>3
  <2> QED
    BY <1>1, <2>1 DEF O!outboxVars
<1>4. CASE Outcome(new) = "given up"
  <2>1. [i \in Jobs |-> Outcome(job[i])]'
          = [[i \in Jobs |-> Outcome(job[i])] EXCEPT ![j] = "given up"]
    BY <1>1, <1>2, <1>4
  <2>2. O!GiveUp(j)
    BY <1>1, <2>1 DEF O!GiveUp
  <2> QED
    BY <2>2 DEF O!Next
<1> QED
  BY <1>1, <1>3, <1>4

LEMMA OutboxStep == QInv /\ [Next]_vars => [O!Next]_(O!outboxVars)
<1> SUFFICES ASSUME QInv, [Next]_vars
             PROVE  O!Next \/ UNCHANGED O!outboxVars
  OBVIOUS
<1>1. CASE UNCHANGED <<posted, job, sent>>
  BY <1>1 DEF O!outboxVars
<1>2. ASSUME NEW name \in Names, Add(name)
      PROVE  O!Next
  <2>1. posted + 1 \in Jobs /\ posted \in Nat
    BY <1>2, MaxJobsAssumption DEF Add, QInv, TypeOK, Jobs
  <2>2. PICK p \in Jobs : p = posted + 1 /\ job[p].state = "none"
    BY <2>1, JobType DEF QInv, AllPosted, Posted
  <2>3. 1..posted' = (1..posted) \cup {p} /\ p \notin 1..posted /\ sent' = sent
    BY <1>2, <2>1, <2>2 DEF Add, history
  <2>4. \A i \in Jobs : Outcome(job[i])' = Outcome(job[i])
    <3> SUFFICES ASSUME NEW i \in Jobs
                 PROVE  Outcome(job'[i]) = Outcome(job[i])
      OBVIOUS
    <3>1. i # p => job'[i] = job[i]
      BY <1>2, <2>2 DEF Add, QInv, TypeOK
    <3>2. job[p] \in Job /\ job'[p] = [job[p] EXCEPT !.name = name, !.state = "wait"]
      BY <1>2, <2>2, JobType DEF Add, QInv, TypeOK
    <3>3. job'[p].state = "wait"
      BY <3>2 DEF Job
    <3> QED
      BY <2>2, <3>1, <3>3, OutcomeOf
  <2>5. O!Ask(p)
    BY <2>3, <2>4 DEF O!Ask
  <2> QED
    BY <2>5 DEF O!Next
<1>3. ASSUME NEW w \in Workers, Take(w)
      PROVE  UNCHANGED O!outboxVars
  <2>1. PICK j \in Jobs : j = Head(waiting) /\ job[j].state = "wait"
    BY <1>3 DEF Take, QInv, TypeOK, Waits
  <2>2. job' = [job EXCEPT ![j].state = "active", ![j].lock = w] /\ UNCHANGED <<posted, sent>>
    BY <1>3, <2>1 DEF Take
  <2>3. \A i \in Jobs : Outcome(job[i])' = Outcome(job[i])
    <3> SUFFICES ASSUME NEW i \in Jobs
                 PROVE  Outcome(job'[i]) = Outcome(job[i])
      OBVIOUS
    <3>1. i # j => job'[i] = job[i]
      BY <2>2 DEF QInv, TypeOK
    <3>2. job'[j] = [job[j] EXCEPT !.state = "active", !.lock = w] /\ job[j] \in Job
      BY <2>2, JobType DEF QInv, TypeOK
    <3>3. job'[j].state = "active"
      BY <3>2 DEF Job
    <3> QED
      BY <2>1, <3>1, <3>3, OutcomeOf
  <2> QED
    BY <2>2, <2>3 DEF O!outboxVars
<1>4. ASSUME NEW w \in Workers, Process(w)
      PROVE  O!Next \/ UNCHANGED O!outboxVars
  <2>1. PICK j \in Jobs : j = work[w].job /\ j \in 1..posted /\ posted \in Nat
    BY <1>4, MaxJobsAssumption DEF Process, QInv, TypeOK, AllWork, GoodWork, Jobs
  <2>2. UNCHANGED <<posted, job>> /\ (UNCHANGED sent \/ sent' = [sent EXCEPT ![j] = sent[j] + 1])
    BY <1>4, <2>1 DEF Process, Accepted, queue
  <2>3. CASE UNCHANGED sent
    BY <2>2, <2>3 DEF O!outboxVars
  <2>4. CASE sent' = [sent EXCEPT ![j] = sent[j] + 1]
    <3>1. \A i \in Jobs : sent[i] \in Nat /\ sent'[i] = IF i = j THEN sent[i] + 1 ELSE sent[i]
      BY <2>4 DEF QInv, TypeOK
    <3>2. {i \in Jobs : sent'[i] > 0} = {i \in Jobs : sent[i] > 0} \cup {j}
      BY <3>1
    <3>3. O!Mail(j)
      BY <2>1, <2>2, <3>2 DEF O!Mail
    <3> QED
      BY <3>3 DEF O!Next
  <2> QED
    BY <2>2, <2>3, <2>4
<1>5. ASSUME NEW w \in Workers, Complete(w), Owns(w)
      PROVE  O!Next
  <2>1. PICK j \in Jobs : /\ j = work[w].job /\ job[j].state = "active" /\ sent[j] > 0
    BY <1>5, Owned DEF Complete, QInv, AllWork, GoodWork
  <2>2. \A i \in Jobs :
          /\ Outcome(job'[i]) = IF i = j THEN "confirmed" ELSE Outcome(job[i])
    BY <1>5, <2>1, CompletedJobs, OutcomeOf
  <2>3. UNCHANGED <<posted, sent>> /\ Outcome(job[j]) = "open"
    BY <1>5, <2>1, OutcomeOf DEF Complete, history
  <2>4. [i \in Jobs |-> Outcome(job[i])]'
          = [[i \in Jobs |-> Outcome(job[i])] EXCEPT ![j] = "confirmed"]
    BY <2>2
  <2>5. O!Confirm(j)
    BY <2>1, <2>3, <2>4 DEF O!Confirm
  <2> QED
    BY <2>5 DEF O!Next
<1>6. ASSUME NEW w \in Workers, Complete(w) \/ Retry(w) \/ Crash(w), ~Owns(w)
      PROVE  UNCHANGED <<posted, job, sent>>
  BY <1>6 DEF Complete, Retry, Crash, queue, history
<1>7. ASSUME NEW w \in Workers, Retry(w) \/ Crash(w) \/ LoseLock(w), Owns(w)
      PROVE  O!Next \/ UNCHANGED O!outboxVars
  <2>1. PICK j \in Jobs, new \in Job : Released(j, new)
    BY <1>7, RetryReleases, UnlockReleases
  <2> QED
    BY <2>1, OutboxReleased
<1>8. ASSUME NEW j \in Jobs, Promote(j) \/ Recover(j)
      PROVE  O!Next \/ UNCHANGED O!outboxVars
  <2>1. PICK new \in Job : Released(j, new)
    BY <1>8, PromoteReleases, RecoverReleases
  <2> QED
    BY <2>1, OutboxReleased
<1>9. ASSUME NEW w \in Workers, LoseLock(w)
      PROVE  Owns(w)
  BY <1>9 DEF LoseLock
<1>10. UNCHANGED vars => UNCHANGED <<posted, job, sent>>
  BY DEF vars, queue, history
<1> QED
  BY <1>1, <1>2, <1>3, <1>4, <1>5, <1>6, <1>7, <1>8, <1>9, <1>10 DEF Next

\* The queue keeps the promise of Outbox: a mail is asked for once, confirmed
\* only when the provider took it, and its outcome is final.
THEOREM Refinement == Spec => ImplementsOutbox
<1>1. QInv /\ [Next]_vars => [O!Next]_(O!outboxVars)
  BY OutboxStep
<1> QED
  BY <1>1, OutboxInit, QInvAlways, PTL DEF Spec, ImplementsOutbox, O!Spec

-----------------------------------------------------------------------------
(* First tries start in the order of the posting: the jobs no worker has   *)
(* started yet all stand in the wait list, the earlier before the later.   *)

InLine == \A i \in Jobs :
              i <= posted /\ taken[i] = 0 => \E p \in DOMAIN waiting : waiting[p] = i
Sorted == \A p, q \in DOMAIN waiting :
              /\ taken[waiting[p]] = 0 /\ taken[waiting[q]] = 0
              /\ waiting[p] < waiting[q]
              => p < q
DelayedWasTried == \A i \in Jobs : job[i].state = "delayed" => taken[i] > 0

LineInv == InLine /\ Sorted /\ DelayedWasTried /\ FirstTriesInOrder

LEMMA LineAdd ==
  ASSUME QInv, LineInv, NEW name \in Names, Add(name)
  PROVE  LineInv'
<1>1. PICK p \in Jobs : p = posted + 1 /\ p \in Nat
  BY MaxJobsAssumption DEF Add, QInv, TypeOK, Jobs
<1>2. posted' = p /\ taken' = taken /\ waiting' = Append(waiting, p) /\ waiting \in Seq(Jobs)
  BY <1>1 DEF Add, history, QInv, TypeOK
<1>3. \A i \in Jobs : job'[i].state = "delayed" => job[i].state = "delayed"
  BY <1>1 DEF Add, QInv, TypeOK, Job
<1>4. \A i \in Jobs : i <= p <=> i <= posted \/ i = p
  BY <1>1, MaxJobsAssumption DEF QInv, TypeOK, Jobs
<1>5. \A q \in DOMAIN waiting : waiting[q] \in Nat /\ waiting[q] < p
  <2> TAKE q \in DOMAIN waiting
  <2>1. PICK i \in Jobs : i = waiting[q]
    BY Listed DEF QInv
  <2>2. i <= posted
    BY <2>1 DEF QInv, Waits, AllPosted, Posted
  <2>3. i \in Nat /\ posted \in Nat
    BY JobType DEF QInv
  <2> QED
    BY <1>1, <2>1, <2>2, <2>3
<1>6. /\ DOMAIN waiting' = 1..(Len(waiting) + 1) /\ Len(waiting) \in Nat
      /\ DOMAIN waiting = 1..Len(waiting)
      /\ waiting'[Len(waiting) + 1] = p
      /\ \A q \in DOMAIN waiting : q \in DOMAIN waiting' /\ waiting'[q] = waiting[q]
  BY <1>1, <1>2
<1>7. InLine'
  BY <1>2, <1>4, <1>6 DEF LineInv, InLine
<1>8. Sorted'
  <2> SUFFICES ASSUME NEW a \in DOMAIN waiting', NEW b \in DOMAIN waiting',
                      taken[waiting'[a]] = 0, taken[waiting'[b]] = 0,
                      waiting'[a] < waiting'[b]
               PROVE  a < b
    BY <1>2 DEF Sorted
  <2>1. CASE a \in DOMAIN waiting /\ b \in DOMAIN waiting
    BY <1>6, <2>1 DEF LineInv, Sorted
  <2>2. CASE a \in DOMAIN waiting /\ b = Len(waiting) + 1
    BY <1>6, <2>2
  <2>3. CASE a = Len(waiting) + 1
    <3>1. waiting'[b] = p \/ (waiting'[b] < p /\ waiting'[b] \in Nat)
      <4>1. b = Len(waiting) + 1 \/ b \in DOMAIN waiting
        BY <1>6
      <4>2. CASE b \in DOMAIN waiting
        <5>1. waiting'[b] = waiting[b]
          BY <1>6, <4>2
        <5> QED
          BY <1>5, <4>2, <5>1
      <4>3. CASE b = Len(waiting) + 1
        <5>1. waiting'[b] = p
          BY <1>6, <4>3
        <5> QED
          BY <5>1
      <4> QED
        BY <4>1, <4>2, <4>3
    <3> QED
      BY <1>1, <1>6, <2>3, <3>1
  <2> QED
    BY <1>6, <2>1, <2>2, <2>3
<1> QED
  BY <1>2, <1>3, <1>7, <1>8 DEF LineInv, DelayedWasTried, FirstTriesInOrder

LEMMA LineTake ==
  ASSUME QInv, LineInv, NEW w \in Workers, Take(w)
  PROVE  LineInv'
<1>1. PICK j \in Jobs : /\ waiting \in Seq(Jobs) /\ waiting # <<>> /\ j = Head(waiting)
                       /\ j = waiting[1] /\ 1 \in DOMAIN waiting
  BY DEF Take, QInv, TypeOK
<1>2. /\ posted' = posted /\ waiting' = Tail(waiting)
      /\ job' = [job EXCEPT ![j].state = "active", ![j].lock = w]
      /\ taken' = [taken EXCEPT ![j] = taken[j] + 1]
  BY <1>1 DEF Take
<1>3. \A i \in Jobs : taken[i] \in Nat /\ taken'[i] = IF i = j THEN taken[i] + 1 ELSE taken[i]
  BY <1>2 DEF QInv, TypeOK
<1>4. \A i \in Jobs : job'[i].state = "delayed" => job[i].state = "delayed"
  BY <1>2 DEF QInv, TypeOK, Job
<1>5. /\ DOMAIN waiting' = 1..(Len(waiting) - 1) /\ DOMAIN waiting = 1..Len(waiting)
      /\ Len(waiting) \in Nat
      /\ \A p \in DOMAIN waiting' : /\ waiting'[p] = waiting[p + 1] /\ p + 1 \in DOMAIN waiting
                                    /\ waiting[p + 1] \in Jobs /\ p \in Nat
      /\ \A p \in DOMAIN waiting : p # 1 => p - 1 \in DOMAIN waiting' /\ waiting'[p - 1] = waiting[p]
  BY <1>1, <1>2
<1>6. InLine'
  <2> SUFFICES ASSUME NEW i \in Jobs, i <= posted, taken'[i] = 0
               PROVE  \E p \in DOMAIN waiting' : waiting'[p] = i
    BY <1>2 DEF InLine
  <2>1. i # j /\ taken[i] = 0
    BY <1>3
  <2>2. PICK p \in DOMAIN waiting : waiting[p] = i
    BY <2>1 DEF LineInv, InLine
  <2>3. p # 1
    BY <1>1, <2>1, <2>2
  <2> QED
    BY <1>5, <2>2, <2>3
<1>7. Sorted'
  <2> SUFFICES ASSUME NEW a \in DOMAIN waiting', NEW b \in DOMAIN waiting',
                      taken'[waiting'[a]] = 0, taken'[waiting'[b]] = 0,
                      waiting'[a] < waiting'[b]
               PROVE  a < b
    BY DEF Sorted
  <2>1. taken[waiting[a + 1]] = 0 /\ taken[waiting[b + 1]] = 0 /\ waiting[a + 1] < waiting[b + 1]
    BY <1>3, <1>5
  <2>2. a + 1 < b + 1
    BY <1>5, <2>1 DEF LineInv, Sorted
  <2> QED
    BY <1>5, <2>2
<1>8. FirstTriesInOrder'
  <2> SUFFICES ASSUME NEW h \in Jobs, NEW i \in Jobs, h < i, taken'[i] > 0
               PROVE  taken'[h] > 0
    BY DEF FirstTriesInOrder
  <2>1. CASE taken[i] > 0
    BY <1>3, <2>1 DEF LineInv, FirstTriesInOrder
  <2>2. CASE taken[i] = 0 /\ taken[h] = 0
    <3>1. i = j
      BY <1>3, <2>2
    <3>2. h <= posted
      <4>1. job[j].state = "wait" /\ Posted(j)
        BY <1>1 DEF QInv, Waits, AllPosted
      <4>2. posted \in Nat /\ h \in Nat /\ j \in Nat
        BY JobType DEF QInv
      <4> QED
        BY <3>1, <4>1, <4>2 DEF Posted
    <3>3. PICK p \in DOMAIN waiting : waiting[p] = h
      BY <2>2, <3>2 DEF LineInv, InLine
    <3>4. p < 1
      BY <1>1, <2>2, <3>1, <3>3 DEF LineInv, Sorted
    <3> QED
      BY <1>5, <3>4
  <2>3. CASE taken[h] > 0
    BY <1>3, <2>3
  <2> QED
    BY <1>3, <2>1, <2>2, <2>3
<1> QED
  BY <1>3, <1>4, <1>6, <1>7, <1>8 DEF LineInv, DelayedWasTried

LEMMA LineReleased ==
  ASSUME QInv, LineInv, NEW j \in Jobs, NEW new \in Job, Released(j, new)
  PROVE  LineInv'
<1>1. taken[j] > 0
  <2>1. job[j].state = "active" => taken[j] > 0
    BY JobType DEF QInv, AllCounted, Counted, Tried
  <2> QED
    BY <2>1 DEF Released, LineInv, DelayedWasTried
<1>2. posted' = posted /\ taken' = taken /\ waiting \in Seq(Jobs) /\ Len(waiting) \in Nat
  BY DEF Released, QInv, TypeOK
<1>3. DelayedWasTried'
  <2>1. \A i \in Jobs : i # j => job'[i] = job[i]
    BY DEF Released, QInv, TypeOK
  <2> QED
    BY <1>1, <1>2, <2>1 DEF LineInv, DelayedWasTried
<1>4. InLine' /\ Sorted'
  <2>1. CASE waiting' = waiting
    BY <1>2, <2>1 DEF LineInv, InLine, Sorted
  <2>2. CASE waiting' = Append(waiting, j)
    <3>1. /\ DOMAIN waiting' = 1..(Len(waiting) + 1) /\ DOMAIN waiting = 1..Len(waiting)
          /\ waiting'[Len(waiting) + 1] = j
          /\ \A q \in DOMAIN waiting : q \in DOMAIN waiting' /\ waiting'[q] = waiting[q]
          /\ \A q \in DOMAIN waiting' : q \in DOMAIN waiting \/ q = Len(waiting) + 1
      BY <1>2, <2>2
    <3>2. InLine'
      BY <1>2, <3>1 DEF LineInv, InLine
    <3>3. Sorted'
      BY <1>1, <1>2, <3>1 DEF LineInv, Sorted
    <3> QED
      BY <3>2, <3>3
  <2>3. CASE waiting' = <<j>> \o waiting
    <3>1. /\ DOMAIN waiting' = 1..(Len(waiting) + 1) /\ DOMAIN waiting = 1..Len(waiting)
          /\ \A q \in DOMAIN waiting : q + 1 \in DOMAIN waiting' /\ waiting'[q + 1] = waiting[q]
          /\ \A q \in DOMAIN waiting' : \/ q = 1 /\ waiting'[q] = j
                                        \/ /\ q - 1 \in DOMAIN waiting /\ q \in Nat
                                           /\ waiting'[q] = waiting[q - 1]
      BY <1>2, <2>3
    <3>2. InLine'
      BY <1>2, <3>1 DEF LineInv, InLine
    <3>3. Sorted'
      <4> SUFFICES ASSUME NEW a \in DOMAIN waiting', NEW b \in DOMAIN waiting',
                          taken[waiting'[a]] = 0, taken[waiting'[b]] = 0,
                          waiting'[a] < waiting'[b]
                   PROVE  a < b
        BY <1>2 DEF Sorted
      <4>1. waiting'[a] # j /\ waiting'[b] # j
        BY <1>1
      <4>2. a - 1 < b - 1
        BY <3>1, <4>1 DEF LineInv, Sorted
      <4> QED
        BY <3>1, <4>1, <4>2
    <3> QED
      BY <3>2, <3>3
  <2> QED
    BY <2>1, <2>2, <2>3 DEF Released
<1> QED
  BY <1>2, <1>3, <1>4 DEF LineInv, FirstTriesInOrder

LEMMA LineStep == QInv /\ LineInv /\ [Next]_vars => LineInv'
<1> SUFFICES ASSUME QInv, LineInv, [Next]_vars
             PROVE  LineInv'
  OBVIOUS
<1>1. CASE /\ UNCHANGED <<posted, waiting, taken>>
           /\ \A i \in Jobs : job'[i].state = "delayed" => job[i].state = "delayed"
  BY <1>1 DEF LineInv, InLine, Sorted, DelayedWasTried, FirstTriesInOrder
<1>2. UNCHANGED vars => UNCHANGED <<posted, waiting, taken, job>>
  BY DEF vars, queue, history
<1>3. ASSUME NEW w \in Workers, Process(w)
      PROVE  UNCHANGED <<posted, waiting, taken, job>>
  BY <1>3 DEF Process, queue
<1>4. ASSUME NEW w \in Workers, Complete(w) \/ Retry(w) \/ Crash(w), ~Owns(w)
      PROVE  UNCHANGED <<posted, waiting, taken, job>>
  BY <1>4 DEF Complete, Retry, Crash, queue, history
<1>5. ASSUME NEW w \in Workers, Complete(w), Owns(w)
      PROVE  /\ UNCHANGED <<posted, waiting, taken>>
             /\ \A i \in Jobs : job'[i].state = "delayed" => job[i].state = "delayed"
  <2>1. UNCHANGED <<posted, waiting, taken>>
    BY <1>5 DEF Complete, history
  <2> QED
    BY <1>5, <2>1, CompletedJobs
<1>6. ASSUME NEW w \in Workers, Retry(w) \/ Crash(w) \/ LoseLock(w), Owns(w)
      PROVE  LineInv'
  <2>1. PICK j \in Jobs, new \in Job : Released(j, new)
    BY <1>6, RetryReleases, UnlockReleases
  <2> QED
    BY <2>1, LineReleased
<1>7. ASSUME NEW j \in Jobs, Promote(j) \/ Recover(j)
      PROVE  LineInv'
  <2>1. PICK new \in Job : Released(j, new)
    BY <1>7, PromoteReleases, RecoverReleases
  <2> QED
    BY <2>1, LineReleased
<1>8. ASSUME NEW w \in Workers, LoseLock(w)
      PROVE  Owns(w)
  BY <1>8 DEF LoseLock
<1> QED
  BY <1>1, <1>2, <1>3, <1>4, <1>5, <1>6, <1>7, <1>8, LineAdd, LineTake DEF Next

\* A mail overtakes an earlier one only after a try of the earlier one, however
\* many retries and recovered jobs stand between them in the wait list.
THEOREM FirstTries == Spec => []FirstTriesInOrder
<1>1. Init => LineInv
  BY DEF Init, LineInv, InLine, Sorted, DelayedWasTried, FirstTriesInOrder, Absent, Jobs
<1>2. QInv /\ LineInv /\ [Next]_vars => LineInv'
  BY LineStep
<1>3. LineInv => FirstTriesInOrder
  BY DEF LineInv
<1> QED
  BY <1>1, <1>2, <1>3, QInvAlways, PTL DEF Spec

-----------------------------------------------------------------------------
(* Mails beyond the first need faults.  Every worker about to call the     *)
(* provider for a job, and every call it made, is paid for by a fault of   *)
(* that job, except for one: that of the lock's owner, or of the worker    *)
(* that completed the job.  An owner that throws has given its mail back.  *)

Senders(j) == {w \in Workers : work[w].job = j /\ work[w].step = "send"}
Spent(j)   == sent[j] + Cardinality(Senders(j))
Covered(j) == job[j].state \in {"completed", "removed"} \/ job[j].lock # NoWorker

Paid(j) ==
    /\ Spent(j) <= faults[j] + 1
    /\ ~Covered(j) => Spent(j) <= faults[j]
    /\ job[j].lock # NoWorker =>
         (work[job[j].lock].step = "threw" => Spent(j) <= faults[j])

AllPaid == \A j \in Jobs : Paid(j)

LEMMA SendersFinite ==
  ASSUME NEW j
  PROVE  IsFiniteSet(Senders(j)) /\ Cardinality(Senders(j)) \in Nat
<1>1. IsFiniteSet(Senders(j))
  BY WorkersAssumption, FS_Subset DEF Senders
<1> QED
  BY <1>1, FS_CardinalityType

LEMMA SpentNumbers ==
  ASSUME TypeOK, NEW j \in Jobs
  PROVE  /\ sent[j] \in Nat /\ faults[j] \in Nat /\ Cardinality(Senders(j)) \in Nat
         /\ Spent(j) \in Nat
<1>1. sent[j] \in Nat /\ faults[j] \in Nat
  BY DEF TypeOK
<1> QED
  BY <1>1, SendersFinite DEF Spent

\* A job that only loses workers, and whose owner, if it keeps one, stays put.
LEMMA PaidFrame ==
  ASSUME QInv, QInv', NEW i \in Jobs, Paid(i),
         sent'[i] = sent[i], faults'[i] = faults[i],
         \A x \in Workers : work'[x].job = i /\ work'[x].step = "send" =>
                            work[x].job = i /\ work[x].step = "send",
         Covered(i) => Covered(i)',
         job'[i].lock # NoWorker =>
            job'[i].lock = job[i].lock /\ work'[job[i].lock] = work[job[i].lock]
  PROVE  Paid(i)'
<1>1. PICK old : old = Senders(i)
  OBVIOUS
<1>2. PICK now : now = Senders(i)'
  OBVIOUS
<1>3. now \subseteq old /\ IsFiniteSet(old)
  BY <1>1, <1>2, SendersFinite DEF Senders
<1>4. /\ Cardinality(now) \in Nat /\ Cardinality(old) \in Nat
      /\ Cardinality(now) <= Cardinality(old)
  BY <1>3, FS_Subset, FS_CardinalityType
<1>5. Spent(i)' = sent[i] + Cardinality(now) /\ Spent(i) = sent[i] + Cardinality(old)
  BY <1>1, <1>2 DEF Spent
<1>6. sent[i] \in Nat /\ faults[i] \in Nat
  BY DEF QInv, TypeOK
<1>7. Spent(i)' <= Spent(i) /\ Spent(i)' \in Nat /\ Spent(i) \in Nat
  BY <1>4, <1>5, <1>6
<1> QED
  BY <1>6, <1>7 DEF Paid

\* A worker running a job whose lock it does not hold is not another job's owner.
LEMMA OwnerRuns ==
  ASSUME QInv, NEW i \in Jobs, job[i].lock # NoWorker
  PROVE  /\ job[i].lock \in Workers /\ work[job[i].lock].job = i
         /\ work[job[i].lock].step # "idle" /\ Owns(job[i].lock)
<1>1. job[i].lock \in Workers
  BY JobType DEF QInv, Job
<1>2. work[job[i].lock].job = i /\ work[job[i].lock].step # "idle"
  BY DEF QInv, AllLocked, Locked
<1> QED
  BY <1>1, <1>2 DEF Owns, Idle

LEMMA PaidReleased ==
  ASSUME QInv, QInv', AllPaid, NEW j \in Jobs, NEW new \in Job, Released(j, new),
         \A i \in Jobs : i # j => faults'[i] = faults[i],
         Spent(j) <= faults'[j]
  PROVE  AllPaid'
<1>1. \A i \in Jobs : job'[i] = IF i = j THEN new ELSE job[i]
  BY DEF Released, QInv, TypeOK
<1>2. \A x \in Workers : work'[x].step = "send" => work'[x] = work[x]
  BY DEF Released, Idle
<1>3. ASSUME NEW i \in Jobs, i # j
      PROVE  Paid(i)'
  <2>1. job'[i] = job[i] /\ sent'[i] = sent[i]
    BY <1>1, <1>3 DEF Released
  <2>2. ASSUME job[i].lock # NoWorker PROVE work'[job[i].lock] = work[job[i].lock]
    <3>1. PICK x \in Workers : x = job[i].lock /\ work[x].job # j /\ Owns(x)
      BY <1>3, <2>2, OwnerRuns
    <3>2. work'[x] = work[x]
      BY <3>1 DEF Released
    <3> QED
      BY <3>1, <3>2
  <2> QED
    BY <1>2, <1>3, <2>1, <2>2, PaidFrame DEF AllPaid, Covered
<1>4. Paid(j)'
  <2>1. PICK old : old = Senders(j)
    OBVIOUS
  <2>2. PICK now : now = Senders(j)'
    OBVIOUS
  <2>3. now \subseteq old /\ IsFiniteSet(old)
    BY <1>2, <2>1, <2>2, SendersFinite DEF Senders
  <2>4. /\ Cardinality(now) \in Nat /\ Cardinality(old) \in Nat
        /\ Cardinality(now) <= Cardinality(old)
    BY <2>3, FS_Subset, FS_CardinalityType
  <2>5. Spent(j)' = sent[j] + Cardinality(now) /\ Spent(j) = sent[j] + Cardinality(old)
    BY <2>1, <2>2 DEF Spent, Released
  <2>6. sent[j] \in Nat /\ faults'[j] \in Nat
    BY DEF QInv, TypeOK
  <2>7. Spent(j)' <= faults'[j] /\ Spent(j)' \in Nat
    BY <2>4, <2>5, <2>6
  <2>8. job'[j].lock = NoWorker
    BY <1>1 DEF Released
  <2> QED
    BY <2>6, <2>7, <2>8 DEF Paid
<1> QED
  BY <1>3, <1>4 DEF AllPaid

LEMMA PaidTake ==
  ASSUME QInv, QInv', AllPaid, NEW w \in Workers, Take(w)
  PROVE  AllPaid'
<1>1. PICK j \in Jobs : j = Head(waiting) /\ job[j].state = "wait"
  BY HeadWaits
<1>2. /\ work[w] = Idle /\ work' = [work EXCEPT ![w] = [job |-> j, step |-> "send"]]
      /\ job' = [job EXCEPT ![j].state = "active", ![j].lock = w]
      /\ sent' = sent /\ faults' = faults
  BY <1>1 DEF Take
<1>3. \A x \in Workers : work'[x] = IF x = w THEN [job |-> j, step |-> "send"] ELSE work[x]
  BY <1>2 DEF QInv, TypeOK
<1>4. \A i \in Jobs : i # j => job'[i] = job[i]
  BY <1>2 DEF QInv, TypeOK
<1>5. job[j].lock = NoWorker /\ job'[j].lock = w
  <2>1. job[j] \in Job /\ Locked(j)
    BY JobType DEF QInv, AllLocked
  <2>2. job[j].lock = NoWorker
    BY <1>1, <2>1 DEF Locked
  <2>3. job'[j] = [job[j] EXCEPT !.state = "active", !.lock = w]
    BY <1>2 DEF QInv, TypeOK
  <2> QED
    BY <2>1, <2>2, <2>3 DEF Job
<1>6. ASSUME NEW i \in Jobs, i # j
      PROVE  Paid(i)'
  <2>1. job'[i] = job[i]
    BY <1>4, <1>6
  <2>2. job[i].lock # NoWorker => work'[job[i].lock] = work[job[i].lock]
    BY <1>2, <1>3, OwnerRuns DEF Idle
  <2>3. \A x \in Workers : work'[x].job = i /\ work'[x].step = "send" =>
                           work[x].job = i /\ work[x].step = "send"
    BY <1>3, <1>6
  <2> QED
    BY <1>2, <1>6, <2>1, <2>2, <2>3, PaidFrame DEF AllPaid, Covered
<1>7. Paid(j)'
  <2>1. PICK old : old = Senders(j)
    OBVIOUS
  <2>2. PICK now : now = Senders(j)'
    OBVIOUS
  <2>3. now = old \cup {w} /\ w \notin old /\ IsFiniteSet(old)
    <3>1. w \notin old
      BY <1>2, <2>1 DEF Senders, Idle
    <3>2. now = old \cup {w}
      BY <1>3, <2>1, <2>2 DEF Senders
    <3> QED
      BY <2>1, <3>1, <3>2, SendersFinite
  <2>4. Cardinality(now) = Cardinality(old) + 1 /\ Cardinality(old) \in Nat
    BY <2>3, FS_AddElement, FS_CardinalityType
  <2>5. Spent(j)' = sent[j] + Cardinality(now) /\ Spent(j) = sent[j] + Cardinality(old)
    BY <1>2, <2>1, <2>2 DEF Spent
  <2>6. sent[j] \in Nat /\ faults[j] \in Nat
    BY DEF QInv, TypeOK
  <2>7. ~Covered(j)
    BY <1>1, <1>5 DEF Covered
  <2>8. Spent(j) <= faults[j]
    BY <2>7 DEF AllPaid, Paid
  <2>9. Spent(j)' <= faults'[j] + 1
    BY <1>2, <2>4, <2>5, <2>6, <2>8
  <2>10. Covered(j)' /\ work'[job'[j].lock].step # "threw"
    BY <1>3, <1>5, WorkersAssumption DEF Covered
  <2> QED
    BY <2>9, <2>10 DEF Paid
<1> QED
  BY <1>6, <1>7 DEF AllPaid

LEMMA PaidProcess ==
  ASSUME QInv, QInv', AllPaid, NEW w \in Workers, Process(w)
  PROVE  AllPaid'
<1>1. PICK j \in Jobs : j = work[w].job /\ work[w].step = "send"
  BY DEF Process, QInv, AllWork, GoodWork
<1>2. PICK st \in {"ok", "threw"} :
        /\ work' = [work EXCEPT ![w].step = st]
        /\ \/ /\ sent' = sent /\ faults' = faults
           \/ /\ st = "ok" /\ sent' = [sent EXCEPT ![j] = sent[j] + 1] /\ faults' = faults
           \/ /\ sent' = [sent EXCEPT ![j] = sent[j] + 1]
              /\ faults' = [faults EXCEPT ![j] = faults[j] + 1]
  BY <1>1 DEF Process, Accepted, Fault, Goto
<1>3. job' = job
  BY DEF Process, queue
<1>4. \A x \in Workers : /\ work'[x].job = work[x].job
                         /\ x # w => work'[x] = work[x]
                         /\ x = w => work'[x].step = st
  BY <1>2 DEF QInv, TypeOK
<1>5. ASSUME NEW i \in Jobs, i # j
      PROVE  Paid(i)'
  <2>1. sent'[i] = sent[i] /\ faults'[i] = faults[i]
    BY <1>2, <1>5 DEF QInv, TypeOK
  <2>2. job[i].lock # NoWorker => work'[job[i].lock] = work[job[i].lock]
    BY <1>1, <1>4, <1>5, OwnerRuns
  <2>3. \A x \in Workers : work'[x].job = i /\ work'[x].step = "send" =>
                           work[x].job = i /\ work[x].step = "send"
    BY <1>2, <1>4
  <2> QED
    BY <1>3, <1>5, <2>1, <2>2, <2>3, PaidFrame DEF AllPaid, Covered
<1>6. Paid(j)'
  <2>1. PICK old : old = Senders(j)
    OBVIOUS
  <2>2. PICK now : now = Senders(j)'
    OBVIOUS
  <2>3. now = old \ {w} /\ w \in old /\ IsFiniteSet(old)
    <3>1. w \in old
      BY <1>1, <2>1 DEF Senders
    <3>2. now = old \ {w}
      BY <1>2, <1>4, <2>1, <2>2 DEF Senders
    <3> QED
      BY <2>1, <3>1, <3>2, SendersFinite
  <2>4. /\ Cardinality(now) = Cardinality(old) - 1
        /\ Cardinality(old) \in Nat /\ Cardinality(now) \in Nat
    BY <2>3, FS_RemoveElement, FS_CardinalityType, FS_Subset
  <2>5. Spent(j)' = sent'[j] + Cardinality(now) /\ Spent(j) = sent[j] + Cardinality(old)
    BY <2>1, <2>2 DEF Spent
  <2>6. /\ sent[j] \in Nat /\ faults[j] \in Nat /\ sent'[j] \in Nat /\ faults'[j] \in Nat
        /\ \/ sent'[j] = sent[j] /\ faults'[j] = faults[j]
           \/ st = "ok" /\ sent'[j] = sent[j] + 1 /\ faults'[j] = faults[j]
           \/ sent'[j] = sent[j] + 1 /\ faults'[j] = faults[j] + 1
    <3>1. sent \in [Jobs -> Nat] /\ faults \in [Jobs -> Nat]
      BY DEF QInv, TypeOK
    <3> QED
      BY <1>2, <3>1
  <2>7. Spent(j) <= faults[j] + 1 /\ Paid(j)
    BY DEF AllPaid, Paid
  <2>8. /\ Spent(j)' <= faults'[j] + 1
        /\ Spent(j) <= faults[j] => Spent(j)' <= faults'[j]
        /\ st = "threw" => Spent(j)' <= faults'[j]
    BY <2>4, <2>5, <2>6, <2>7
  <2>9. ~Covered(j)' => Spent(j)' <= faults'[j]
    BY <1>3, <2>7, <2>8 DEF Paid, Covered
  <2>10. ASSUME job[j].lock # NoWorker, work'[job[j].lock].step = "threw"
         PROVE  Spent(j)' <= faults'[j]
    <3>1. job[j].lock \in Workers
      BY <2>10, OwnerRuns
    <3>2. CASE job[j].lock = w
      BY <1>4, <2>8, <2>10, <3>2
    <3>3. CASE job[j].lock # w
      BY <1>4, <2>7, <2>8, <2>10, <3>1, <3>3 DEF Paid
    <3> QED
      BY <3>2, <3>3
  <2> QED
    BY <1>3, <2>8, <2>9, <2>10 DEF Paid
<1> QED
  BY <1>5, <1>6 DEF AllPaid

LEMMA PaidStep == QInv /\ QInv' /\ AllPaid /\ [Next]_vars => AllPaid'
<1> SUFFICES ASSUME QInv, QInv', AllPaid, [Next]_vars
             PROVE  AllPaid'
  OBVIOUS
<1>1. CASE UNCHANGED vars
  BY <1>1 DEF vars, queue, history, AllPaid, Paid, Spent, Senders, Covered
<1>2. ASSUME NEW name \in Names, Add(name)
      PROVE  AllPaid'
  <2>1. PICK p \in Jobs : p = posted + 1 /\ job[p].state = "none"
    BY <1>2, NextIsFree
  <2>2. UNCHANGED <<work, sent, faults>>
    BY <1>2 DEF Add, history
  <2>3. \A i \in Jobs : job'[i].lock = job[i].lock /\ (Covered(i) => Covered(i)')
    <3> TAKE i \in Jobs
    <3>1. job' = [job EXCEPT ![p].name = name, ![p].state = "wait"]
      BY <1>2, <2>1 DEF Add
    <3>2. job'[i].lock = job[i].lock /\ (i # p => job'[i] = job[i])
      BY <3>1 DEF QInv, TypeOK, Job
    <3> QED
      BY <2>1, <3>2 DEF Covered
  <2> QED
    BY <2>2, <2>3, PaidFrame DEF AllPaid
<1>3. ASSUME NEW w \in Workers, Complete(w), Owns(w)
      PROVE  AllPaid'
  <2>1. UNCHANGED <<sent, faults>> /\ work' = [work EXCEPT ![w] = Idle]
    BY <1>3 DEF Complete, Leave, history
  <2>2. \A x \in Workers : work'[x] = IF x = w THEN Idle ELSE work[x]
    BY <2>1 DEF QInv, TypeOK
  <2> SUFFICES ASSUME NEW i \in Jobs
               PROVE  Paid(i)'
    BY DEF AllPaid
  <2>3. Paid(i) /\ Covered(i) => Covered(i)'
    BY <1>3, CompletedJobs DEF Covered
  <2>4. job'[i].lock # NoWorker => job'[i] = job[i] /\ i # work[w].job
    <3>1. job'[i].lock # NoWorker => job'[i].state = "active"
      BY DEF QInv, AllLocked, Locked
    <3> QED
      BY <1>3, <3>1, CompletedJobs
  <2>5. job'[i].lock # NoWorker => work'[job[i].lock] = work[job[i].lock]
    BY <2>2, <2>4, OwnerRuns
  <2>6. \A x \in Workers : work'[x].job = i /\ work'[x].step = "send" =>
                           work[x].job = i /\ work[x].step = "send"
    BY <2>2 DEF Idle
  <2>7. Paid(i) /\ sent'[i] = sent[i] /\ faults'[i] = faults[i]
    BY <2>1 DEF AllPaid
  <2> QED
    BY <2>3, <2>4, <2>5, <2>6, <2>7, PaidFrame
<1>4. ASSUME NEW w \in Workers, Complete(w) \/ Retry(w) \/ Crash(w), ~Owns(w)
      PROVE  AllPaid'
  <2>1. UNCHANGED <<job, sent, faults>> /\ work' = [work EXCEPT ![w] = Idle]
    BY <1>4 DEF Complete, Retry, Crash, Leave, history
  <2>2. \A x \in Workers : work'[x] = IF x = w THEN Idle ELSE work[x]
    BY <2>1 DEF QInv, TypeOK
  <2> SUFFICES ASSUME NEW i \in Jobs
               PROVE  Paid(i)'
    BY DEF AllPaid
  <2>3. job[i].lock # NoWorker => work'[job[i].lock] = work[job[i].lock]
    BY <1>4, <2>2, OwnerRuns
  <2>4. \A x \in Workers : work'[x].job = i /\ work'[x].step = "send" =>
                           work[x].job = i /\ work[x].step = "send"
    BY <2>2 DEF Idle
  <2> QED
    BY <2>1, <2>3, <2>4, PaidFrame DEF AllPaid, Covered
<1>5. ASSUME NEW w \in Workers, Retry(w), Owns(w)
      PROVE  AllPaid'
  <2>1. PICK j \in Jobs, new \in Job : Released(j, new) /\ work[w].job = j
    BY <1>5, RetryReleases
  <2>2. job[j].lock = w /\ work[w].step = "threw" /\ faults' = faults
    BY <1>5, <2>1 DEF Retry, Owns, history
  <2>3. Spent(j) <= faults[j]
    BY <2>2, WorkersAssumption DEF AllPaid, Paid
  <2> QED
    BY <2>1, <2>2, <2>3, PaidReleased
<1>6. ASSUME NEW w \in Workers, Crash(w) \/ LoseLock(w), Owns(w)
      PROVE  AllPaid'
  <2>1. PICK j \in Jobs, new \in Job : Released(j, new) /\ work[w].job = j
    BY <1>6, UnlockReleases
  <2>2. faults' = [faults EXCEPT ![j] = faults[j] + 1]
    BY <1>6, <2>1 DEF Crash, LoseLock, Fault
  <2>3. faults'[j] = faults[j] + 1 /\ \A i \in Jobs : i # j => faults'[i] = faults[i]
    BY <2>2 DEF QInv, TypeOK
  <2>4. Spent(j) <= faults'[j]
    BY <2>3 DEF AllPaid, Paid
  <2> QED
    BY <2>1, <2>3, <2>4, PaidReleased
<1>7. ASSUME NEW j \in Jobs, Promote(j) \/ Recover(j)
      PROVE  AllPaid'
  <2>1. PICK new \in Job : Released(j, new)
    BY <1>7, PromoteReleases, RecoverReleases
  <2>2. faults' = faults /\ ~Covered(j)
    BY <1>7 DEF Promote, Recover, history, Covered, QInv, AllLocked, Locked
  <2>3. Spent(j) <= faults[j]
    BY <2>2 DEF AllPaid, Paid
  <2> QED
    BY <2>1, <2>2, <2>3, PaidReleased
<1>8. ASSUME NEW w \in Workers, LoseLock(w)
      PROVE  Owns(w)
  BY <1>8 DEF LoseLock
<1> QED
  BY <1>1, <1>2, <1>3, <1>4, <1>5, <1>6, <1>7, <1>8, PaidTake, PaidProcess DEF Next

\* A mail leaves more than once only after a lost lock or a lost answer, and at
\* most once more for each, however many workers believe they run its job.
THEOREM ExtraMails == Spec => []ExtraMailsNeedFaults
<1>1. Init => AllPaid
  <2> SUFFICES ASSUME Init, NEW j \in Jobs
               PROVE  Paid(j)
    BY DEF AllPaid
  <2>1. Senders(j) = {} /\ sent[j] = 0 /\ faults[j] = 0 /\ job[j].lock = NoWorker
    BY DEF Init, Senders, Idle, Absent
  <2>2. Spent(j) = 0
    BY <2>1, FS_EmptySet DEF Spent
  <2> QED
    BY <2>1, <2>2 DEF Paid
<1>2. QInv /\ QInv' /\ AllPaid /\ [Next]_vars => AllPaid'
  BY PaidStep
<1>3. QInv /\ AllPaid => ExtraMailsNeedFaults
  <2> SUFFICES ASSUME QInv, AllPaid, NEW j \in Jobs
               PROVE  sent[j] <= 1 + faults[j]
    BY DEF ExtraMailsNeedFaults
  <2>1. Spent(j) <= faults[j] + 1
    BY DEF AllPaid, Paid
  <2>2. /\ sent[j] \in Nat /\ faults[j] \in Nat /\ Cardinality(Senders(j)) \in Nat
    BY SpentNumbers DEF QInv
  <2> QED
    BY <2>1, <2>2 DEF Spent
<1> QED
  BY <1>1, <1>2, <1>3, QInvAlways, PTL DEF Spec

-----------------------------------------------------------------------------
(* No job is forgotten: what waits is on the wait list, wherever the       *)
(* timers, the workers and the check for stalled jobs put it.              *)

InQueue == \A i \in Jobs : job[i].state = "wait" => \E p \in DOMAIN waiting : waiting[p] = i

LEMMA AddQueues ==
  ASSUME QInv, InQueue, NEW name \in Names, Add(name)
  PROVE  InQueue'
<1>1. PICK p \in Jobs : p = posted + 1
  BY MaxJobsAssumption DEF Add, QInv, TypeOK, Jobs
<1>2. /\ waiting \in Seq(Jobs) /\ waiting' = Append(waiting, p)
      /\ \A i \in Jobs : i # p => job'[i] = job[i]
  BY <1>1 DEF Add, QInv, TypeOK
<1>3. /\ DOMAIN waiting \subseteq DOMAIN waiting' /\ Len(waiting) + 1 \in DOMAIN waiting'
      /\ waiting'[Len(waiting) + 1] = p
      /\ \A q \in DOMAIN waiting : waiting'[q] = waiting[q]
  BY <1>1, <1>2
<1> QED
  BY <1>2, <1>3 DEF InQueue

LEMMA TakeQueues ==
  ASSUME QInv, InQueue, NEW w \in Workers, Take(w)
  PROVE  InQueue'
<1>1. PICK j \in Jobs : waiting \in Seq(Jobs) /\ waiting # <<>> /\ j = Head(waiting)
  BY DEF Take, QInv, TypeOK
<1>2. /\ waiting' = Tail(waiting)
      /\ job' = [job EXCEPT ![j].state = "active", ![j].lock = w]
  BY <1>1 DEF Take
<1>3. job'[j].state = "active" /\ \A i \in Jobs : i # j => job'[i] = job[i]
  BY <1>2, JobType DEF QInv, TypeOK, Job
<1>4. \A p \in DOMAIN waiting :
        waiting[p] # j => p - 1 \in DOMAIN waiting' /\ waiting'[p - 1] = waiting[p]
  BY <1>1, <1>2
<1> QED
  BY <1>3, <1>4 DEF InQueue

LEMMA ReleasedQueues ==
  ASSUME QInv, InQueue, NEW j \in Jobs, NEW new \in Job, Released(j, new)
  PROVE  InQueue'
<1>1. \A i \in Jobs : job'[i] = IF i = j THEN new ELSE job[i]
  BY DEF Released, QInv, TypeOK
<1>2. waiting \in Seq(Jobs)
  BY DEF QInv, TypeOK
<1>3. CASE new.state # "wait" /\ UNCHANGED waiting
  BY <1>1, <1>3 DEF InQueue
<1>4. CASE waiting' = Append(waiting, j)
  <2>1. /\ DOMAIN waiting \subseteq DOMAIN waiting' /\ Len(waiting) + 1 \in DOMAIN waiting'
        /\ waiting'[Len(waiting) + 1] = j
        /\ \A q \in DOMAIN waiting : waiting'[q] = waiting[q]
    BY <1>2, <1>4
  <2> QED
    BY <1>1, <2>1 DEF InQueue
<1>5. CASE waiting' = <<j>> \o waiting
  <2>1. /\ 1 \in DOMAIN waiting' /\ waiting'[1] = j
        /\ \A q \in DOMAIN waiting : q + 1 \in DOMAIN waiting' /\ waiting'[q + 1] = waiting[q]
    BY <1>2, <1>5
  <2> QED
    BY <1>1, <2>1 DEF InQueue
<1> QED
  BY <1>3, <1>4, <1>5 DEF Released

LEMMA QueuesStep == QInv /\ InQueue /\ [Next]_vars => InQueue'
<1> SUFFICES ASSUME QInv, InQueue, [Next]_vars
             PROVE  InQueue'
  OBVIOUS
<1>1. CASE UNCHANGED <<job, waiting>>
  BY <1>1 DEF InQueue
<1>2. ASSUME NEW w \in Workers, Process(w)
      PROVE  UNCHANGED <<job, waiting>>
  BY <1>2 DEF Process, queue
<1>3. ASSUME NEW w \in Workers, Complete(w) \/ Retry(w) \/ Crash(w), ~Owns(w)
      PROVE  UNCHANGED <<job, waiting>>
  BY <1>3 DEF Complete, Retry, Crash
<1>4. ASSUME NEW w \in Workers, Complete(w), Owns(w)
      PROVE  InQueue'
  <2>1. waiting' = waiting /\ \A i \in Jobs : job'[i].state = "wait" => job[i].state = "wait"
    BY <1>4, CompletedJobs DEF Complete
  <2> QED
    BY <2>1 DEF InQueue
<1>5. ASSUME NEW w \in Workers, Retry(w) \/ Crash(w) \/ LoseLock(w), Owns(w)
      PROVE  InQueue'
  BY <1>5, RetryReleases, UnlockReleases, ReleasedQueues
<1>6. ASSUME NEW j \in Jobs, Promote(j) \/ Recover(j)
      PROVE  InQueue'
  BY <1>6, PromoteReleases, RecoverReleases, ReleasedQueues
<1>7. ASSUME NEW w \in Workers, LoseLock(w)
      PROVE  Owns(w)
  BY <1>7 DEF LoseLock
<1>8. UNCHANGED vars => UNCHANGED <<job, waiting>>
  BY DEF vars, queue
<1> QED
  BY <1>1, <1>2, <1>3, <1>4, <1>5, <1>6, <1>7, <1>8, AddQueues, TakeQueues DEF Next

\* Whatever crashes, a posted job has ended, or something is due to take it on:
\* a timer, the wait list, the worker with its lock, or the check for stalls.
THEOREM NoForgottenJob == Spec => []NoJobIsForgotten
<1>1. Init => InQueue
  BY DEF Init, InQueue, Absent
<1>2. QInv /\ InQueue => NoJobIsForgotten
  <2> SUFFICES ASSUME QInv, InQueue, NEW j \in 1..posted,
                      job[j].state \notin {"completed", "removed", "failed", "delayed"}
               PROVE  \/ job[j].state = "wait" /\ \E p \in DOMAIN waiting : waiting[p] = j
                      \/ /\ job[j].state = "active"
                         /\ \/ job[j].lock = NoWorker
                            \/ \E w \in Workers : /\ job[j].lock = w /\ work[w].job = j
                                                  /\ work[w].step # "idle"
    BY DEF NoJobIsForgotten
  <2>1. j \in Jobs /\ j <= posted
    BY MaxJobsAssumption DEF QInv, TypeOK, Jobs
  <2>2. job[j] \in Job /\ job[j].state # "none"
    BY <2>1, JobType DEF QInv, AllPosted, Posted
  <2>3. job[j].state \in {"wait", "active"}
    BY <2>2 DEF Job
  <2> QED
    BY <2>1, <2>3, OwnerRuns DEF InQueue
<1>3. QInv /\ InQueue /\ [Next]_vars => InQueue'
  BY QueuesStep
<1> QED
  BY <1>1, <1>2, <1>3, QInvAlways, PTL DEF Spec

-----------------------------------------------------------------------------
(* Every change uses up one of the changes a job has left.                 *)

LEMMA StepsLeftType ==
  ASSUME NEW k \in Job
  PROVE  StepsLeft(k) \in Nat
<1>1. Phase(k) \in 0..4
  BY PhaseOf
<1>2. /\ k.made \in Nat /\ k.stalls \in Nat
      /\ k.made <= Attempts /\ k.stalls <= MaxStalls + 1
  BY AttemptsAssumption, MaxStallsAssumption DEF Job
<1> QED
  BY <1>1, <1>2, AttemptsAssumption, MaxStallsAssumption DEF StepsLeft

LEMMA MovesOn == QInv /\ QInv' /\ [Next]_vars =>
                   \A j \in Jobs : job[j].state # "none" /\ job'[j] # job[j] =>
                     0 <= StepsLeft(job'[j]) /\ StepsLeft(job'[j]) < StepsLeft(job[j])
<1> SUFFICES ASSUME QInv, QInv', [Next]_vars, NEW j \in Jobs,
                    job[j].state # "none", job'[j] # job[j]
             PROVE  0 <= StepsLeft(job'[j]) /\ StepsLeft(job'[j]) < StepsLeft(job[j])
  OBVIOUS
<1>1. job[j] \in Job /\ job'[j] \in Job
  BY DEF QInv, TypeOK
<1>2. 0 <= StepsLeft(job'[j])
  BY <1>1, StepsLeftType
<1>4. ASSUME NEW i \in Jobs, NEW new \in Job, Released(i, new)
      PROVE  StepsLeft(job'[j]) < StepsLeft(job[j])
  <2>1. j = i /\ job'[j] = new
    BY <1>4 DEF Released, QInv, TypeOK
  <2> QED
    BY <1>4, <2>1 DEF Released
<1>5. ASSUME job'[j].made = job[j].made, job'[j].stalls = job[j].stalls,
             Phase(job'[j]) < Phase(job[j])
      PROVE  StepsLeft(job'[j]) < StepsLeft(job[j])
  <2>1. /\ job[j].made \in Nat /\ job[j].stalls \in Nat
        /\ Phase(job[j]) \in 0..4 /\ Phase(job'[j]) \in 0..4
    BY JobType, PhaseOf DEF QInv
  <2> QED
    BY <1>5, <2>1, AttemptsAssumption, MaxStallsAssumption DEF StepsLeft
<1>6. ASSUME NEW name \in Names, Add(name)
      PROVE  FALSE
  <2>1. posted + 1 \in Jobs /\ j # posted + 1
    BY <1>6, NextIsFree
  <2> QED
    BY <1>6, <2>1 DEF Add, QInv, TypeOK
<1>7. ASSUME NEW w \in Workers, Take(w)
      PROVE  StepsLeft(job'[j]) < StepsLeft(job[j])
  <2>1. job[j].state = "wait" /\ job' = [job EXCEPT ![j].state = "active", ![j].lock = w]
    <3>1. PICK i \in Jobs : i = Head(waiting) /\ job[i].state = "wait"
      BY <1>7, HeadWaits
    <3>2. job' = [job EXCEPT ![i].state = "active", ![i].lock = w]
      BY <1>7, <3>1 DEF Take
    <3>3. j = i
      BY <3>2 DEF QInv, TypeOK
    <3> QED
      BY <3>1, <3>2, <3>3
  <2>2. /\ job'[j].state = "active" /\ job'[j].lock = w /\ w # NoWorker
        /\ job'[j].made = job[j].made /\ job'[j].stalls = job[j].stalls
    BY <1>1, <2>1, WorkersAssumption DEF QInv, TypeOK, Job
  <2>3. Phase(job[j]) = 3 /\ Phase(job'[j]) = 2
    BY <2>1, <2>2, PhaseOf
  <2> QED
    BY <1>5, <2>2, <2>3
<1>8. ASSUME NEW w \in Workers, Complete(w), Owns(w)
      PROVE  StepsLeft(job'[j]) < StepsLeft(job[j])
  <2>1. /\ job'[j].made = job[j].made /\ job'[j].stalls = job[j].stalls
        /\ \/ j = work[w].job /\ job'[j].state \in {"completed", "removed"}
           \/ job[j].state = "completed" /\ job'[j].state = "removed"
    BY <1>8, CompletedCounts
  <2>2. j = work[w].job => Phase(job[j]) = 2
    BY <1>8, Owned, PhaseOf, WorkersAssumption
  <2>3. Phase(job'[j]) < Phase(job[j])
    BY <2>1, <2>2, PhaseOf
  <2> QED
    BY <1>5, <2>1, <2>3
<1>9. ASSUME NEW w \in Workers, Process(w) \/ ((Complete(w) \/ Retry(w) \/ Crash(w)) /\ ~Owns(w))
      PROVE  FALSE
  BY <1>9 DEF Process, Complete, Retry, Crash, queue
<1>10. ASSUME NEW w \in Workers, Retry(w) \/ Crash(w) \/ LoseLock(w)
       PROVE  StepsLeft(job'[j]) < StepsLeft(job[j])
  <2>1. Owns(w)
    BY <1>9, <1>10 DEF LoseLock
  <2>2. PICK i \in Jobs, new \in Job : Released(i, new)
    BY <1>10, <2>1, RetryReleases, UnlockReleases
  <2> QED
    BY <1>4, <2>2
<1>11. ASSUME NEW i \in Jobs, Promote(i) \/ Recover(i)
       PROVE  StepsLeft(job'[j]) < StepsLeft(job[j])
  BY <1>4, <1>11, PromoteReleases, RecoverReleases
<1>12. ~UNCHANGED vars
  BY DEF vars, queue
<1> QED
  BY <1>2, <1>6, <1>7, <1>8, <1>9, <1>10, <1>11, <1>12 DEF Next

\* Whoever changes a posted job, and however often its workers fail, stall or
\* die: each change uses up one of the at most 4*(Attempts + MaxStalls) + 7.
THEOREM MovingOn == Spec => JobsMoveOn
<1>1. QInv /\ QInv' /\ [Next]_vars =>
        [\A j \in Jobs : job[j].state # "none" /\ job'[j] # job[j] =>
           0 <= StepsLeft(job'[j]) /\ StepsLeft(job'[j]) < StepsLeft(job[j])]_vars
  BY MovesOn
<1> QED
  BY <1>1, QInvAlways, PTL DEF Spec, JobsMoveOn
=============================================================================
