----------------------------- MODULE EmailQueue -----------------------------
(***************************************************************************)
(* EmailService, which posts a job per mail, and EmailProcessor, which     *)
(* renders the job's template and calls the mail provider, on either side  *)
(* of the BullMQ queue "email" that queue.config.ts sets up.               *)
(*                                                                         *)
(* BullMQ is modelled from the options the code gives it: jobs wait first  *)
(* in, first out; a job whose handler throws is delayed and tried again    *)
(* until its attempts are used up; a worker holds a lock on its job, and a *)
(* job whose lock ran out (the process died or stopped renewing it) is     *)
(* handed out again, at most MaxStalls times.  The provider may refuse a   *)
(* mail, and may accept one whose answer never arrives.                    *)
(***************************************************************************)
EXTENDS Naturals, Sequences, FiniteSets

CONSTANTS
    MaxJobs,        \* bound: mails posted in a behaviour
    Names,          \* the job names posted, of JobName and Unknown
    Workers,        \* processes that run EmailProcessor, one job at a time
    NoWorker,
    Attempts,       \* defaultJobOptions.attempts, 3
    MaxStalls,      \* BullMQ's maxStalledCount, 1
    KeepCompleted   \* defaultJobOptions.removeOnComplete.count, 100

Jobs == 1..MaxJobs

\* EMAIL_JOBS; Unknown is a name only another release of the server posts.
JobName == {"welcome", "passwordReset", "verifyEmail", "passwordUpdate",
            "linkExpire"}
Unknown == "unknown"

ASSUME MaxJobsAssumption   == MaxJobs \in Nat
ASSUME NamesAssumption     == Names \subseteq JobName \cup {Unknown}
ASSUME WorkersAssumption   == NoWorker \notin Workers /\ IsFiniteSet(Workers)
ASSUME AttemptsAssumption  == Attempts \in Nat \ {0}
ASSUME MaxStallsAssumption == MaxStalls \in Nat
ASSUME KeepAssumption      == KeepCompleted \in Nat

VARIABLES
    posted,   \* jobs posted so far; BullMQ numbers them
    job,      \* job[j]: what the queue knows of job j
    waiting,  \* the wait list, next job first
    done,     \* completed jobs still kept, oldest first
    work,     \* work[w]: the job worker w is running and where it stands
    sent,     \* history: how often the provider accepted the mail of job j
    taken,    \* history: how often a worker started job j
    faults    \* history: locks lost and answers lost for job j

queue   == <<posted, job, waiting, done>>
history == <<sent, taken, faults>>
vars    == <<queue, work, history>>

-----------------------------------------------------------------------------
\* The data each EmailService method posts, besides the address.
JobData(name) ==
    CASE name = "welcome"        -> {"firstName", "clientUrl"}
      [] name = "passwordReset"  -> {"resetLink", "firstName"}
      [] name = "verifyEmail"    -> {"firstName", "verifyCode", "clientUrl"}
      [] name = "passwordUpdate" -> {"clientUrl", "firstName"}
      [] name = "linkExpire"     -> {"requestUrl", "firstName"}
      [] OTHER                   -> {}

\* The data each handler takes from the job and gives to its template.
Context(name) ==
    CASE name = "welcome"        -> {"firstName", "clientUrl"}
      [] name = "passwordReset"  -> {"firstName", "resetLink"}
      [] name = "verifyEmail"    -> {"verifyCode", "firstName"}
      [] name = "passwordUpdate" -> {"firstName", "clientUrl"}
      [] name = "linkExpire"     -> {"firstName", "requestUrl"}

\* The expressions in the file templates/<name>.hbs.
Placeholders(name) ==
    {"firstName"} \cup
    CASE name \in {"welcome", "passwordUpdate"} -> {"clientUrl"}
      [] name = "passwordReset"                 -> {"resetLink"}
      [] name = "verifyEmail"                   -> {"verifyCode"}
      [] name = "linkExpire"                    -> {"requestUrl"}

\* The expressions that get a value; Handlebars leaves the others blank.  The
\* template is read from the file of that name and kept for later mails.
Rendered(name) == JobData(name) \cap Context(name)

Absent == [name |-> Unknown, state |-> "none", made |-> 0, stalls |-> 0,
           lock |-> NoWorker]
Job == [name : JobName \cup {Unknown},
        state : {"none", "wait", "active", "delayed", "completed", "removed",
                 "failed"},
        made : 0..Attempts, stalls : 0..MaxStalls + 1,
        lock : Workers \cup {NoWorker}]

Idle == [job |-> 0, step |-> "idle"]

TypeOK ==
    /\ posted \in 0..MaxJobs
    /\ job \in [Jobs -> Job]
    /\ waiting \in Seq(Jobs)
    /\ done \in Seq(Jobs)
    /\ work \in [Workers -> [job : 0..MaxJobs, step : {"idle", "send", "ok", "threw"}]]
    /\ sent \in [Jobs -> Nat]
    /\ taken \in [Jobs -> Nat]
    /\ faults \in [Jobs -> Nat]

Init ==
    /\ posted = 0
    /\ job = [j \in Jobs |-> Absent]
    /\ waiting = <<>>
    /\ done = <<>>
    /\ work = [w \in Workers |-> Idle]
    /\ sent = [j \in Jobs |-> 0]
    /\ taken = [j \in Jobs |-> 0]
    /\ faults = [j \in Jobs |-> 0]

\* What a failed attempt makes of a job: a retry after the backoff, or none.
Attempted(k) ==
    [k EXCEPT !.made = k.made + 1, !.lock = NoWorker,
              !.state = IF k.made + 1 < Attempts THEN "delayed" ELSE "failed"]

\* What the end of a job leaves of it.
Ended(k, state) == [k EXCEPT !.state = state, !.lock = NoWorker]

Accepted(j) == sent' = [sent EXCEPT ![j] = @ + 1]
Fault(j)    == faults' = [faults EXCEPT ![j] = @ + 1]
Goto(w, step) == work' = [work EXCEPT ![w].step = step]
Leave(w)      == work' = [work EXCEPT ![w] = Idle]
Owns(w)       == work[w] # Idle /\ job[work[w].job].lock = w

-----------------------------------------------------------------------------
(* Seeded faults: plausible slips in the code below, each of which one of  *)
(* the properties must catch.  No behaviour of Spec uses them.             *)

\* resend.emails.send does not throw: the result's error is not looked at.
ProcessIgnoringError(w) ==
    /\ work[w].step = "send"
    /\ LET j == work[w].job IN
       /\ job[j].name # Unknown
       /\ Goto(w, "ok")
       /\ Accepted(j) \/ UNCHANGED sent
    /\ UNCHANGED <<queue, taken, faults>>

\* The worker reports a failure although the mail went out.
ProcessThrowingLate(w) ==
    /\ work[w].step = "send"
    /\ Goto(w, "threw")
    /\ IF job[work[w].job].name = Unknown THEN UNCHANGED sent ELSE Accepted(work[w].job)
    /\ UNCHANGED <<queue, taken, faults>>

\* The newest job first.
AddInFront(name) ==
    /\ posted < MaxJobs
    /\ posted' = posted + 1
    /\ job' = [job EXCEPT ![posted'].name = name, ![posted'].state = "wait"]
    /\ waiting' = <<posted'>> \o waiting
    /\ UNCHANGED <<done, work, history>>

\* attempts left at BullMQ's default of one.
RetryNever(w) ==
    /\ work[w].step = "threw"
    /\ IF Owns(w)
       THEN job' = [job EXCEPT ![work[w].job] =
              [@ EXCEPT !.made = @ + 1, !.lock = NoWorker, !.state = "failed"]]
       ELSE UNCHANGED job
    /\ Leave(w)
    /\ UNCHANGED <<posted, waiting, done, history>>

\* The exception is caught and lost: the job is neither retried nor failed.
RetryUnreported(w) ==
    /\ work[w].step = "threw"
    /\ Leave(w)
    /\ UNCHANGED <<queue, history>>

\* A job is handed out again as if it had not stalled.
RecoverForFree(j) ==
    /\ job[j].state = "active"
    /\ job[j].lock = NoWorker
    /\ job' = [job EXCEPT ![j].state = "wait"]
    /\ waiting' = <<j>> \o waiting
    /\ UNCHANGED <<posted, done, work, history>>

\* A worker that lost the lock completes the job all the same.
CompleteUnowned(w) ==
    /\ work[w].step = "ok"
    /\ job' = [job EXCEPT ![work[w].job].state = "completed",
                          ![work[w].job].lock = NoWorker]
    /\ done' = <<work[w].job>>
    /\ Leave(w)
    /\ UNCHANGED <<posted, waiting, history>>

-----------------------------------------------------------------------------
(* EmailService: every method awaits queue.add and returns.               *)
Add(name) ==
    /\ posted < MaxJobs
    /\ posted' = posted + 1
    /\ job' = [job EXCEPT ![posted'].name = name, ![posted'].state = "wait"]
    /\ waiting' = Append(waiting, posted')
    /\ UNCHANGED <<done, work, history>>

(* A worker takes the next job; BullMQ gives it the job's lock.           *)
Take(w) ==
    /\ work[w] = Idle
    /\ waiting # <<>>
    /\ LET j == Head(waiting) IN
         /\ job' = [job EXCEPT ![j].state = "active", ![j].lock = w]
         /\ work' = [work EXCEPT ![w] = [job |-> j, step |-> "send"]]
         /\ taken' = [taken EXCEPT ![j] = @ + 1]
    /\ waiting' = Tail(waiting)
    /\ UNCHANGED <<posted, done, sent, faults>>

(* process: the handler of the job's name renders its template, which the *)
(* worker compiles once, and sends it; a name without a handler throws.   *)
Process(w) ==
    /\ work[w].step = "send"
    /\ LET j == work[w].job IN
       \/ /\ job[j].name = Unknown
          /\ Goto(w, "threw")
          /\ UNCHANGED <<sent, faults>>
       \/ /\ job[j].name # Unknown
          /\ \/ Goto(w, "ok") /\ Accepted(j) /\ UNCHANGED faults
             \/ Goto(w, "threw") /\ UNCHANGED <<sent, faults>>
             \/ Goto(w, "threw") /\ Accepted(j) /\ Fault(j)
    /\ UNCHANGED <<queue, taken>>

(* The handler returned: the job is completed and the oldest completed    *)
(* ones go.  A worker that lost the lock reports in vain.                 *)
Complete(w) ==
    /\ work[w].step = "ok"
    /\ IF Owns(w)
       THEN LET kept == Append(done, work[w].job)
                over == Len(kept) > KeepCompleted
            IN /\ done' = IF over THEN Tail(kept) ELSE kept
               /\ job' = [j \in Jobs |->
                    IF over /\ j = Head(kept) THEN Ended(job[j], "removed")
                    ELSE IF j = work[w].job THEN Ended(job[j], "completed")
                    ELSE job[j]]
       ELSE UNCHANGED <<job, done>>
    /\ Leave(w)
    /\ UNCHANGED <<posted, waiting, history>>

(* The handler threw, and the worker reports it.                          *)
Retry(w) ==
    /\ work[w].step = "threw"
    /\ IF Owns(w)
       THEN job' = [job EXCEPT ![work[w].job] = Attempted(job[work[w].job])]
       ELSE UNCHANGED job
    /\ Leave(w)
    /\ UNCHANGED <<posted, waiting, done, history>>

(* The backoff is over.                                                   *)
Promote(j) ==
    /\ job[j].state = "delayed"
    /\ job' = [job EXCEPT ![j].state = "wait"]
    /\ waiting' = Append(waiting, j)
    /\ UNCHANGED <<posted, done, work, history>>

(* A worker stops renewing its lock for longer than the lock lives, and   *)
(* goes on; or its process dies, and starts again.                        *)
LoseLock(w) ==
    /\ Owns(w)
    /\ job' = [job EXCEPT ![work[w].job].lock = NoWorker]
    /\ Fault(work[w].job)
    /\ UNCHANGED <<posted, waiting, done, work, sent, taken>>

Crash(w) ==
    /\ work[w] # Idle
    /\ Leave(w)
    /\ IF Owns(w) THEN /\ job' = [job EXCEPT ![work[w].job].lock = NoWorker]
                       /\ Fault(work[w].job)
                  ELSE UNCHANGED <<job, faults>>
    /\ UNCHANGED <<posted, waiting, done, sent, taken>>

(* The check for stalled jobs: back to the front of the list, or failed.  *)
Recover(j) ==
    /\ job[j].state = "active"
    /\ job[j].lock = NoWorker
    /\ IF job[j].stalls < MaxStalls
       THEN /\ job' = [job EXCEPT ![j].state = "wait", ![j].stalls = @ + 1]
            /\ waiting' = <<j>> \o waiting
       ELSE /\ job' = [job EXCEPT ![j].state = "failed", ![j].stalls = @ + 1]
            /\ UNCHANGED waiting
    /\ UNCHANGED <<posted, done, work, history>>

Next ==
    \/ \E name \in Names : Add(name)
    \/ \E w \in Workers : \/ Take(w) \/ Process(w) \/ Complete(w) \/ Retry(w)
                          \/ LoseLock(w) \/ Crash(w)
    \/ \E j \in Jobs : Promote(j) \/ Recover(j)

Spec == Init /\ [][Next]_vars

\* A running worker fetches, handles and reports; timers promote and recover.
Fairness ==
    /\ \A w \in Workers : /\ WF_vars(Take(w)) /\ WF_vars(Process(w))
                          /\ WF_vars(Complete(w) \/ Retry(w))
    /\ \A j \in Jobs : WF_vars(Promote(j)) /\ WF_vars(Recover(j))

FairSpec == Spec /\ Fairness

-----------------------------------------------------------------------------
\* What AuthService sees of the queue.
Outcome(k) ==
    CASE k.state \in {"completed", "removed"} -> "confirmed"
      [] k.state = "failed"                   -> "given up"
      [] OTHER                                -> "open"

O == INSTANCE Outbox WITH
       asked   <- 1..posted,
       mailed  <- {j \in Jobs : sent[j] > 0},
       outcome <- [j \in Jobs |-> Outcome(job[j])]

\* The queue keeps the promise of Outbox: a mail is confirmed only when the
\* provider took it, an outcome is final, and nothing is mailed unasked
\* (email.service.ts against email.processor.ts and queue.config.ts).
ImplementsOutbox == O!Spec

\* A completed job is a mail the provider accepted: the SDK reports a refusal
\* in its result, and every handler turns it into an exception
\* (email.processor.ts:82-90, 114-122, 146-154, 175-183, 206-214).
CompletedWasMailed ==
    \A j \in Jobs : job[j].state \in {"completed", "removed"} => sent[j] > 0

\* A mail leaves more than once only when an answer of the provider or the
\* worker's lock was lost, once more for each such loss.
ExtraMailsNeedFaults == \A j \in Jobs : sent[j] <= 1 + faults[j]

\* However the tries, the lost locks and the crashes fall, a job is started at
\* most Attempts + MaxStalls times, and it fails only after all its attempts or
\* after one stall too many (queue.config.ts:15-16).
TriesAreBounded ==
    \A j \in Jobs :
      /\ taken[j] <= Attempts + MaxStalls
      /\ job[j].state = "failed" =>
            taken[j] >= Attempts \/ job[j].stalls > MaxStalls

\* A mail overtakes an earlier one only after a try of the earlier one: the
\* first tries start in the order in which AuthService posted the jobs.
FirstTriesInOrder ==
    \A i, j \in Jobs : i < j /\ taken[j] > 0 => taken[i] > 0

\* No job is forgotten: one that has not come to its end is on the wait list, is
\* delayed, is run by the worker that holds its lock, or has no lock and is found
\* by the check for stalled jobs (queue.config.ts:14-19, email.processor.ts:38-62).
NoJobIsForgotten ==
    \A j \in 1..posted :
      \/ job[j].state \in {"completed", "removed", "failed", "delayed"}
      \/ job[j].state = "wait" /\ \E p \in DOMAIN waiting : waiting[p] = j
      \/ /\ job[j].state = "active"
         /\ \/ job[j].lock = NoWorker
            \/ \E w \in Workers : /\ job[j].lock = w /\ work[w].job = j
                                  /\ work[w].step # "idle"

\* The changes a posted job has before it, at most: each attempt and each stall
\* takes it through waiting, running and the end of its lock.
Phase(k) ==
    CASE k.state = "delayed"                        -> 4
      [] k.state = "wait"                           -> 3
      [] k.state = "active" /\ k.lock # NoWorker    -> 2
      [] k.state = "active" /\ k.lock = NoWorker    -> 1
      [] k.state = "completed"                      -> 1
      [] OTHER                                      -> 0
StepsLeft(k) == 4 * (Attempts - k.made) + 4 * (MaxStalls + 1 - k.stalls) + Phase(k)

\* Every change of a posted job uses up one of the changes it has left, whoever
\* makes it: workers that fail, stall or die cannot keep a job going round
\* (queue.config.ts:14-19).
JobsMoveOn ==
    [][\A j \in Jobs :
         job[j].state # "none" /\ job'[j] # job[j] =>
           0 <= StepsLeft(job'[j]) /\ StepsLeft(job'[j]) < StepsLeft(job[j])]_vars

\* Every mail posted is completed or failed in the end, whatever crashes: each
\* crash of its worker costs one of its stalls.
EveryMailSettles == O!EveryMailSettles
=============================================================================
