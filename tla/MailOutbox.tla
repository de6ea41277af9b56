---------------------------- MODULE MailOutbox ----------------------------
(***************************************************************************)
(* The mail outbox of the API: business operations insert a task with its  *)
(* message sealed in it; the dispatcher of each API process claims a task  *)
(* under a lease, hands the message to SMTP outside any transaction and    *)
(* acknowledges the result; administrators start a new round of a failed   *)
(* task or delete it.  Every attempt of a round leaves a row in            *)
(* auth_mail_task_attempts.                                                *)
(*                                                                         *)
(* Rows written before messages were sealed (legacy) carry no message.     *)
(* They are claimed while the reset, invitation or code they stand for is  *)
(* valid, but a server that seals its messages never sends them.           *)
(*                                                                         *)
(* Each transaction is one step; a task's id is its place in the claim     *)
(* order (created_at, id), and attempt_count supplies the lease tokens.    *)
(***************************************************************************)
EXTENDS Integers, FiniteSets, FiniteSetsExt

CONSTANTS
    Dispatchers,  \* API processes, one dispatcher each
    Retries,      \* the values auto_retry_count is edited to
    MaxTasks,     \* bound: rows of auth_mail_outbox
    MaxRounds,    \* bound: rounds of a task
    MaxAttempts,  \* bound: attempts of a round
    MaxFaults,    \* bound: crashed processes and failed transactions
    MaxLapses     \* bound: leases that run out while their holder is at work

Tasks  == 1..MaxTasks
Rounds == 1..MaxRounds
Attempts == 1..MaxAttempts

ASSUME OutboxConstants ==
    /\ MaxTasks \in Nat /\ MaxRounds \in Nat \ {0} /\ MaxAttempts \in Nat  \* the first round is 1
    /\ MaxFaults \in Nat /\ MaxLapses \in Nat
    /\ Retries \subseteq 0..100 /\ Retries # {}

VARIABLES
    \* auth_mail_outbox
    state,      \* open, or which of sent_at, canceled_at, dead_at is set
    token,      \* lease_token, 0 for NULL
    live,       \* lease_expires_at > clock_timestamp()
    available,  \* available_at <= clock_timestamp()
    attempt_count, round_number, round_attempt_count,
    kind,       \* sealed, or what a legacy row is: reset, credential (invitation, code), notice
    authority,  \* of a legacy row: valid, gone, or the row itself has expired
    attempts,   \* auth_mail_task_attempts: the outcome of each attempt of each round
    \* MailDispatcher.ProcessOnce, by process
    pc, job, outcome,
    \* history
    delivered,  \* the attempts whose message reached the SMTP server
    lost,       \* leases of the round that ran out before their result came
    faults, lapses

rows   == <<state, token, live, available, attempt_count, round_number, round_attempt_count,
            authority, attempts, lost>>
locals == <<pc, job, outcome>>
vars   == <<rows, kind, locals, delivered, faults, lapses>>

Idle     == [task |-> 0, token |-> 0, round |-> 0, attempt |-> 0]
Failures == {"temporary", "dependency", "permanent"}
Codes    == Failures \cup {"sent", "retry", "dead", "invalid", "none"}
Terminal == {"sent", "canceled", "dead"}
Exists   == {"open"} \cup Terminal

Legacy(t) == kind[t] # "sealed"

NoAttempts == [r \in Rounds |-> [n \in Attempts |-> "none"]]

-----------------------------------------------------------------------------
(***************************************************************************)
(* Tasks come and go.                                                      *)
(***************************************************************************)

\* EnqueueMailTask and the inserts of the account operations: a sealed message, round 1.
EnqueueMailTask(t) ==
    /\ state[t] = "absent" /\ \A u \in 1..(t - 1) : state[u] # "absent"
    /\ state' = [state EXCEPT ![t] = "open"]
    /\ UNCHANGED <<token, live, available, attempt_count, round_number, round_attempt_count,
                   authority, attempts, lost, kind, locals, delivered,
                   faults, lapses>>

\* An account operation supersedes what was still to be sent, and most often ends the
\* reset, invitation or code as well.  Only rows without a sealed message are withdrawn,
\* and whoever holds their lease loses it.
Supersede(t) ==
    /\ Legacy(t) /\ state[t] = "open"
    /\ state' = [state EXCEPT ![t] = "canceled"]
    /\ token' = [token EXCEPT ![t] = 0]
    /\ live' = [live EXCEPT ![t] = FALSE]
    /\ \E how \in {"valid", "gone"} :
         authority' = [authority EXCEPT ![t] = IF @ = "valid" THEN how ELSE @]
    /\ UNCHANGED <<available, attempt_count, round_number, round_attempt_count, attempts, lost,
                   kind, locals, delivered, faults, lapses>>

\* What a legacy row stands for is consumed or replaced, or its own expires_at passes.
AuthorityEnds(t, how) ==
    /\ Legacy(t) /\ authority[t] # "expired" /\ authority[t] # how
    /\ authority' = [authority EXCEPT ![t] = how]
    /\ UNCHANGED <<state, token, live, available, attempt_count, round_number,
                   round_attempt_count, attempts, lost, kind, locals,
                   delivered, faults, lapses>>

\* The lease that makes a task "sending" for an administrator.
LeaseActive(t) == state[t] = "open" /\ token[t] # 0 /\ live[t]

Unleased(t) == token[t] = 0 \/ ~live[t]

\* An administrator starts another round of a failed task.
RetryMailTask(t) ==
    /\ ~LeaseActive(t)
    /\ state[t] \in {"canceled", "dead"} /\ round_number[t] < MaxRounds
    /\ state' = [state EXCEPT ![t] = "open"]
    /\ available' = [available EXCEPT ![t] = TRUE]
    /\ token' = [token EXCEPT ![t] = 0]
    /\ live' = [live EXCEPT ![t] = FALSE]
    /\ round_number' = [round_number EXCEPT ![t] = @ + 1]
    /\ round_attempt_count' = [round_attempt_count EXCEPT ![t] = 0]
    /\ lost' = [lost EXCEPT ![t] = 0]
    /\ UNCHANGED <<attempt_count, authority, attempts, kind, locals,
                   delivered, faults, lapses>>

\* The row goes, and its attempts with it (ON DELETE CASCADE).
Remove(T) ==
    LET Cleared(column, blank) == [t \in Tasks |-> IF t \in T THEN blank ELSE column[t]] IN
    /\ state' = Cleared(state, "deleted")
    /\ token' = Cleared(token, 0) /\ live' = Cleared(live, FALSE)
    /\ available' = Cleared(available, TRUE)
    /\ attempt_count' = Cleared(attempt_count, 0)
    /\ round_number' = Cleared(round_number, 1)
    /\ round_attempt_count' = Cleared(round_attempt_count, 0)
    /\ authority' = Cleared(authority, "expired")
    /\ attempts' = Cleared(attempts, NoAttempts)
    /\ lost' = Cleared(lost, 0)

DeleteMailTask(t) ==
    /\ state[t] \in Exists /\ ~LeaseActive(t)
    /\ Remove({t})
    /\ UNCHANGED <<kind, locals, delivered, faults, lapses>>

-----------------------------------------------------------------------------
(***************************************************************************)
(* ProcessOnce: sweep, clean up, claim, send, acknowledge.                 *)
(***************************************************************************)

Goto(d, p) == pc' = [pc EXCEPT ![d] = p]

\* The latest attempt of a round whose result never came is closed as failed.
Unrecorded(t) ==
    /\ state[t] = "open" /\ round_attempt_count[t] > 0 /\ Unleased(t)
    /\ attempts[t][round_number[t]][round_attempt_count[t]] = "none"

CloseAttempt(t) ==
    [attempts[t] EXCEPT ![round_number[t]][round_attempt_count[t]] = "failed"]

\* Legacy rows that have expired, and resets that were superseded.
Discardable(t) ==
    /\ Legacy(t) /\ state[t] = "open" /\ Unleased(t)
    /\ authority[t] = "expired" \/ (kind[t] = "reset" /\ authority[t] # "valid")

SweepMail(d) ==
    /\ pc[d] = "sweep" /\ Goto(d, "cleanup")
    /\ attempts' = [t \in Tasks |-> IF Unrecorded(t) THEN CloseAttempt(t) ELSE attempts[t]]
    /\ state' = [t \in Tasks |-> IF Discardable(t) THEN "canceled" ELSE state[t]]
    /\ token' = [t \in Tasks |-> IF Discardable(t) THEN 0 ELSE token[t]]
    /\ live' = [t \in Tasks |-> ~Discardable(t) /\ live[t]]
    /\ UNCHANGED <<available, attempt_count, round_number, round_attempt_count, authority, lost,
                   kind, job, outcome, delivered, faults, lapses>>

\* Whichever finished tasks are older than retention_days.
CleanupMail(d) ==
    /\ pc[d] = "cleanup" /\ Goto(d, "claim")
    /\ \E old \in SUBSET {t \in Tasks : state[t] \in Terminal /\ Unleased(t)} : Remove(old)
    /\ UNCHANGED <<kind, job, outcome, delivered, faults, lapses>>

\* Mutant: a lease that ran out still keeps the others away.
ClaimableUnclaimed(t) ==
    /\ state[t] = "open" /\ available[t] /\ token[t] = 0
    /\ Legacy(t) => authority[t] = "valid" \/ (authority[t] = "gone" /\ kind[t] = "notice")

Claimable(t) ==
    /\ state[t] = "open" /\ available[t] /\ Unleased(t)
    /\ Legacy(t) => authority[t] = "valid" \/ (authority[t] = "gone" /\ kind[t] = "notice")

\* Mutant: an attempt whose result never came is left out of the history.
NothingToClose(t) == attempts[t]

\* Mutant: every attempt of the round is closed as failed.
CloseEvery(t) ==
    [attempts[t] EXCEPT ![round_number[t]] =
       [n \in Attempts |-> IF n <= round_attempt_count[t] THEN "failed" ELSE @[n]]]

\* The recovery in ClaimMail: attempts of the round that have no row are closed as failed.
CloseMissing(t) ==
    LET recorded == {n \in Attempts : attempts[t][round_number[t]][n] # "none"}
        last == IF recorded = {} THEN 0 ELSE Max(recorded)
    IN  [attempts[t] EXCEPT ![round_number[t]] =
           [n \in Attempts |-> IF last < n /\ n <= round_attempt_count[t] THEN "failed" ELSE @[n]]]

ClaimMail(d) ==
    /\ pc[d] = "claim"
    /\ LET due == {t \in Tasks : Claimable(t)} IN
       \/ due = {} /\ Goto(d, "sweep") /\ UNCHANGED <<rows, job>>
       \/ /\ due # {}
          /\ LET t == Min(due)
                 n == round_attempt_count[t] + 1
             IN /\ n <= MaxAttempts
                /\ attempts' = [attempts EXCEPT ![t] = CloseMissing(t)]
                /\ attempt_count' = [attempt_count EXCEPT ![t] = @ + 1]
                /\ round_attempt_count' = [round_attempt_count EXCEPT ![t] = n]
                /\ token' = [token EXCEPT ![t] = attempt_count[t] + 1]
                /\ live' = [live EXCEPT ![t] = TRUE]
                /\ lost' = [lost EXCEPT ![t] = @ + (IF token[t] # 0 THEN 1 ELSE 0)]
                /\ job' = [job EXCEPT ![d] = [task |-> t, token |-> attempt_count[t] + 1,
                                              round |-> round_number[t], attempt |-> n]]
                /\ Goto(d, "send")
                /\ UNCHANGED <<state, available, round_number, authority>>
    /\ UNCHANGED <<kind, outcome, delivered, faults, lapses>>

\* Time passes: a lease runs out, at once if nobody holds it any more; a retry falls due.
LeaseExpires(t) ==
    /\ token[t] # 0 /\ live[t]
    /\ LET held == \E d \in Dispatchers : job[d].task = t /\ job[d].token = token[t] IN
       /\ held => lapses < MaxLapses
       /\ lapses' = lapses + (IF held THEN 1 ELSE 0)
    /\ live' = [live EXCEPT ![t] = FALSE]
    /\ UNCHANGED <<state, token, available, attempt_count, round_number, round_attempt_count,
                   authority, attempts, lost, kind, locals, delivered, faults>>

BackoffEnds(t) ==
    /\ ~available[t]
    /\ available' = [available EXCEPT ![t] = TRUE]
    /\ UNCHANGED <<state, token, live, attempt_count, round_number, round_attempt_count,
                   authority, attempts, lost, kind, locals, delivered, faults,
                   lapses>>

Attempt(j) == <<j.task, j.round, j.attempt>>

\* compose, resolveMailer and Send.  A reply that is lost looks like a temporary failure
\* of a message that has arrived; a legacy row has no message to compose.
Send(d) ==
    /\ pc[d] = "send"
    /\ \E o \in Failures \cup {"sent", "invalid"}, arrived \in BOOLEAN :
         /\ Legacy(job[d].task) => o = "dependency"
         /\ o = "sent" => arrived
         /\ o \in {"dependency", "permanent", "invalid"} => ~arrived
         /\ outcome' = [outcome EXCEPT ![d] = o]
         /\ delivered' = IF arrived THEN delivered \cup {Attempt(job[d])} ELSE delivered
         /\ Goto(d, IF o \in Failures THEN "policy" ELSE "ack")
    /\ UNCHANGED <<rows, kind, job, faults, lapses>>

\* Mutant: the first attempt is not counted against the budget.
WithinExtraAttempt(d, auto_retry_count) == job[d].attempt <= auto_retry_count + 1

\* maxAttempts is the retry count plus the first attempt.
WithinBudget(d, auto_retry_count) == job[d].attempt < auto_retry_count + 1

\* handleDeliveryFailure reads the retry policy as it is by now; a failed read ends the
\* round.
DecideRetry(d) ==
    /\ pc[d] = "policy" /\ Goto(d, "ack")
    /\ \/ /\ faults' = faults
          /\ \E auto_retry_count \in Retries :
               outcome' = [outcome EXCEPT ![d] =
                 IF /\ @ \in {"temporary", "dependency"}
                    /\ WithinBudget(d, auto_retry_count)
                    /\ Legacy(job[d].task) => authority[job[d].task] # "expired"
                 THEN "retry" ELSE "dead"]
       \/ /\ faults < MaxFaults /\ faults' = faults + 1
          /\ outcome' = [outcome EXCEPT ![d] = "dead"]
    /\ UNCHANGED <<rows, kind, job, delivered, lapses>>

\* Mutant: the diagnostic is stored as the outcome.
ResultCode(d) == outcome[d]

Result(d) == IF outcome[d] = "sent" THEN "sent" ELSE "failed"

\* Mutant: the task is found by its id alone.
OwnsById(d) == state[job[d].task] = "open"

\* The WHERE of every acknowledgement: an open task under this lease, expired or not.
Owns(d) == state[job[d].task] = "open" /\ token[job[d].task] = job[d].token

Done(d) ==
    /\ Goto(d, "sweep")
    /\ job' = [job EXCEPT ![d] = Idle]
    /\ outcome' = [outcome EXCEPT ![d] = "none"]

\* MarkMailSent, RetryMail, DeadLetterMail, DiscardMail: the task and its latest attempt in
\* one transaction.  Without the lease only the attempt is left to record.
Acknowledge(d) ==
    LET t == job[d].task IN
    /\ pc[d] = "ack"
    /\ \/ /\ Owns(d) /\ Done(d)
          /\ state' = [state EXCEPT ![t] = CASE outcome[d] = "sent"    -> "sent"
                                             [] outcome[d] = "retry"   -> "open"
                                             [] outcome[d] = "dead"    -> "dead"
                                             [] outcome[d] = "invalid" -> "canceled"]
          /\ available' = [available EXCEPT ![t] = @ /\ outcome[d] # "retry"]
          /\ token' = [token EXCEPT ![t] = 0]
          /\ live' = [live EXCEPT ![t] = FALSE]
          /\ attempts' = [attempts EXCEPT ![t][round_number[t]][round_attempt_count[t]] = Result(d)]
          /\ UNCHANGED <<attempt_count, round_number, round_attempt_count, authority, lost>>
       \/ /\ ~Owns(d) /\ Goto(d, "record")
          /\ UNCHANGED <<rows, job, outcome>>
    /\ UNCHANGED <<kind, delivered, faults, lapses>>

\* RecordMailAttempt: a late result, best effort; the foreign key refuses a deleted task.
RecordMailAttempt(d) ==
    LET t == job[d].task IN
    /\ pc[d] = "record" /\ Done(d)
    /\ attempts' = IF state[t] \in Exists
                   THEN [attempts EXCEPT ![t][job[d].round][job[d].attempt] = Result(d)]
                   ELSE attempts
    /\ UNCHANGED <<state, token, live, available, attempt_count, round_number,
                   round_attempt_count, authority, lost, kind, delivered,
                   faults, lapses>>

\* The process dies, or a transaction of ProcessOnce fails and Run starts over.
Fails(d) ==
    /\ faults < MaxFaults /\ faults' = faults + 1
    /\ Done(d)
    /\ UNCHANGED <<rows, kind, delivered, lapses>>

-----------------------------------------------------------------------------

Init ==
    /\ kind \in [Tasks -> {"sealed", "reset", "credential", "notice"}]
    /\ state = [t \in Tasks |-> IF Legacy(t) THEN "open" ELSE "absent"]
    /\ token = [t \in Tasks |-> 0]
    /\ live = [t \in Tasks |-> FALSE]
    /\ available = [t \in Tasks |-> TRUE]
    /\ attempt_count = [t \in Tasks |-> 0]
    /\ round_number = [t \in Tasks |-> 1]
    /\ round_attempt_count = [t \in Tasks |-> 0]
    /\ authority = [t \in Tasks |-> "valid"]
    /\ attempts = [t \in Tasks |-> NoAttempts]
    /\ pc = [d \in Dispatchers |-> "sweep"]
    /\ job = [d \in Dispatchers |-> Idle]
    /\ outcome = [d \in Dispatchers |-> "none"]
    /\ delivered = {}
    /\ lost = [t \in Tasks |-> 0]
    /\ faults = 0 /\ lapses = 0

ProcessOnce(d) ==
    \/ SweepMail(d) \/ CleanupMail(d) \/ ClaimMail(d) \/ Send(d)
    \/ DecideRetry(d) \/ Acknowledge(d) \/ RecordMailAttempt(d)

Next ==
    \/ \E t \in Tasks : \/ EnqueueMailTask(t) \/ Supersede(t)
                        \/ \E how \in {"gone", "expired"} : AuthorityEnds(t, how)
                        \/ RetryMailTask(t) \/ DeleteMailTask(t)
                        \/ LeaseExpires(t) \/ BackoffEnds(t)
    \/ \E d \in Dispatchers : ProcessOnce(d) \/ Fails(d)

Spec == Init /\ [][Next]_vars

\* The dispatchers run; time passes.
Fairness ==
    /\ \A d \in Dispatchers : WF_vars(ProcessOnce(d))
    /\ \A t \in Tasks : /\ WF_vars(LeaseExpires(t)) /\ WF_vars(BackoffEnds(t))
                        /\ WF_vars(AuthorityEnds(t, "expired"))

LiveSpec == Spec /\ Fairness

-----------------------------------------------------------------------------
(***************************************************************************)
(* Correctness.                                                            *)
(***************************************************************************)

Jobs == [task : Tasks, token : Nat, round : Rounds, attempt : Attempts]

\* Columns and local variables hold values of their types; the outcome at an
\* acknowledgement is one that an acknowledgement exists for.
TypeOK ==
    /\ state \in [Tasks -> Exists \cup {"absent", "deleted"}]
    /\ token \in [Tasks -> Nat] /\ live \in [Tasks -> BOOLEAN]
    /\ available \in [Tasks -> BOOLEAN]
    /\ attempt_count \in [Tasks -> Nat] /\ round_attempt_count \in [Tasks -> 0..MaxAttempts]
    /\ round_number \in [Tasks -> 1..(MaxRounds + 1)]
    /\ authority \in [Tasks -> {"valid", "gone", "expired"}]
    /\ attempts \in [Tasks -> [Rounds -> [Attempts -> {"none", "failed", "sent"}]]]
    /\ pc \in [Dispatchers -> {"sweep", "cleanup", "claim", "send", "policy", "ack", "record"}]
    /\ job \in [Dispatchers -> Jobs \cup {Idle}]
    /\ outcome \in [Dispatchers -> Codes]
    /\ \A d \in Dispatchers : pc[d] \in {"ack", "record"} =>
         outcome[d] \in {"sent", "retry", "dead", "invalid"}
    /\ delivered \subseteq Tasks \X Rounds \X Attempts
    /\ lost \in [Tasks -> Nat] /\ faults \in Nat /\ lapses \in Nat

Recorded(t, r, n) == attempts[t][r][n] # "none"

\* Counters never run ahead of the history: every attempt of a sealed task has its row,
\* except the one under the current lease, whatever crashed or came late.
HistoryComplete ==
    \A t \in Tasks : ~Legacy(t) /\ state[t] \in Exists =>
      /\ \A n \in 1..(round_attempt_count[t] - 1) : Recorded(t, round_number[t], n)
      /\ token[t] = 0 /\ round_attempt_count[t] > 0 =>
           Recorded(t, round_number[t], round_attempt_count[t])
      /\ \A r \in 1..(round_number[t] - 1) : Recorded(t, r, 1)

\* What is shown as sent was sent in that very attempt of that round, and a task is only
\* marked sent because of an attempt of its last round.
SentMeansDelivered ==
    \A t \in Tasks :
      /\ \A r \in Rounds, n \in Attempts : attempts[t][r][n] = "sent" =>
           <<t, r, n>> \in delivered
      /\ state[t] = "sent" =>
           attempts[t][round_number[t]][round_attempt_count[t]] = "sent"

\* A round exceeds the retry budget only by the attempts that were lost with their lease.
BudgetHolds ==
    \A t \in Tasks : round_attempt_count[t] <= Max(Retries) + 1 + lost[t]

\* What the attempts of a task say is true: a delivery happened, and lost ones alone exceed
\* the budget.
AttemptsTrue == SentMeansDelivered /\ BudgetHolds

\* A recorded delivery stays recorded, whoever sweeps, claims or reports later; a finished
\* task is reopened by a new round only, and a deleted one never.
ResultsStay ==
    [][\A t \in Tasks :
         /\ state[t] \in Terminal /\ state'[t] = "open" => round_number'[t] = round_number[t] + 1
         /\ state[t] = "sent" => state'[t] \in {"sent", "deleted"}
         /\ state[t] = "deleted" => state'[t] = "deleted" /\ attempts'[t] = NoAttempts
         /\ state'[t] # "deleted" => \A r \in Rounds, n \in Attempts :
              attempts[t][r][n] = "sent" => attempts'[t][r][n] = "sent"]_vars

\* Every open task is sent, given up or deleted in the end, although processes crash,
\* leases run out and the settings change.
TasksEnd == \A t \in Tasks : state[t] = "open" ~> state[t] # "open"

\* Every task ends, and a recorded result or an ended round stays what it was.
ResultsFinal == TasksEnd /\ ResultsStay
=============================================================================
