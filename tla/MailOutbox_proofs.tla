------------------------- MODULE MailOutbox_proofs -------------------------
(***************************************************************************)
(* What the history of a mail task says is complete and true, and what it   *)
(* has once said stays, for any number of processes, tasks, rounds and       *)
(* attempts.  The proofs rest on what tells the processes apart that hold    *)
(* the same task one after the other: each has an attempt of its own, and    *)
(* the one whose lease is in the row has the latest.                         *)
(***************************************************************************)
EXTENDS MailOutbox, FiniteSetTheorems, WellFoundedInduction, TLAPS

Working(d) == pc[d] \in {"send", "policy", "ack", "record"}

Shape ==
    /\ kind \in [Tasks -> {"sealed", "reset", "credential", "notice"}]
    /\ TypeOK
    /\ round_number \in [Tasks -> Rounds]
    /\ \A d \in Dispatchers : IF Working(d) THEN job[d] \in Jobs ELSE job[d] = Idle

\* The attempts of a task that have been given out.
Given(t, r, n) == r < round_number[t] \/ (r = round_number[t] /\ n <= round_attempt_count[t])

\* A row: a task that is not there has no history, only an open task has a lease, and only
\* attempts that were given out are in the history.
RowInOrder(t) ==
    /\ state[t] \in {"absent", "deleted"} =>
         token[t] = 0 /\ round_attempt_count[t] = 0 /\ round_number[t] = 1 /\ attempts[t] = NoAttempts
    /\ token[t] # 0 => state[t] = "open" /\ round_attempt_count[t] >= 1
    /\ ~Legacy(t) /\ state[t] \in Terminal => round_attempt_count[t] >= 1
    /\ \A r \in Rounds, n \in Attempts : Recorded(t, r, n) => Given(t, r, n)

\* The row is still there that a process works on.
Live(d) == Working(d) /\ state[job[d].task] \in Exists

\* A process holds an attempt that was given out and is not recorded as sent; if its lease
\* is the one in the row, the latest.
JobInOrder(d) ==
    Live(d) =>
      /\ job[d].token >= 1 /\ job[d].token <= attempt_count[job[d].task]
      /\ Given(job[d].task, job[d].round, job[d].attempt)
      /\ token[job[d].task] = job[d].token =>
           job[d].round = round_number[job[d].task] /\ job[d].attempt = round_attempt_count[job[d].task]
      /\ attempts[job[d].task][job[d].round][job[d].attempt] # "sent"

OutcomeTrue(d) ==
    Working(d) => /\ state[job[d].task] # "absent"
                  /\ outcome[d] = "sent" => Attempt(job[d]) \in delivered
                  /\ outcome[d] = "retry" => job[d].attempt <= Max(Retries)

\* No two processes hold the same attempt.
Apart(d, e) == Live(d) /\ Live(e) /\ d # e => Attempt(job[d]) # Attempt(job[e])

\* What the row says of its attempts.
HistoryOf(t) ==
    ~Legacy(t) /\ state[t] \in Exists =>
      /\ \A n \in 1..(round_attempt_count[t] - 1) : Recorded(t, round_number[t], n)
      /\ token[t] = 0 /\ round_attempt_count[t] > 0 =>
           Recorded(t, round_number[t], round_attempt_count[t])
      /\ \A r \in 1..(round_number[t] - 1) : Recorded(t, r, 1)

SentOf(t) ==
    /\ \A r \in Rounds, n \in Attempts : attempts[t][r][n] = "sent" => <<t, r, n>> \in delivered
    /\ state[t] = "sent" => /\ round_attempt_count[t] >= 1
                            /\ attempts[t][round_number[t]][round_attempt_count[t]] = "sent"

\* A lease not given back is paid for when the next one is taken.
BudgetOf(t) ==
    /\ round_attempt_count[t] <= Max(Retries) + 1 + lost[t]
    /\ state[t] = "open" /\ token[t] = 0 => round_attempt_count[t] <= Max(Retries) + lost[t]

RowsHold == \A t \in Tasks : RowInOrder(t) /\ HistoryOf(t) /\ SentOf(t) /\ BudgetOf(t)
JobsHold == \A d \in Dispatchers : JobInOrder(d) /\ OutcomeTrue(d) /\ \A e \in Dispatchers : Apart(d, e)

MailInv == Shape /\ RowsHold /\ JobsHold

-----------------------------------------------------------------------------
(* Types.                                                                   *)

Marks == {"none", "failed", "sent"}
Histories == [Tasks -> [Rounds -> [Attempts -> Marks]]]

\* One attempt of one round is written.
Written(t, r, n, x) == [attempts EXCEPT ![t][r][n] = x]

LEMMA AttemptWritten ==
  ASSUME attempts \in Histories, NEW t \in Tasks, NEW r \in Rounds, NEW n \in Attempts, NEW x \in Marks
  PROVE  /\ Written(t, r, n, x) \in Histories /\ Written(t, r, n, x)[t][r][n] = x
         /\ \A u \in Tasks : u # t => Written(t, r, n, x)[u] = attempts[u]
         /\ \A q \in Rounds, m \in Attempts : q # r \/ m # n => Written(t, r, n, x)[t][q][m] = attempts[t][q][m]
  <1> DEFINE row == [attempts[t] EXCEPT ![r] = [attempts[t][r] EXCEPT ![n] = x]]
  <1>1. attempts[t] \in [Rounds -> [Attempts -> Marks]] /\ attempts[t][r] \in [Attempts -> Marks]
    BY DEF Histories
  <1>2. row \in [Rounds -> [Attempts -> Marks]] /\ row[r][n] = x
        /\ \A q \in Rounds, m \in Attempts : q # r \/ m # n => row[q][m] = attempts[t][q][m]
    BY <1>1
  <1>3. Written(t, r, n, x) = [attempts EXCEPT ![t] = row]
    BY <1>1 DEF Histories, Written
  <1> HIDE DEF row
  <1> QED BY <1>2, <1>3 DEF Histories

\* The row of an attempt that is closed.
LEMMA AttemptClosed ==
  ASSUME Shape, NEW t \in Tasks, round_attempt_count[t] > 0
  PROVE  /\ CloseAttempt(t) \in [Rounds -> [Attempts -> Marks]]
         /\ CloseAttempt(t)[round_number[t]][round_attempt_count[t]] = "failed"
         /\ \A q \in Rounds, m \in Attempts :
              q # round_number[t] \/ m # round_attempt_count[t] => CloseAttempt(t)[q][m] = attempts[t][q][m]
  <1>1. /\ attempts[t] \in [Rounds -> [Attempts -> Marks]] /\ round_number[t] \in Rounds
        /\ round_attempt_count[t] \in Attempts
    BY OutboxConstants DEF Shape, TypeOK, Marks, Attempts
  <1> QED BY <1>1 DEF CloseAttempt, Marks

\* What recovery closes: nothing that is recorded.
LEMMA MissingClosed ==
  ASSUME Shape, NEW t \in Tasks
  PROVE  /\ CloseMissing(t) \in [Rounds -> [Attempts -> Marks]]
         /\ \A q \in Rounds, m \in Attempts :
              \/ CloseMissing(t)[q][m] = attempts[t][q][m]
              \/ /\ q = round_number[t] /\ m <= round_attempt_count[t]
                 /\ CloseMissing(t)[q][m] = "failed"
  <1> DEFINE r == round_number[t]
             recorded == {n \in Attempts : attempts[t][r][n] # "none"}
             last == IF recorded = {} THEN 0 ELSE Max(recorded)
             closed == [n \in Attempts |-> IF last < n /\ n <= round_attempt_count[t]
                                           THEN "failed" ELSE attempts[t][r][n]]
  <1>1. attempts[t] \in [Rounds -> [Attempts -> Marks]] /\ r \in Rounds
    BY DEF Shape, TypeOK, Marks
  <1>2. CloseMissing(t) = [attempts[t] EXCEPT ![r] = closed]
    BY DEF CloseMissing
  <1> HIDE DEF last
  <1>3. closed \in [Attempts -> Marks] /\ \A m \in Attempts :
          closed[m] = attempts[t][r][m] \/ (m <= round_attempt_count[t] /\ closed[m] = "failed")
    BY <1>1 DEF Marks
  <1> HIDE DEF closed
  <1> QED BY <1>1, <1>2, <1>3

LEMMA ShapeStart ==
  ASSUME Init
  PROVE  Shape
  <1>1. 1 \in Rounds /\ 0 \in 0..MaxAttempts
    BY OutboxConstants DEF Rounds
  <1>2. attempts \in [Tasks -> [Rounds -> [Attempts -> {"none", "failed", "sent"}]]]
    BY DEF Init, NoAttempts
  <1>4. /\ state \in [Tasks -> Exists \cup {"absent", "deleted"}]
        /\ token \in [Tasks -> Nat] /\ live \in [Tasks -> BOOLEAN] /\ available \in [Tasks -> BOOLEAN]
        /\ authority \in [Tasks -> {"valid", "gone", "expired"}]
    BY DEF Init, Exists, Terminal
  <1>5. /\ attempt_count \in [Tasks -> Nat] /\ round_attempt_count \in [Tasks -> 0..MaxAttempts]
        /\ round_number \in [Tasks -> 1..(MaxRounds + 1)] /\ lost \in [Tasks -> Nat] /\ faults \in Nat /\ lapses \in Nat
    BY <1>1, OutboxConstants DEF Init, Rounds
  <1>6. /\ pc \in [Dispatchers -> {"sweep", "cleanup", "claim", "send", "policy", "ack", "record"}]
        /\ job \in [Dispatchers -> Jobs \cup {Idle}] /\ outcome \in [Dispatchers -> Codes]
        /\ \A d \in Dispatchers : pc[d] = "sweep"
        /\ delivered \subseteq Tasks \X Rounds \X Attempts
    BY DEF Init, Codes
  <1>3. TypeOK
    BY <1>2, <1>4, <1>5, <1>6 DEF TypeOK
  <1>7. round_number \in [Tasks -> Rounds]
    BY <1>1 DEF Init
  <1> QED BY <1>3, <1>6, <1>7 DEF Init, Shape, Working

\* Removing rows.
LEMMA Removed ==
  ASSUME Shape, NEW T \in SUBSET Tasks, Remove(T)
  PROVE  \A t \in Tasks :
           IF t \in T
           THEN /\ state'[t] = "deleted" /\ token'[t] = 0 /\ ~live'[t] /\ available'[t] /\ attempt_count'[t] = 0
                /\ round_number'[t] = 1 /\ round_attempt_count'[t] = 0 /\ authority'[t] = "expired"
                /\ attempts'[t] = NoAttempts /\ lost'[t] = 0
           ELSE /\ state'[t] = state[t] /\ token'[t] = token[t] /\ live'[t] = live[t]
                /\ available'[t] = available[t] /\ attempt_count'[t] = attempt_count[t]
                /\ round_number'[t] = round_number[t] /\ round_attempt_count'[t] = round_attempt_count[t]
                /\ authority'[t] = authority[t] /\ attempts'[t] = attempts[t] /\ lost'[t] = lost[t]
  BY DEF Remove

LEMMA RemovedShape ==
  ASSUME Shape, NEW T \in SUBSET Tasks, Remove(T), UNCHANGED <<kind, outcome, job, delivered, faults, lapses>>,
         pc' \in [Dispatchers -> {"sweep", "cleanup", "claim", "send", "policy", "ack", "record"}],
         \A d \in Dispatchers : pc'[d] = pc[d] \/ (pc[d] = "cleanup" /\ pc'[d] = "claim")
  PROVE  Shape'
  <1>1. 1 \in Rounds /\ 0 \in 0..MaxAttempts /\ NoAttempts \in [Rounds -> [Attempts -> {"none", "failed", "sent"}]]
    BY OutboxConstants DEF Rounds, NoAttempts
  <1>2. /\ state' \in [Tasks -> Exists \cup {"absent", "deleted"}]
        /\ token' \in [Tasks -> Nat] /\ live' \in [Tasks -> BOOLEAN]
        /\ available' \in [Tasks -> BOOLEAN]
    BY DEF Shape, TypeOK, Remove
  <1>3. /\ attempt_count' \in [Tasks -> Nat] /\ round_attempt_count' \in [Tasks -> 0..MaxAttempts]
        /\ round_number' \in [Tasks -> Rounds] /\ lost' \in [Tasks -> Nat]
    BY <1>1 DEF Shape, TypeOK, Remove
  <1>4. /\ authority' \in [Tasks -> {"valid", "gone", "expired"}]
        /\ attempts' \in [Tasks -> [Rounds -> [Attempts -> {"none", "failed", "sent"}]]]
    BY <1>1 DEF Shape, TypeOK, Remove
  <1>5. round_number' \in [Tasks -> 1..(MaxRounds + 1)]
    BY <1>3, OutboxConstants DEF Rounds
  <1> QED BY <1>2, <1>3, <1>4, <1>5 DEF Shape, TypeOK, Working

\* A process goes back to the start of its loop.
LEMMA DoneShape ==
  ASSUME Shape, NEW d \in Dispatchers, Done(d)
  PROVE  /\ pc' \in [Dispatchers -> {"sweep", "cleanup", "claim", "send", "policy", "ack", "record"}]
         /\ job' \in [Dispatchers -> Jobs \cup {Idle}] /\ outcome' \in [Dispatchers -> Codes]
         /\ pc'[d] = "sweep" /\ job'[d] = Idle /\ outcome'[d] = "none"
         /\ \A e \in Dispatchers \ {d} : pc'[e] = pc[e] /\ job'[e] = job[e] /\ outcome'[e] = outcome[e]
  BY DEF Shape, TypeOK, Done, Goto, Codes

LEMMA TaskShape ==
  ASSUME Shape, NEW t \in Tasks,
         \/ EnqueueMailTask(t) \/ Supersede(t) \/ (\E how \in {"gone", "expired"} : AuthorityEnds(t, how))
         \/ RetryMailTask(t) \/ LeaseExpires(t) \/ BackoffEnds(t)
  PROVE  Shape'
  <1>1. UNCHANGED <<kind, pc, job, outcome, delivered, attempts, attempt_count>>
    BY DEF EnqueueMailTask, Supersede, AuthorityEnds, RetryMailTask, LeaseExpires, BackoffEnds, locals
  <1>2. /\ state' \in [Tasks -> Exists \cup {"absent", "deleted"}]
        /\ token' \in [Tasks -> Nat] /\ live' \in [Tasks -> BOOLEAN] /\ available' \in [Tasks -> BOOLEAN]
    <2>1. \/ UNCHANGED state \/ state' = [state EXCEPT ![t] = "open"] \/ state' = [state EXCEPT ![t] = "canceled"]
      BY DEF EnqueueMailTask, Supersede, AuthorityEnds, RetryMailTask, LeaseExpires, BackoffEnds
    <2>2. UNCHANGED token \/ token' = [token EXCEPT ![t] = 0]
      BY DEF EnqueueMailTask, Supersede, AuthorityEnds, RetryMailTask, LeaseExpires, BackoffEnds
    <2>3. UNCHANGED live \/ live' = [live EXCEPT ![t] = FALSE]
      BY DEF EnqueueMailTask, Supersede, AuthorityEnds, RetryMailTask, LeaseExpires, BackoffEnds
    <2>4. UNCHANGED available \/ available' = [available EXCEPT ![t] = TRUE]
      BY DEF EnqueueMailTask, Supersede, AuthorityEnds, RetryMailTask, LeaseExpires, BackoffEnds
    <2>5. state' \in [Tasks -> Exists \cup {"absent", "deleted"}]
      BY <2>1 DEF Shape, TypeOK, Exists, Terminal
    <2>6. token' \in [Tasks -> Nat]
      <3>1. token \in [Tasks -> Nat]
        BY DEF Shape, TypeOK
      <3> QED BY <2>2, <3>1
    <2>7. live' \in [Tasks -> BOOLEAN] /\ available' \in [Tasks -> BOOLEAN]
      BY <2>3, <2>4 DEF Shape, TypeOK
    <2> QED BY <2>5, <2>6, <2>7
  <1>3. authority' \in [Tasks -> {"valid", "gone", "expired"}]
    <2>1. UNCHANGED authority \/ \E how \in {"valid", "gone", "expired"} : authority' = [authority EXCEPT ![t] = how]
      <3>1. CASE Supersede(t)
        <4>1. PICK how \in {"valid", "gone"} :
                authority' = [authority EXCEPT ![t] = IF authority[t] = "valid" THEN how ELSE authority[t]]
          BY <3>1 DEF Supersede
        <4>2. authority[t] \in {"valid", "gone", "expired"}
          BY DEF Shape, TypeOK
        <4> QED BY <4>1, <4>2
      <3>2. CASE \E how \in {"gone", "expired"} : AuthorityEnds(t, how)
        BY <3>2 DEF AuthorityEnds
      <3> QED BY <3>1, <3>2 DEF EnqueueMailTask, RetryMailTask, LeaseExpires, BackoffEnds
    <2> QED BY <2>1 DEF Shape, TypeOK
  <1>4. /\ round_attempt_count' \in [Tasks -> 0..MaxAttempts] /\ round_number' \in [Tasks -> Rounds]
        /\ lost' \in [Tasks -> Nat]
    <2>1. CASE RetryMailTask(t)
      <3>1. round_number[t] + 1 \in Rounds /\ 0 \in 0..MaxAttempts
        BY <2>1, OutboxConstants DEF RetryMailTask, Shape, Rounds
      <3> QED BY <2>1, <3>1 DEF RetryMailTask, Shape, TypeOK
    <2>2. CASE ~RetryMailTask(t)
      BY <2>2 DEF Shape, TypeOK, EnqueueMailTask, Supersede, AuthorityEnds, LeaseExpires, BackoffEnds
    <2> QED BY <2>1, <2>2
  <1>5. faults' \in Nat /\ lapses' \in Nat
    <2>1. CASE LeaseExpires(t)
      BY <2>1 DEF LeaseExpires, Shape, TypeOK
    <2>2. CASE ~LeaseExpires(t)
      BY <2>2 DEF Shape, TypeOK, EnqueueMailTask, Supersede, AuthorityEnds, RetryMailTask, BackoffEnds
    <2> QED BY <2>1, <2>2
  <1>6. round_number' \in [Tasks -> 1..(MaxRounds + 1)]
    BY <1>4, OutboxConstants DEF Rounds
  <1> QED BY <1>1, <1>2, <1>3, <1>4, <1>5, <1>6 DEF Shape, TypeOK, Working

LEMMA SweepShape ==
  ASSUME Shape, NEW d \in Dispatchers, SweepMail(d)
  PROVE  Shape'
  <1>1. attempts' \in Histories
    <2>1. \A t \in Tasks : Unrecorded(t) => round_attempt_count[t] > 0
      BY DEF Unrecorded
    <2>2. \A t \in Tasks : (IF Unrecorded(t) THEN CloseAttempt(t) ELSE attempts[t]) \in [Rounds -> [Attempts -> Marks]]
      BY <2>1, AttemptClosed DEF Shape, TypeOK, Marks
    <2> QED BY <2>2 DEF SweepMail, Histories
  <1>2. /\ state' \in [Tasks -> Exists \cup {"absent", "deleted"}] /\ token' \in [Tasks -> Nat]
        /\ live' \in [Tasks -> BOOLEAN]
    BY DEF SweepMail, Shape, TypeOK, Exists, Terminal
  <1>3. /\ pc' \in [Dispatchers -> {"sweep", "cleanup", "claim", "send", "policy", "ack", "record"}]
        /\ \A e \in Dispatchers : pc'[e] = pc[e] \/ (pc[e] = "sweep" /\ pc'[e] = "cleanup")
    BY DEF SweepMail, Goto, Shape, TypeOK
  <1> QED BY <1>1, <1>2, <1>3 DEF SweepMail, Shape, TypeOK, Working, Histories, Marks

\* The least and the greatest of a set of numbers.
LEMMA MinOf ==
  ASSUME NEW S \in SUBSET Nat, S # {}
  PROVE  Min(S) \in S /\ \A m \in S : Min(S) <= m
  <1>1. IsWellFoundedOn(OpToRel(<, Nat), Nat)
    BY NatLessThanWellFounded
  <1>2. \E n \in S : \A m \in S : ~(<<m, n>> \in OpToRel(<, Nat))
    BY <1>1, WFMin
  <1>3. PICK n \in S : \A m \in S : ~(<<m, n>> \in OpToRel(<, Nat))
    BY <1>2
  <1>4. \A m \in S : ~(m < n)
    BY <1>3 DEF OpToRel
  <1>5. \A m \in S : n <= m
    BY <1>4
  <1> QED BY <1>5 DEF Min

LEMMA MaxOf ==
  ASSUME NEW k \in Nat, NEW S \in SUBSET (0..k), S # {}
  PROVE  Max(S) \in S /\ \A m \in S : m <= Max(S)
  <1> DEFINE T == {k - n : n \in S}
  <1>0. \A n \in S : n \in Int /\ 0 <= n /\ n <= k
    OBVIOUS
  <1>4. \A m \in S : k - m \in T /\ k - m \in Nat
    BY <1>0
  <1>1. T \in SUBSET Nat /\ T # {}
    BY <1>4
  <1>2. PICK x \in T : \A y \in T : x <= y
    BY <1>1, MinOf
  <1>3. PICK n \in S : x = k - n
    BY <1>2
  <1>5. \A m \in S : n >= m
    <2> HIDE DEF T
    <2> SUFFICES ASSUME NEW m \in S
                 PROVE  n >= m
      OBVIOUS
    <2>1. k - n <= k - m
      BY <1>2, <1>3, <1>4
    <2> QED BY <1>0, <2>1
  <1>6. \E a \in S : \A m \in S : a >= m
    BY <1>5
  <1>7. Max(S) \in S /\ \A m \in S : Max(S) >= m
    BY <1>6 DEF Max
  <1> QED BY <1>0, <1>7

\* What a claim does to the task it takes, and to its process.
LEMMA ClaimEffect ==
  ASSUME Shape, NEW d \in Dispatchers, ClaimMail(d)
  PROVE  \/ /\ UNCHANGED <<rows, job>> /\ pc' = [pc EXCEPT ![d] = "sweep"]
         \/ \E t \in Tasks :
              /\ Claimable(t) /\ round_attempt_count[t] + 1 \in Attempts
              /\ job' = [job EXCEPT ![d] = [task |-> t, token |-> attempt_count[t] + 1, round |-> round_number[t],
                                            attempt |-> round_attempt_count[t] + 1]]
              /\ pc' = [pc EXCEPT ![d] = "send"]
              /\ attempts' = [attempts EXCEPT ![t] = CloseMissing(t)]
              /\ attempt_count' = [attempt_count EXCEPT ![t] = @ + 1]
              /\ round_attempt_count' = [round_attempt_count EXCEPT ![t] = @ + 1]
              /\ token' = [token EXCEPT ![t] = attempt_count[t] + 1]
              /\ live' = [live EXCEPT ![t] = TRUE]
              /\ lost' = [lost EXCEPT ![t] = @ + (IF token[t] # 0 THEN 1 ELSE 0)]
              /\ UNCHANGED <<state, available, round_number, authority>>
  <1> DEFINE due == {t \in Tasks : Claimable(t)}
  <1>1. CASE due = {}
    BY <1>1 DEF ClaimMail, Goto
  <1>2. CASE due # {}
    <2>1. due \in SUBSET Nat
      BY OutboxConstants DEF Tasks
    <2>2. Min(due) \in due
      BY <1>2, <2>1, MinOf
    <2>3. PICK t \in Tasks : t = Min(due) /\ Claimable(t)
      BY <2>2
    <2>4. round_attempt_count[t] \in 0..MaxAttempts
      BY DEF Shape, TypeOK
    <2>5. /\ round_attempt_count[t] + 1 <= MaxAttempts
          /\ job' = [job EXCEPT ![d] = [task |-> t, token |-> attempt_count[t] + 1, round |-> round_number[t],
                                        attempt |-> round_attempt_count[t] + 1]]
          /\ pc' = [pc EXCEPT ![d] = "send"]
          /\ attempts' = [attempts EXCEPT ![t] = CloseMissing(t)]
          /\ attempt_count' = [attempt_count EXCEPT ![t] = @ + 1]
          /\ round_attempt_count' = [round_attempt_count EXCEPT ![t] = round_attempt_count[t] + 1]
          /\ token' = [token EXCEPT ![t] = attempt_count[t] + 1]
          /\ live' = [live EXCEPT ![t] = TRUE]
          /\ lost' = [lost EXCEPT ![t] = @ + (IF token[t] # 0 THEN 1 ELSE 0)]
          /\ UNCHANGED <<state, available, round_number, authority>>
      BY <1>2, <2>3 DEF ClaimMail, Goto
    <2>6. round_attempt_count[t] + 1 \in Attempts
      BY <2>4, <2>5, OutboxConstants DEF Attempts
    <2>7. round_attempt_count' = [round_attempt_count EXCEPT ![t] = @ + 1]
      BY <2>5
    <2> QED BY <2>3, <2>5, <2>6, <2>7
  <1> QED BY <1>1, <1>2

LEMMA ClaimShape ==
  ASSUME Shape, NEW d \in Dispatchers, ClaimMail(d)
  PROVE  Shape'
  <1>0. UNCHANGED <<kind, outcome, delivered, faults, lapses>> /\ pc[d] = "claim"
    BY DEF ClaimMail
  <1>1. CASE UNCHANGED <<rows, job>> /\ pc' = [pc EXCEPT ![d] = "sweep"]
    <2>1. /\ pc' \in [Dispatchers -> {"sweep", "cleanup", "claim", "send", "policy", "ack", "record"}]
          /\ \A e \in Dispatchers : pc'[e] = pc[e] \/ (pc[e] = "claim" /\ pc'[e] = "sweep")
      BY <1>0, <1>1 DEF Shape, TypeOK
    <2> QED BY <1>0, <1>1, <2>1 DEF rows, Shape, TypeOK, Working
  <1>2. CASE ~(UNCHANGED <<rows, job>> /\ pc' = [pc EXCEPT ![d] = "sweep"])
    <2>1. PICK t \in Tasks :
            /\ Claimable(t) /\ round_attempt_count[t] + 1 \in Attempts
            /\ job' = [job EXCEPT ![d] = [task |-> t, token |-> attempt_count[t] + 1, round |-> round_number[t],
                                          attempt |-> round_attempt_count[t] + 1]]
            /\ pc' = [pc EXCEPT ![d] = "send"]
            /\ attempts' = [attempts EXCEPT ![t] = CloseMissing(t)]
            /\ attempt_count' = [attempt_count EXCEPT ![t] = @ + 1]
            /\ round_attempt_count' = [round_attempt_count EXCEPT ![t] = @ + 1]
            /\ token' = [token EXCEPT ![t] = attempt_count[t] + 1]
            /\ live' = [live EXCEPT ![t] = TRUE]
            /\ lost' = [lost EXCEPT ![t] = @ + (IF token[t] # 0 THEN 1 ELSE 0)]
            /\ UNCHANGED <<state, available, round_number, authority>>
      BY <1>2, ClaimEffect
    <2> DEFINE j == [task |-> t, token |-> attempt_count[t] + 1, round |-> round_number[t],
                     attempt |-> round_attempt_count[t] + 1]
    <2>2. j \in Jobs
      BY <2>1 DEF Shape, TypeOK, Jobs
    <2>3. job' = [job EXCEPT ![d] = j]
      BY <2>1
    <2> HIDE DEF j
    <2>4. /\ pc' \in [Dispatchers -> {"sweep", "cleanup", "claim", "send", "policy", "ack", "record"}]
          /\ job' \in [Dispatchers -> Jobs \cup {Idle}] /\ pc'[d] = "send" /\ job'[d] \in Jobs
          /\ \A e \in Dispatchers \ {d} : pc'[e] = pc[e] /\ job'[e] = job[e]
      BY <2>1, <2>2, <2>3 DEF Shape, TypeOK
    <2>5. /\ token' \in [Tasks -> Nat] /\ live' \in [Tasks -> BOOLEAN]
          /\ attempt_count' \in [Tasks -> Nat] /\ lost' \in [Tasks -> Nat]
      BY <2>1 DEF Shape, TypeOK
    <2>6. round_attempt_count' \in [Tasks -> 0..MaxAttempts]
      BY <2>1, OutboxConstants DEF Shape, TypeOK, Attempts
    <2>7. attempts' \in Histories
      BY <2>1, MissingClosed DEF Shape, TypeOK, Histories, Marks
    <2> QED BY <1>0, <2>1, <2>4, <2>5, <2>6, <2>7 DEF Shape, TypeOK, Working, Histories, Marks
  <1> QED BY <1>1, <1>2

LEMMA JobIs ==
  ASSUME Shape, NEW d \in Dispatchers, Working(d)
  PROVE  /\ job[d] \in Jobs /\ job[d].task \in Tasks /\ job[d].round \in Rounds /\ job[d].attempt \in Attempts
         /\ Attempt(job[d]) = <<job[d].task, job[d].round, job[d].attempt>>
         /\ Attempt(job[d]) \in Tasks \X Rounds \X Attempts
  BY DEF Shape, Jobs, Attempt

LEMMA SendShape ==
  ASSUME Shape, NEW d \in Dispatchers, Send(d) \/ DecideRetry(d)
  PROVE  Shape'
  <1>1. Working(d) /\ UNCHANGED <<rows, kind, job, lapses>> /\ faults' \in Nat
    BY DEF Send, DecideRetry, Working, Shape, TypeOK
  <1>2. delivered' \subseteq Tasks \X Rounds \X Attempts
    BY <1>1, JobIs DEF Send, DecideRetry, Shape, TypeOK
  <1>3. /\ outcome' \in [Dispatchers -> Codes] /\ \A e \in Dispatchers \ {d} : outcome'[e] = outcome[e]
        /\ pc' \in [Dispatchers -> {"sweep", "cleanup", "claim", "send", "policy", "ack", "record"}]
        /\ \A e \in Dispatchers \ {d} : pc'[e] = pc[e]
        /\ pc'[d] \in {"policy", "ack"} /\ (pc'[d] = "ack" => outcome'[d] \in {"sent", "retry", "dead", "invalid"})
    <2>1. CASE Send(d)
      <3>1. PICK o \in Failures \cup {"sent", "invalid"} :
              outcome' = [outcome EXCEPT ![d] = o] /\ pc' = [pc EXCEPT ![d] = IF o \in Failures THEN "policy" ELSE "ack"]
        BY <2>1 DEF Send, Goto
      <3> QED BY <3>1 DEF Shape, TypeOK, Codes
    <2>2. CASE DecideRetry(d)
      <3>1. PICK o \in {"retry", "dead"} : outcome' = [outcome EXCEPT ![d] = o]
        BY <2>2 DEF DecideRetry
      <3>2. pc' = [pc EXCEPT ![d] = "ack"]
        BY <2>2 DEF DecideRetry, Goto
      <3> QED BY <3>1, <3>2 DEF Shape, TypeOK, Codes
    <2> QED BY <2>1, <2>2
  <1>4. \A e \in Dispatchers : Working(e)' = Working(e)
    BY <1>1, <1>3 DEF Working
  <1> QED BY <1>1, <1>2, <1>3, <1>4 DEF Shape, TypeOK, rows

LEMMA AckEffect ==
  ASSUME Shape, NEW d \in Dispatchers, Acknowledge(d), Owns(d)
  PROVE  LET t == job[d].task IN
         /\ Done(d)
         /\ \E s \in {"sent", "open", "dead", "canceled"} :
              /\ state' = [state EXCEPT ![t] = s]
              /\ s = "sent" <=> outcome[d] = "sent"
              /\ s = "open" <=> outcome[d] = "retry"
         /\ token' = [token EXCEPT ![t] = 0] /\ live' = [live EXCEPT ![t] = FALSE]
         /\ attempts' = [attempts EXCEPT ![t][round_number[t]][round_attempt_count[t]] = Result(d)]
         /\ UNCHANGED <<attempt_count, round_number, round_attempt_count, authority, lost, kind, delivered, faults, lapses>>
  <1>1. outcome[d] \in {"sent", "retry", "dead", "invalid"}
    BY DEF Acknowledge, Shape, TypeOK
  <1> QED BY <1>1 DEF Acknowledge

LEMMA ResultMark ==
  ASSUME NEW d
  PROVE  Result(d) \in {"sent", "failed"} /\ (Result(d) = "sent" <=> outcome[d] = "sent")
  BY DEF Result

LEMMA DoneRest ==
  ASSUME Shape, NEW d \in Dispatchers, Done(d)
  PROVE  \A e \in Dispatchers : /\ IF Working(e)' THEN job'[e] \in Jobs ELSE job'[e] = Idle
                                /\ pc'[e] \in {"ack", "record"} => outcome'[e] \in {"sent", "retry", "dead", "invalid"}
                                /\ Working(e)' => e # d /\ Working(e) /\ job'[e] = job[e] /\ outcome'[e] = outcome[e]
  BY DoneShape DEF Working, Shape, TypeOK

\* The end of a process's work: its row may be finished and an attempt of it be written.
LEMMA EndRowsShape ==
  ASSUME Shape, NEW d \in Dispatchers, Done(d), attempts' \in Histories,
         UNCHANGED <<attempt_count, round_number, round_attempt_count, authority, lost, kind, delivered, lapses>>,
         faults' \in Nat,
         state' \in [Tasks -> Exists \cup {"absent", "deleted"}], token' \in [Tasks -> Nat],
         live' \in [Tasks -> BOOLEAN], available' \in [Tasks -> BOOLEAN]
  PROVE  Shape'
  <1>1. /\ pc' \in [Dispatchers -> {"sweep", "cleanup", "claim", "send", "policy", "ack", "record"}]
        /\ job' \in [Dispatchers -> Jobs \cup {Idle}] /\ outcome' \in [Dispatchers -> Codes]
    BY DoneShape
  <1>2. \A e \in Dispatchers : /\ IF Working(e)' THEN job'[e] \in Jobs ELSE job'[e] = Idle
                               /\ pc'[e] \in {"ack", "record"} => outcome'[e] \in {"sent", "retry", "dead", "invalid"}
    BY DoneRest
  <1> QED BY <1>1, <1>2 DEF Shape, TypeOK, Histories, Marks

LEMMA EndShape ==
  ASSUME Shape, NEW d \in Dispatchers, Acknowledge(d) \/ RecordMailAttempt(d) \/ Fails(d)
  PROVE  Shape'
  <1>0. /\ state \in [Tasks -> Exists \cup {"absent", "deleted"}] /\ token \in [Tasks -> Nat]
        /\ live \in [Tasks -> BOOLEAN] /\ available \in [Tasks -> BOOLEAN]
        /\ attempts \in Histories /\ faults \in Nat
    BY DEF Shape, TypeOK, Histories, Marks
  <1>1. CASE Acknowledge(d) /\ ~Owns(d)
    <2>1. /\ pc[d] = "ack" /\ pc' = [pc EXCEPT ![d] = "record"]
          /\ UNCHANGED <<rows, job, outcome, kind, delivered, faults, lapses>>
      BY <1>1 DEF Acknowledge, Goto
    <2>2. /\ pc' \in [Dispatchers -> {"sweep", "cleanup", "claim", "send", "policy", "ack", "record"}]
          /\ pc'[d] = "record" /\ \A e \in Dispatchers \ {d} : pc'[e] = pc[e]
      BY <2>1 DEF Shape, TypeOK
    <2>3. \A e \in Dispatchers : Working(e)' = Working(e)
      BY <2>1, <2>2 DEF Working
    <2> QED BY <2>1, <2>2, <2>3 DEF Shape, TypeOK, rows
  <1>2. CASE Acknowledge(d) /\ Owns(d)
    <2> DEFINE t == job[d].task
    <2>1. Working(d) /\ t \in Tasks /\ round_number[t] \in Rounds
      BY <1>2, JobIs DEF Acknowledge, Working, Shape
    <2>2. /\ Done(d) /\ token' = [token EXCEPT ![t] = 0] /\ live' = [live EXCEPT ![t] = FALSE]
          /\ attempts' = [attempts EXCEPT ![t][round_number[t]][round_attempt_count[t]] = Result(d)]
          /\ UNCHANGED <<attempt_count, round_number, round_attempt_count, authority, lost, kind, delivered, faults, lapses>>
          /\ \E s \in {"sent", "open", "dead", "canceled"} : state' = [state EXCEPT ![t] = s]
      BY <1>2, AckEffect
    <2>3. available' \in [Tasks -> BOOLEAN]
      <3>1. available' = [available EXCEPT ![t] = @ /\ outcome[d] # "retry"]
        BY <1>2 DEF Acknowledge
      <3>2. available[t] \in BOOLEAN
        BY <1>0, <2>1
      <3> DEFINE x == available[t] /\ outcome[d] # "retry"
      <3>3. x \in BOOLEAN
        BY <3>2, Zenon
      <3>4. available' = [available EXCEPT ![t] = x]
        BY <3>1
      <3> HIDE DEF x
      <3> QED BY <1>0, <3>3, <3>4
    <2>4. attempts' \in Histories
      <3>1. Result(d) \in Marks
        BY ResultMark DEF Marks
      <3>2. attempts[t] \in [Rounds -> [Attempts -> Marks]]
        BY <1>0, <2>1 DEF Histories
      <3>3. attempts[t][round_number[t]] \in [Attempts -> Marks]
        BY <2>1, <3>2
      <3> HIDE DEF t
      <3> QED BY <1>0, <2>1, <2>2, <3>1, <3>2, <3>3 DEF Histories
    <2> HIDE DEF t
    <2>5. state' \in [Tasks -> Exists \cup {"absent", "deleted"}]
      BY <1>0, <2>1, <2>2 DEF Exists, Terminal
    <2>6. token' \in [Tasks -> Nat] /\ live' \in [Tasks -> BOOLEAN]
      BY <1>0, <2>1, <2>2
    <2> QED BY <1>0, <2>2, <2>3, <2>4, <2>5, <2>6, EndRowsShape
  <1>3. CASE RecordMailAttempt(d)
    <2>1. Working(d) /\ job[d].task \in Tasks /\ job[d].round \in Rounds /\ job[d].attempt \in Attempts
      BY <1>3, JobIs DEF RecordMailAttempt, Working
    <2>2. attempts' \in Histories
      <3>1. Result(d) \in Marks
        BY ResultMark DEF Marks
      <3>2. attempts' = attempts
            \/ attempts' = Written(job[d].task, job[d].round, job[d].attempt, Result(d))
        BY <1>3 DEF RecordMailAttempt, Written
      <3> QED BY <1>0, <2>1, <3>1, <3>2, AttemptWritten
    <2>3. UNCHANGED <<attempt_count, round_number, round_attempt_count, authority, lost, kind, delivered, lapses,
                      faults, state, token, live, available>> /\ Done(d)
      BY <1>3 DEF RecordMailAttempt
    <2> QED BY <1>0, <2>2, <2>3, EndRowsShape
  <1>4. CASE Fails(d)
    <2>1. UNCHANGED <<rows, kind, delivered, lapses>> /\ Done(d) /\ faults' \in Nat
      BY <1>0, <1>4 DEF Fails
    <2> QED BY <1>0, <2>1, EndRowsShape DEF rows
  <1> QED BY <1>1, <1>2, <1>3, <1>4

LEMMA ShapeStep ==
  ASSUME Shape, [Next]_vars
  PROVE  Shape'
  <1>1. CASE UNCHANGED vars
    BY <1>1 DEF vars, rows, locals, Shape, TypeOK, Working
  <1>2. ASSUME NEW t \in Tasks, DeleteMailTask(t)
        PROVE  Shape'
    <2>1. {t} \in SUBSET Tasks /\ Remove({t}) /\ UNCHANGED <<kind, pc, job, outcome, delivered, faults, lapses>>
      BY <1>2 DEF DeleteMailTask, locals
    <2> QED BY <2>1, RemovedShape DEF Shape, TypeOK
  <1>3. ASSUME NEW d \in Dispatchers, CleanupMail(d)
        PROVE  Shape'
    <2>1. PICK T \in SUBSET Tasks : Remove(T)
      BY <1>3 DEF CleanupMail
    <2>2. /\ pc' \in [Dispatchers -> {"sweep", "cleanup", "claim", "send", "policy", "ack", "record"}]
          /\ \A e \in Dispatchers : pc'[e] = pc[e] \/ (pc[e] = "cleanup" /\ pc'[e] = "claim")
          /\ UNCHANGED <<kind, job, outcome, delivered, faults, lapses>>
      BY <1>3 DEF CleanupMail, Goto, Shape, TypeOK
    <2> QED BY <2>1, <2>2, RemovedShape
  <1> QED BY <1>1, <1>2, <1>3, TaskShape, SweepShape, ClaimShape, SendShape, EndShape DEF Next, ProcessOnce

\* Columns and local variables hold values of their types, and every process holds a task
\* exactly while it works on one.
THEOREM MailTypes == Spec => []TypeOK
  <1>1. Init => Shape
    BY ShapeStart
  <1>2. Shape /\ [Next]_vars => Shape'
    BY ShapeStep
  <1>3. Shape => TypeOK
    BY DEF Shape
  <1> QED BY <1>1, <1>2, <1>3, PTL DEF Spec

-----------------------------------------------------------------------------
(* What most steps do to a row: nothing, its lease or its state, or all of it goes.  *)

CountersStay(t) ==
    /\ round_number'[t] = round_number[t] /\ round_attempt_count'[t] = round_attempt_count[t]
    /\ attempt_count'[t] = attempt_count[t] /\ lost'[t] = lost[t]

RowKept(t) ==
    /\ CountersStay(t)
    /\ \/ state'[t] = state[t] /\ token'[t] = token[t]
       \/ state[t] = "absent" /\ state'[t] = "open" /\ token'[t] = token[t]
       \/ Legacy(t) /\ state[t] = "open" /\ state'[t] = "canceled" /\ token'[t] = 0
    /\ attempts'[t] = attempts[t] \/ (Unrecorded(t) /\ attempts'[t] = CloseAttempt(t))

RowGone(t) ==
    /\ state'[t] = "deleted" /\ token'[t] = 0 /\ round_attempt_count'[t] = 0
    /\ round_number'[t] = 1 /\ attempts'[t] = NoAttempts /\ lost'[t] = 0

LEMMA MaxRetries == Max(Retries) \in Nat /\ \A k \in Retries : k <= Max(Retries)
  <1>1. Retries \in SUBSET (0..100) /\ Retries # {}
    BY OutboxConstants
  <1>2. 100 \in Nat
    OBVIOUS
  <1>3. Max(Retries) \in Retries /\ \A k \in Retries : k <= Max(Retries)
    BY <1>1, <1>2, MaxOf
  <1>4. \A x : x \in Retries => x \in Nat
    BY <1>1
  <1>5. Max(Retries) \in Nat
    BY <1>3, <1>4
  <1> QED BY <1>3, <1>5

LEMMA RowTypes ==
  ASSUME Shape, NEW t \in Tasks
  PROVE  /\ round_number[t] \in Rounds /\ round_attempt_count[t] \in 0..MaxAttempts /\ token[t] \in Nat
         /\ round_number[t] \in Nat /\ round_number[t] >= 1 /\ round_attempt_count[t] \in Nat
         /\ attempt_count[t] \in Nat /\ lost[t] \in Nat /\ attempts[t] \in [Rounds -> [Attempts -> Marks]]
         /\ state[t] \in Exists \cup {"absent", "deleted"}
  BY OutboxConstants DEF Shape, TypeOK, Rounds, Marks

LEMMA NoneThere ==
  \A r \in Rounds, n \in Attempts : NoAttempts[r][n] = "none"
  BY DEF NoAttempts

LEMMA KeptRow ==
  ASSUME Shape, Shape', NEW t \in Tasks, UNCHANGED kind, delivered \subseteq delivered', RowKept(t),
         RowInOrder(t), HistoryOf(t), SentOf(t), BudgetOf(t)
  PROVE  RowInOrder(t)' /\ HistoryOf(t)' /\ SentOf(t)' /\ BudgetOf(t)'
  <1>1. \A r \in Rounds, n \in Attempts :
          \/ attempts'[t][r][n] = attempts[t][r][n]
          \/ /\ r = round_number[t] /\ n = round_attempt_count[t]
             /\ attempts[t][r][n] = "none" /\ attempts'[t][r][n] = "failed"
    BY AttemptClosed DEF RowKept, Unrecorded
  <1>2. CountersStay(t) /\ (state[t] # "open" => attempts'[t] = attempts[t])
    BY DEF RowKept, Unrecorded
  <1>3. Legacy(t)' = Legacy(t)
    BY DEF Legacy
  <1>4. /\ round_number[t] \in Nat /\ round_number[t] >= 1 /\ round_attempt_count[t] \in 0..MaxAttempts
        /\ lost[t] \in Nat /\ round_number[t] \in Rounds /\ Max(Retries) \in Nat
    BY RowTypes, MaxRetries
  <1>5. RowInOrder(t)'
    <2>1. state'[t] \in {"absent", "deleted"} =>
             token'[t] = 0 /\ round_attempt_count'[t] = 0 /\ round_number'[t] = 1 /\ attempts'[t] = NoAttempts
      BY <1>2 DEF RowKept, RowInOrder, CountersStay
    <2>2. /\ token'[t] # 0 => state'[t] = "open" /\ round_attempt_count'[t] >= 1
          /\ ~Legacy(t) /\ state'[t] \in Terminal => round_attempt_count'[t] >= 1
      BY <1>2 DEF RowKept, RowInOrder, CountersStay, Terminal
    <2>3. \A r \in Rounds, n \in Attempts : attempts'[t][r][n] # "none" =>
             r < round_number'[t] \/ (r = round_number'[t] /\ n <= round_attempt_count'[t])
      BY <1>1, <1>2, <1>4 DEF RowInOrder, Recorded, Given, CountersStay
    <2> QED BY <1>3, <2>1, <2>2, <2>3 DEF RowInOrder, Recorded, Given
  <1>6. HistoryOf(t)'
    <2> SUFFICES ASSUME ~Legacy(t), state'[t] \in Exists
                 PROVE  /\ \A n \in 1..(round_attempt_count'[t] - 1) : attempts'[t][round_number'[t]][n] # "none"
                        /\ token'[t] = 0 /\ round_attempt_count'[t] > 0 =>
                             attempts'[t][round_number'[t]][round_attempt_count'[t]] # "none"
                        /\ \A r \in 1..(round_number'[t] - 1) : attempts'[t][r][1] # "none"
      BY <1>3 DEF HistoryOf, Recorded
    <2>1. CASE state[t] = "absent"
      BY <1>2, <1>4, <2>1 DEF RowInOrder, CountersStay
    <2>2. CASE state[t] # "absent"
      <3>1. state[t] \in Exists /\ token'[t] = token[t]
        BY <2>2 DEF RowKept
      <3>2. /\ \A n \in 1..(round_attempt_count[t] - 1) : attempts[t][round_number[t]][n] # "none"
            /\ token[t] = 0 /\ round_attempt_count[t] > 0 =>
                 attempts[t][round_number[t]][round_attempt_count[t]] # "none"
            /\ \A r \in 1..(round_number[t] - 1) : attempts[t][r][1] # "none"
        BY <3>1 DEF HistoryOf, Recorded
      <3>3. \/ attempts'[t] = attempts[t] \/ (Unrecorded(t) /\ attempts'[t] = CloseAttempt(t))
        BY DEF RowKept
      <3>4. CASE attempts'[t] = attempts[t]
        BY <1>2, <3>1, <3>2, <3>4 DEF CountersStay
      <3>5. CASE Unrecorded(t) /\ attempts'[t] = CloseAttempt(t)
        <4>1. round_attempt_count[t] \in Attempts /\ attempts[t] \in [Rounds -> [Attempts -> Marks]]
          BY <1>4, <3>5, OutboxConstants, RowTypes DEF Attempts, Unrecorded
        <4>2. \A n \in Attempts, r \in Rounds : attempts[t][r][n] # "none" => attempts'[t][r][n] # "none"
          BY <1>1
        <4>3. attempts'[t][round_number[t]][round_attempt_count[t]] # "none"
          BY <3>5, AttemptClosed DEF Unrecorded
        <4>4. /\ \A n \in 1..(round_attempt_count[t] - 1) : n \in Attempts
              /\ \A r \in 1..(round_number[t] - 1) : r \in Rounds
              /\ 1 \in Attempts
          BY <1>4, <4>1, OutboxConstants DEF Attempts, Rounds
        <4> QED BY <1>2, <1>4, <3>2, <4>2, <4>3, <4>4 DEF CountersStay
      <3> QED BY <3>3, <3>4, <3>5
    <2> QED BY <2>1, <2>2
  <1>7. SentOf(t)'
    <2>1. \A r \in Rounds, n \in Attempts : attempts'[t][r][n] = "sent" => <<t, r, n>> \in delivered'
      BY <1>1 DEF SentOf
    <2>2. state'[t] = "sent" => /\ round_attempt_count'[t] >= 1
                                /\ attempts'[t][round_number'[t]][round_attempt_count'[t]] = "sent"
      BY <1>2 DEF SentOf, RowKept, CountersStay
    <2> QED BY <2>1, <2>2 DEF SentOf
  <1>8. BudgetOf(t)'
    BY <1>2, <1>4 DEF BudgetOf, RowKept, RowInOrder, CountersStay
  <1> QED BY <1>5, <1>6, <1>7, <1>8

LEMMA GoneRow ==
  ASSUME NEW t \in Tasks, RowGone(t)
  PROVE  RowInOrder(t)' /\ HistoryOf(t)' /\ SentOf(t)' /\ BudgetOf(t)'
  <1>1. \A r \in Rounds, n \in Attempts : attempts'[t][r][n] = "none"
    BY NoneThere DEF RowGone
  <1>2. Max(Retries) \in Nat
    BY MaxRetries
  <1> QED BY <1>1, <1>2
          DEF RowGone, RowInOrder, HistoryOf, SentOf, BudgetOf, Recorded, Exists, Terminal

LEMMA KeptJob ==
  ASSUME Shape, NEW d \in Dispatchers, JobInOrder(d), OutcomeTrue(d),
         Working(d)' => Working(d) /\ job'[d] = job[d],
         \A t \in Tasks : RowKept(t) \/ RowGone(t)
  PROVE  JobInOrder(d)' /\ (Live(d)' => Live(d)) /\ (Working(d)' => state'[job[d].task] # "absent")
  <1> SUFFICES ASSUME Working(d)'
               PROVE  JobInOrder(d)' /\ (Live(d)' => Live(d)) /\ state'[job[d].task] # "absent"
    BY DEF JobInOrder, Live
  <1> DEFINE t == job[d].task
  <1>1. Working(d) /\ job'[d] = job[d] /\ t \in Tasks /\ job[d].round \in Rounds /\ job[d].attempt \in Attempts
    BY JobIs
  <1>2. state[t] # "absent"
    BY <1>1 DEF OutcomeTrue
  <1>3. CASE RowGone(t)
    BY <1>1, <1>3 DEF RowGone, JobInOrder, Live, Exists, Terminal
  <1>4. CASE RowKept(t)
    <2>1. state'[t] # "absent" /\ (state'[t] \in Exists => state[t] \in Exists) /\ (token'[t] = token[t] \/ token'[t] = 0)
      BY <1>2, <1>4 DEF RowKept, Exists
    <2>2. (Live(d)' => Live(d))
      BY <1>1, <2>1 DEF Live
    <2>3. attempts'[t][job[d].round][job[d].attempt] = "sent" => attempts[t][job[d].round][job[d].attempt] = "sent"
      BY <1>1, <1>4, AttemptClosed DEF RowKept, Unrecorded
    <2>4. ASSUME Live(d)'
          PROVE  JobInOrder(d)'
      <3>1. /\ job[d].token >= 1 /\ job[d].token <= attempt_count[t]
            /\ Given(t, job[d].round, job[d].attempt)
            /\ token[t] = job[d].token => job[d].round = round_number[t] /\ job[d].attempt = round_attempt_count[t]
            /\ attempts[t][job[d].round][job[d].attempt] # "sent"
        BY <2>2, <2>4 DEF JobInOrder
      <3>2. CountersStay(t)
        BY <1>4 DEF RowKept
      <3> QED BY <1>1, <2>1, <2>3, <3>1, <3>2 DEF JobInOrder, Given, CountersStay
    <2> QED BY <2>1, <2>2, <2>4 DEF JobInOrder
  <1> QED BY <1>1, <1>3, <1>4

LEMMA QuietMail ==
  ASSUME MailInv, Shape', UNCHANGED kind, delivered \subseteq delivered',
         \A t \in Tasks : RowKept(t) \/ RowGone(t),
         \A d \in Dispatchers : Working(d)' =>
           /\ Working(d) /\ job'[d] = job[d]
           /\ outcome'[d] = "sent" => Attempt(job[d]) \in delivered'
           /\ outcome'[d] = "retry" => job[d].attempt <= Max(Retries)
  PROVE  MailInv'
  <1>1. RowsHold'
    <2>1. \A t \in Tasks : RowInOrder(t)' /\ HistoryOf(t)' /\ SentOf(t)' /\ BudgetOf(t)'
      BY KeptRow, GoneRow DEF MailInv, RowsHold
    <2> QED BY <2>1 DEF RowsHold
  <1>2. \A d \in Dispatchers : JobInOrder(d)' /\ (Live(d)' => Live(d)) /\ (Working(d)' => state'[job[d].task] # "absent")
    BY KeptJob DEF MailInv, JobsHold
  <1>3. \A d \in Dispatchers : OutcomeTrue(d)'
    BY <1>2 DEF OutcomeTrue
  <1>4. \A d, e \in Dispatchers : Apart(d, e)'
    BY <1>2 DEF MailInv, JobsHold, Apart, Live
  <1> QED BY <1>1, <1>2, <1>3, <1>4 DEF MailInv, JobsHold

-----------------------------------------------------------------------------
(* The steps, one after the other.                                          *)

LEMMA QuietSteps ==
  ASSUME MailInv,
         \/ \E t \in Tasks : \/ EnqueueMailTask(t) \/ Supersede(t)
                             \/ (\E how \in {"gone", "expired"} : AuthorityEnds(t, how))
                             \/ LeaseExpires(t) \/ BackoffEnds(t)
         \/ UNCHANGED vars
  PROVE  MailInv'
  <1>0. Shape
    BY DEF MailInv
  <1>1. Shape'
    BY <1>0, ShapeStep DEF Next
  <1>2. UNCHANGED <<kind, pc, job, outcome, delivered, attempts, attempt_count, round_number, round_attempt_count, lost>>
    BY DEF EnqueueMailTask, Supersede, AuthorityEnds, LeaseExpires, BackoffEnds, locals, vars, rows
  <1>3. \/ UNCHANGED <<state, token>>
        \/ \E t \in Tasks : \/ EnqueueMailTask(t) \/ Supersede(t)
    BY DEF AuthorityEnds, LeaseExpires, BackoffEnds, vars, rows
  <1>4. state \in [Tasks -> Exists \cup {"absent", "deleted"}] /\ token \in [Tasks -> Nat]
    BY <1>0 DEF Shape, TypeOK
  <1>5. \A t \in Tasks : RowKept(t)
    <2>1. CASE UNCHANGED <<state, token>>
      BY <1>2, <2>1 DEF RowKept, CountersStay
    <2>2. CASE \E t \in Tasks : EnqueueMailTask(t)
      BY <1>2, <1>4, <2>2 DEF RowKept, CountersStay, EnqueueMailTask
    <2>3. CASE \E t \in Tasks : Supersede(t)
      BY <1>2, <1>4, <2>3 DEF RowKept, CountersStay, Supersede
    <2> QED BY <1>3, <2>1, <2>2, <2>3
  <1>6. \A d \in Dispatchers : Working(d)' = Working(d) /\ OutcomeTrue(d)
    BY <1>2 DEF Working, MailInv, JobsHold
  <1> QED BY <1>1, <1>2, <1>5, <1>6, QuietMail DEF OutcomeTrue

\* Rows that are deleted by an administrator or outlive their retention.
LEMMA RemoveSteps ==
  ASSUME MailInv,
         (\E t \in Tasks : DeleteMailTask(t)) \/ (\E d \in Dispatchers : CleanupMail(d))
  PROVE  MailInv'
  <1>0. Shape
    BY DEF MailInv
  <1>1. Shape'
    BY <1>0, ShapeStep DEF Next, ProcessOnce
  <1>2. UNCHANGED <<kind, job, outcome, delivered>> /\ \E T \in SUBSET Tasks : Remove(T)
    <2>1. \A t \in Tasks : {t} \in SUBSET Tasks
      OBVIOUS
    <2> QED BY <2>1 DEF DeleteMailTask, CleanupMail, locals
  <1>3. \A t \in Tasks : RowKept(t) \/ RowGone(t)
    <2>1. PICK T \in SUBSET Tasks : Remove(T)
      BY <1>2
    <2> QED BY <1>0, <2>1, Removed DEF RowKept, RowGone, CountersStay
  <1>4. \A d \in Dispatchers : Working(d)' => Working(d)
    BY <1>0 DEF Working, DeleteMailTask, CleanupMail, Goto, locals, Shape, TypeOK
  <1>5. \A d \in Dispatchers : OutcomeTrue(d)
    BY DEF MailInv, JobsHold
  <1> QED BY <1>1, <1>2, <1>3, <1>4, <1>5, QuietMail DEF OutcomeTrue

LEMMA SweepStep ==
  ASSUME MailInv, NEW d \in Dispatchers, SweepMail(d)
  PROVE  MailInv'
  <1>0. Shape /\ state \in [Tasks -> Exists \cup {"absent", "deleted"}]
    BY DEF MailInv, Shape, TypeOK
  <1>1. Shape'
    BY <1>0, SweepShape
  <1>2. \A t \in Tasks : RowKept(t)
    BY DEF SweepMail, RowKept, CountersStay, Discardable, Unrecorded
  <1>3. UNCHANGED <<kind, job, outcome, delivered>> /\ \A e \in Dispatchers : Working(e)' => Working(e)
    BY <1>0 DEF SweepMail, Goto, Working, Shape, TypeOK
  <1>4. \A e \in Dispatchers : OutcomeTrue(e)
    BY DEF MailInv, JobsHold
  <1> QED BY <1>1, <1>2, <1>3, <1>4, QuietMail DEF OutcomeTrue

\* The rows stay while a process sends, reads the retry policy, starts over, finds nothing to
\* claim or learns that it has lost its lease.
LEMMA LocalStep ==
  ASSUME MailInv, Shape', UNCHANGED <<rows, kind>>, delivered \subseteq delivered', NEW d \in Dispatchers,
         \A e \in Dispatchers \ {d} : Working(e)' = Working(e) /\ job'[e] = job[e] /\ outcome'[e] = outcome[e],
         Working(d)' => /\ Working(d) /\ job'[d] = job[d]
                        /\ outcome'[d] = "sent" => Attempt(job[d]) \in delivered'
                        /\ outcome'[d] = "retry" => job[d].attempt <= Max(Retries)
  PROVE  MailInv'
  <1>1. \A t \in Tasks : RowKept(t)
    BY DEF rows, RowKept, CountersStay
  <1>2. \A e \in Dispatchers : OutcomeTrue(e)
    BY DEF MailInv, JobsHold
  <1>3. \A e \in Dispatchers : Working(e)' =>
           /\ Working(e) /\ job'[e] = job[e]
           /\ outcome'[e] = "sent" => Attempt(job[e]) \in delivered'
           /\ outcome'[e] = "retry" => job[e].attempt <= Max(Retries)
    BY <1>2 DEF OutcomeTrue
  <1> QED BY <1>1, <1>3, QuietMail

LEMMA LocalSteps ==
  ASSUME MailInv, NEW d \in Dispatchers,
         Send(d) \/ DecideRetry(d) \/ Fails(d) \/ (Acknowledge(d) /\ ~Owns(d))
  PROVE  MailInv'
  <1>0. Shape /\ OutcomeTrue(d)
    BY DEF MailInv, JobsHold
  <1>1. Shape'
    BY <1>0, SendShape, EndShape
  <1>2. /\ pc \in [Dispatchers -> {"sweep", "cleanup", "claim", "send", "policy", "ack", "record"}]
        /\ job \in [Dispatchers -> Jobs \cup {Idle}] /\ outcome \in [Dispatchers -> Codes]
    BY <1>0 DEF Shape, TypeOK
  <1>3. CASE Send(d)
    <2>1. Working(d) /\ UNCHANGED <<rows, kind, job>>
      BY <1>3 DEF Send, Working
    <2>2. PICK o \in Failures \cup {"sent", "invalid"}, arrived \in BOOLEAN :
            /\ o = "sent" => arrived
            /\ outcome' = [outcome EXCEPT ![d] = o]
            /\ delivered' = IF arrived THEN delivered \cup {Attempt(job[d])} ELSE delivered
            /\ pc' = [pc EXCEPT ![d] = IF o \in Failures THEN "policy" ELSE "ack"]
      BY <1>3 DEF Send, Goto
    <2>3. outcome'[d] = o /\ o # "retry" /\ delivered \subseteq delivered'
          /\ \A e \in Dispatchers \ {d} : outcome'[e] = outcome[e] /\ pc'[e] = pc[e]
      BY <1>2, <2>2 DEF Failures
    <2>4. o = "sent" => Attempt(job[d]) \in delivered'
      BY <2>2
    <2> QED BY <1>1, <2>1, <2>3, <2>4, LocalStep DEF Working
  <1>4. CASE DecideRetry(d)
    <2>1. Working(d) /\ UNCHANGED <<rows, kind, job, delivered>> /\ pc' = [pc EXCEPT ![d] = "ack"]
      BY <1>4 DEF DecideRetry, Working, Goto
    <2>2. outcome'[d] \in {"retry", "dead"} /\ (outcome'[d] = "retry" => job[d].attempt <= Max(Retries))
          /\ \A e \in Dispatchers \ {d} : outcome'[e] = outcome[e] /\ pc'[e] = pc[e]
      <3>1. CASE outcome' = [outcome EXCEPT ![d] = "dead"]
        BY <1>2, <2>1, <3>1
      <3>2. CASE outcome' # [outcome EXCEPT ![d] = "dead"]
        <4>1. PICK k \in Retries : outcome' = [outcome EXCEPT ![d] =
                 IF /\ outcome[d] \in {"temporary", "dependency"}
                    /\ WithinBudget(d, k)
                    /\ Legacy(job[d].task) => authority[job[d].task] # "expired"
                 THEN "retry" ELSE "dead"]
          BY <1>4, <3>2 DEF DecideRetry
        <4>2. k \in Nat /\ k <= Max(Retries) /\ Max(Retries) \in Nat
          BY MaxRetries, OutboxConstants
        <4>3. job[d].attempt \in Nat
          BY <1>0, <2>1, JobIs, OutboxConstants DEF Attempts
        <4>4. WithinBudget(d, k) => job[d].attempt <= Max(Retries)
          BY <4>2, <4>3 DEF WithinBudget
        <4> QED BY <1>2, <2>1, <4>1, <4>4
      <3> QED BY <3>1, <3>2
    <2> QED BY <1>1, <2>1, <2>2, LocalStep DEF Working
  <1>5. CASE Fails(d)
    <2>1. UNCHANGED <<rows, kind, delivered>> /\ Done(d)
      BY <1>5 DEF Fails
    <2>2. ~Working(d)' /\ \A e \in Dispatchers \ {d} : Working(e)' = Working(e) /\ job'[e] = job[e] /\ outcome'[e] = outcome[e]
      BY <1>0, <2>1, DoneShape DEF Working
    <2> QED BY <1>1, <2>1, <2>2, LocalStep
  <1>6. CASE Acknowledge(d) /\ ~Owns(d)
    <2>1. /\ Working(d) /\ UNCHANGED <<rows, kind, job, outcome, delivered>> /\ pc' = [pc EXCEPT ![d] = "record"]
      BY <1>6 DEF Acknowledge, Goto, Working
    <2>2. \A e \in Dispatchers \ {d} : Working(e)' = Working(e)
      BY <1>2, <2>1 DEF Working
    <2> QED BY <1>0, <1>1, <2>1, <2>2, LocalStep DEF OutcomeTrue
  <1> QED BY <1>3, <1>4, <1>5, <1>6

\* Another round: what the last one sent or gave up stays in the history, and whoever still
\* works for it has an attempt of it.
LEMMA RetryStep ==
  ASSUME MailInv, NEW t \in Tasks, RetryMailTask(t)
  PROVE  MailInv'
  <1>0. Shape
    BY DEF MailInv
  <1>1. Shape'
    BY <1>0, TaskShape
  <1>2. /\ UNCHANGED <<kind, pc, job, outcome, delivered, attempts, attempt_count>>
        /\ state[t] \in {"canceled", "dead"} /\ state'[t] = "open" /\ token'[t] = 0
        /\ round_number'[t] = round_number[t] + 1 /\ round_attempt_count'[t] = 0 /\ lost'[t] = 0
        /\ \A u \in Tasks \ {t} : /\ state'[u] = state[u] /\ token'[u] = token[u] /\ lost'[u] = lost[u]
                                  /\ round_number'[u] = round_number[u]
                                  /\ round_attempt_count'[u] = round_attempt_count[u]
    BY <1>0 DEF RetryMailTask, locals, Shape, TypeOK
  <1>3. RowInOrder(t) /\ HistoryOf(t) /\ SentOf(t)
    BY DEF MailInv, RowsHold
  <1>4. /\ round_number[t] \in Rounds /\ round_number[t] \in Nat /\ round_number[t] >= 1
        /\ round_attempt_count[t] \in Nat /\ Max(Retries) \in Nat
    BY <1>0, RowTypes, MaxRetries
  <1>5. token[t] = 0 /\ (~Legacy(t) => round_attempt_count[t] >= 1) /\ state[t] \in Exists
    BY <1>2, <1>3 DEF RowInOrder, Terminal, Exists
  <1>6. ASSUME NEW u \in Tasks, u # t
        PROVE  RowInOrder(u)' /\ HistoryOf(u)' /\ SentOf(u)' /\ BudgetOf(u)'
    <2>1. RowKept(u)
      BY <1>2, <1>6 DEF RowKept, CountersStay
    <2> QED BY <1>0, <1>1, <1>2, <1>6, <2>1, KeptRow DEF MailInv, RowsHold
  <1>7. RowInOrder(t)'
    <2>1. \A r \in Rounds, n \in Attempts : Recorded(t, r, n) => r < round_number[t] + 1
      BY <1>3, <1>4, OutboxConstants DEF RowInOrder, Given, Rounds
    <2> QED BY <1>2, <2>1 DEF RowInOrder, Recorded, Given, Terminal
  <1>8. HistoryOf(t)'
    <2> SUFFICES ASSUME ~Legacy(t)
                 PROVE  \A r \in 1..round_number[t] : Recorded(t, r, 1)
      BY <1>2, <1>4 DEF HistoryOf, Recorded, Legacy
    <2>1. /\ \A n \in 1..(round_attempt_count[t] - 1) : Recorded(t, round_number[t], n)
          /\ round_attempt_count[t] > 0 => Recorded(t, round_number[t], round_attempt_count[t])
          /\ \A r \in 1..(round_number[t] - 1) : Recorded(t, r, 1)
      BY <1>3, <1>5 DEF HistoryOf
    <2>2. Recorded(t, round_number[t], 1)
      <3>1. CASE round_attempt_count[t] = 1
        BY <2>1, <3>1
      <3>2. CASE round_attempt_count[t] > 1
        <4>1. 1 \in 1..(round_attempt_count[t] - 1)
          BY <1>4, <3>2
        <4> QED BY <2>1, <4>1
      <3> QED BY <1>4, <1>5, <3>1, <3>2
    <2> QED BY <1>4, <2>1, <2>2
  <1>9. SentOf(t)' /\ BudgetOf(t)'
    BY <1>2, <1>3, <1>4 DEF SentOf, BudgetOf
  <1>10. RowsHold'
    <2>1. \A u \in Tasks : RowInOrder(u)' /\ HistoryOf(u)' /\ SentOf(u)' /\ BudgetOf(u)'
      BY <1>6, <1>7, <1>8, <1>9
    <2> QED BY <2>1 DEF RowsHold
  <1>11. \A d \in Dispatchers : /\ Working(d)' = Working(d)
                                /\ Working(d) => job[d] \in Jobs /\ job[d].task \in Tasks /\ job[d].round \in Rounds
    BY <1>0, <1>2, JobIs DEF Working
  <1>12. \A d \in Dispatchers : Live(d)' => Live(d)
    BY <1>2, <1>5, <1>11 DEF Live
  <1>13. \A d \in Dispatchers : JobInOrder(d)' /\ OutcomeTrue(d)'
    <2> SUFFICES ASSUME NEW d \in Dispatchers
                 PROVE  JobInOrder(d)' /\ OutcomeTrue(d)'
      OBVIOUS
    <2>1. JobInOrder(d) /\ OutcomeTrue(d)
      BY DEF MailInv, JobsHold
    <2>2. OutcomeTrue(d)'
      BY <1>2, <1>11, <2>1 DEF OutcomeTrue
    <2> SUFFICES ASSUME Live(d)'
                 PROVE  JobInOrder(d)'
      BY <2>2 DEF JobInOrder
    <2>3. /\ job'[d] = job[d] /\ job[d].task \in Tasks /\ job[d].round \in Nat
          /\ job[d].token >= 1 /\ job[d].token <= attempt_count[job[d].task]
          /\ \/ job[d].round < round_number[job[d].task]
             \/ job[d].round = round_number[job[d].task] /\ job[d].attempt <= round_attempt_count[job[d].task]
          /\ token[job[d].task] = job[d].token =>
               job[d].round = round_number[job[d].task] /\ job[d].attempt = round_attempt_count[job[d].task]
          /\ attempts[job[d].task][job[d].round][job[d].attempt] # "sent"
          /\ job[d].token \in Nat
      BY <1>2, <1>11, <1>12, <2>1, OutboxConstants DEF JobInOrder, Given, Live, Rounds, Jobs
    <2>4. CASE job[d].task = t
      <3>1. job[d].round < round_number'[t] /\ token'[t] # job[d].token
        BY <1>2, <1>4, <2>3, <2>4
      <3> QED BY <1>2, <2>3, <2>4, <3>1 DEF JobInOrder, Given
    <2>5. CASE job[d].task # t
      <3>1. /\ round_number'[job[d].task] = round_number[job[d].task] /\ token'[job[d].task] = token[job[d].task]
            /\ round_attempt_count'[job[d].task] = round_attempt_count[job[d].task]
        BY <1>2, <2>3, <2>5
      <3> QED BY <1>2, <2>3, <3>1 DEF JobInOrder, Given
    <2> QED BY <2>4, <2>5
  <1>14. \A d, e \in Dispatchers : Apart(d, e)'
    BY <1>2, <1>12 DEF MailInv, JobsHold, Apart
  <1> QED BY <1>1, <1>10, <1>13, <1>14 DEF MailInv, JobsHold

\* A result is written to the attempt its process holds; with the lease, the row ends or is
\* given back with it.
LEMMA ReportStep ==
  ASSUME MailInv, Shape', NEW d \in Dispatchers, Working(d), NEW t \in Tasks, t = job[d].task, state[t] \in Exists,
         Done(d), outcome[d] \in {"sent", "retry", "dead", "invalid"},
         attempts' = Written(t, job[d].round, job[d].attempt, Result(d)),
         UNCHANGED <<attempt_count, round_number, round_attempt_count, lost, kind, delivered>>,
         \A u \in Tasks \ {t} : state'[u] = state[u] /\ token'[u] = token[u],
         \/ state'[t] = state[t] /\ token'[t] = token[t]
         \/ /\ state[t] = "open" /\ token[t] = job[d].token /\ token'[t] = 0
            /\ state'[t] \in {"sent", "open", "dead", "canceled"}
            /\ state'[t] = "sent" => outcome[d] = "sent"
            /\ state'[t] = "open" => outcome[d] = "retry"
  PROVE  MailInv'
  <1> DEFINE r == job[d].round
             n == job[d].attempt
  <1>0. Shape /\ RowInOrder(t) /\ HistoryOf(t) /\ SentOf(t) /\ BudgetOf(t) /\ JobInOrder(d) /\ OutcomeTrue(d) /\ Live(d)
    BY DEF MailInv, RowsHold, JobsHold, Live
  <1>1. /\ r \in Rounds /\ n \in Attempts /\ Attempt(job[d]) = <<t, r, n>> /\ n \in Nat
    BY <1>0, JobIs, OutboxConstants DEF Attempts
  <1>2. /\ job[d].token >= 1 /\ (r < round_number[t] \/ (r = round_number[t] /\ n <= round_attempt_count[t]))
        /\ token[t] = job[d].token => r = round_number[t] /\ n = round_attempt_count[t]
        /\ attempts[t][r][n] # "sent"
    BY <1>0 DEF JobInOrder, Given
  <1>3. /\ attempts' \in Histories /\ attempts'[t][r][n] = Result(d)
        /\ \A u \in Tasks : u # t => attempts'[u] = attempts[u]
        /\ \A q \in Rounds, m \in Attempts : q # r \/ m # n => attempts'[t][q][m] = attempts[t][q][m]
    <2>1. attempts \in Histories /\ Result(d) \in Marks
      BY <1>0, ResultMark DEF Shape, TypeOK, Histories, Marks
    <2>2. attempts' = Written(t, r, n, Result(d))
      OBVIOUS
    <2>3. r \in Rounds /\ n \in Attempts
      BY <1>1
    <2> HIDE DEF r, n
    <2>4. /\ Written(t, r, n, Result(d)) \in Histories /\ Written(t, r, n, Result(d))[t][r][n] = Result(d)
          /\ \A u \in Tasks : u # t => Written(t, r, n, Result(d))[u] = attempts[u]
          /\ \A q \in Rounds, m \in Attempts : q # r \/ m # n =>
               Written(t, r, n, Result(d))[t][q][m] = attempts[t][q][m]
      BY <2>1, <2>3, AttemptWritten
    <2> QED BY <2>2, <2>4
  <1>4. Result(d) \in {"sent", "failed"} /\ (Result(d) = "sent" => <<t, r, n>> \in delivered)
    BY <1>0, <1>1, ResultMark DEF OutcomeTrue
  <1>5. /\ round_number[t] \in Rounds /\ round_number[t] \in Nat /\ round_number[t] >= 1
        /\ round_attempt_count[t] \in 0..MaxAttempts /\ round_attempt_count[t] \in Nat
        /\ lost[t] \in Nat /\ Max(Retries) \in Nat
    BY <1>0, RowTypes, MaxRetries
  <1>6. \A q \in Rounds, m \in Attempts : Recorded(t, q, m) => attempts'[t][q][m] # "none"
    BY <1>3, <1>4 DEF Recorded
  <1> HIDE DEF r, n
  <1>7. ASSUME NEW u \in Tasks, u # t
        PROVE  RowInOrder(u)' /\ HistoryOf(u)' /\ SentOf(u)' /\ BudgetOf(u)'
    <2>1. RowKept(u)
      BY <1>3, <1>7 DEF RowKept, CountersStay
    <2> QED BY <1>0, <1>7, <2>1, KeptRow DEF MailInv, RowsHold
  <1>8. RowInOrder(t)'
    <2>1. state[t] \notin {"absent", "deleted"} /\ state'[t] \notin {"absent", "deleted"}
      BY DEF Exists, Terminal
    <2>2. token'[t] # 0 => state'[t] = "open" /\ round_attempt_count'[t] >= 1
      BY <1>0 DEF RowInOrder
    <2>3. ~Legacy(t) /\ state'[t] \in Terminal => round_attempt_count'[t] >= 1
      BY <1>0, <1>2 DEF RowInOrder, Terminal
    <2>4. \A q \in Rounds, m \in Attempts : attempts'[t][q][m] # "none" =>
             q < round_number[t] \/ (q = round_number[t] /\ m <= round_attempt_count[t])
      <3> SUFFICES ASSUME NEW q \in Rounds, NEW m \in Attempts, attempts'[t][q][m] # "none"
                   PROVE  q < round_number[t] \/ (q = round_number[t] /\ m <= round_attempt_count[t])
        OBVIOUS
      <3>1. CASE q = r /\ m = n
        BY <1>2, <3>1
      <3>2. CASE ~(q = r /\ m = n)
        BY <1>0, <1>3, <3>2 DEF RowInOrder, Recorded, Given
      <3> QED BY <3>1, <3>2
    <2> QED BY <2>1, <2>2, <2>3, <2>4 DEF RowInOrder, Recorded, Given, Legacy
  <1>9. HistoryOf(t)'
    <2> SUFFICES ASSUME ~Legacy(t)
                 PROVE  /\ \A m \in 1..(round_attempt_count[t] - 1) : attempts'[t][round_number[t]][m] # "none"
                        /\ token'[t] = 0 /\ round_attempt_count[t] > 0 =>
                             attempts'[t][round_number[t]][round_attempt_count[t]] # "none"
                        /\ \A q \in 1..(round_number[t] - 1) : attempts'[t][q][1] # "none"
      BY DEF HistoryOf, Recorded, Legacy
    <2>1. /\ \A m \in 1..(round_attempt_count[t] - 1) : Recorded(t, round_number[t], m) /\ m \in Attempts
          /\ token[t] = 0 /\ round_attempt_count[t] > 0 =>
               Recorded(t, round_number[t], round_attempt_count[t])
          /\ \A q \in 1..(round_number[t] - 1) : Recorded(t, q, 1) /\ q \in Rounds
          /\ round_attempt_count[t] > 0 => round_attempt_count[t] \in Attempts
      BY <1>0, <1>5, OutboxConstants DEF HistoryOf, Attempts, Rounds
    <2>2. 1 \in Attempts
      BY <1>1, OutboxConstants DEF Attempts
    <2>3. token'[t] = 0 /\ round_attempt_count[t] > 0 =>
             attempts'[t][round_number[t]][round_attempt_count[t]] # "none"
      <3>1. CASE token'[t] = token[t]
        BY <1>5, <1>6, <2>1, <3>1
      <3>2. CASE token[t] = job[d].token
        BY <1>2, <1>3, <1>4, <3>2
      <3> QED BY <3>1, <3>2
    <2> QED BY <1>5, <1>6, <2>1, <2>2, <2>3
  <1>10. SentOf(t)'
    <2>1. \A q \in Rounds, m \in Attempts : attempts'[t][q][m] = "sent" => <<t, q, m>> \in delivered
      BY <1>0, <1>3, <1>4 DEF SentOf
    <2>2. state'[t] = "sent" => round_attempt_count[t] >= 1 /\ attempts'[t][round_number[t]][round_attempt_count[t]] = "sent"
      <3>1. CASE state'[t] = state[t] /\ state[t] = "sent"
        <4>1. round_attempt_count[t] >= 1 /\ attempts[t][round_number[t]][round_attempt_count[t]] = "sent"
          BY <1>0, <3>1 DEF SentOf
        <4>2. round_attempt_count[t] \in Attempts
          BY <1>5, <4>1, OutboxConstants DEF Attempts
        <4> QED BY <1>2, <1>3, <1>5, <4>1, <4>2
      <3>2. CASE token[t] = job[d].token /\ state[t] = "open"
        <4>1. round_attempt_count[t] >= 1
          BY <1>0, <1>2, <3>2 DEF RowInOrder
        <4>2. state'[t] = "sent" => outcome[d] = "sent"
          BY <3>2
        <4> QED BY <1>2, <1>3, <3>2, <4>1, <4>2, ResultMark
      <3> QED BY <3>1, <3>2
    <2> QED BY <2>1, <2>2 DEF SentOf
  <1>11. BudgetOf(t)'
    <2>1. round_attempt_count[t] <= Max(Retries) + 1 + lost[t]
      BY <1>0 DEF BudgetOf
    <2>2. state'[t] = "open" /\ token'[t] = 0 => round_attempt_count[t] <= Max(Retries) + lost[t]
      <3>1. CASE state'[t] = state[t] /\ token'[t] = token[t]
        BY <1>0, <3>1 DEF BudgetOf
      <3>2. CASE token[t] = job[d].token /\ (state'[t] = "open" => outcome[d] = "retry")
        <4>1. outcome[d] = "retry" => n <= Max(Retries)
          BY <1>0 DEF OutcomeTrue, n
        <4> QED BY <1>2, <1>5, <3>2, <4>1
      <3> QED BY <3>1, <3>2
    <2> QED BY <2>1, <2>2 DEF BudgetOf
  <1>12. RowsHold'
    <2>1. \A u \in Tasks : RowInOrder(u)' /\ HistoryOf(u)' /\ SentOf(u)' /\ BudgetOf(u)'
      BY <1>7, <1>8, <1>9, <1>10, <1>11
    <2> QED BY <2>1 DEF RowsHold
  <1>13. \A e \in Dispatchers : Working(e)' => e # d /\ Working(e) /\ job'[e] = job[e] /\ outcome'[e] = outcome[e]
                                               /\ job[e].task \in Tasks /\ job[e].round \in Rounds /\ job[e].attempt \in Attempts
                                               /\ Attempt(job[e]) = <<job[e].task, job[e].round, job[e].attempt>>
    BY <1>0, DoneRest, JobIs
  <1>14. state'[t] \in Exists /\ (token'[t] = token[t] \/ token'[t] = 0)
    BY DEF Exists, Terminal
  <1>15. \A e \in Dispatchers : /\ Live(e)' => Live(e)
                                /\ Working(e)' => state'[job[e].task] # "absent"
    <2>1. \A e \in Dispatchers : OutcomeTrue(e)
      BY DEF MailInv, JobsHold
    <2> QED BY <1>13, <1>14, <2>1 DEF Live, OutcomeTrue, Exists, Terminal
  <1>16. \A e \in Dispatchers : OutcomeTrue(e)'
    <2>1. \A e \in Dispatchers : OutcomeTrue(e)
      BY DEF MailInv, JobsHold
    <2> QED BY <1>13, <1>15, <2>1 DEF OutcomeTrue
  <1>17. \A e \in Dispatchers : JobInOrder(e)'
    <2> SUFFICES ASSUME NEW e \in Dispatchers, Live(e)'
                 PROVE  JobInOrder(e)'
      BY DEF JobInOrder
    <2>1. e # d /\ Live(e) /\ JobInOrder(e) /\ job'[e] = job[e] /\ job[e].task \in Tasks
      BY <1>13, <1>15 DEF Live, MailInv, JobsHold
    <2>2. Attempt(job[e]) # Attempt(job[d])
      BY <1>0, <2>1 DEF MailInv, JobsHold, Apart
    <2>3. attempts'[job[e].task][job[e].round][job[e].attempt] = attempts[job[e].task][job[e].round][job[e].attempt]
      <3>1. /\ job[e].round \in Rounds /\ job[e].attempt \in Attempts
            /\ <<job[e].task, job[e].round, job[e].attempt>> # <<t, r, n>>
        BY <1>1, <1>13, <2>2 DEF Live
      <3>2. CASE job[e].task # t
        BY <1>3, <2>1, <3>2
      <3>3. CASE job[e].task = t
        <4>1. job[e].round # r \/ job[e].attempt # n
          BY <3>1, <3>3
        <4> QED BY <1>3, <3>1, <3>3, <4>1
      <3> QED BY <3>2, <3>3
    <2>4. token'[job[e].task] = token[job[e].task] \/ token'[job[e].task] = 0
      BY <1>14, <2>1
    <2>5. /\ job[e].token >= 1 /\ job[e].token <= attempt_count[job[e].task]
          /\ Given(job[e].task, job[e].round, job[e].attempt)
          /\ token[job[e].task] = job[e].token =>
               job[e].round = round_number[job[e].task] /\ job[e].attempt = round_attempt_count[job[e].task]
          /\ attempts[job[e].task][job[e].round][job[e].attempt] # "sent"
      BY <2>1 DEF JobInOrder
    <2>6. job[e].token # 0
      BY <2>5
    <2>7. token'[job[e].task] = job[e].token => token[job[e].task] = job[e].token
      BY <2>4, <2>6
    <2> QED BY <2>1, <2>3, <2>5, <2>7 DEF JobInOrder, Given
  <1>18. \A e, f \in Dispatchers : Apart(e, f)'
    BY <1>13, <1>15 DEF MailInv, JobsHold, Apart, Live
  <1> QED BY <1>12, <1>16, <1>17, <1>18 DEF MailInv, JobsHold

\* With the lease, the attempt that the row calls its latest is the one of the process.
LEMMA ReportSteps ==
  ASSUME MailInv, NEW d \in Dispatchers, (Acknowledge(d) /\ Owns(d)) \/ RecordMailAttempt(d)
  PROVE  MailInv'
  <1>0. Shape /\ JobInOrder(d) /\ Working(d)
    BY DEF MailInv, JobsHold, Acknowledge, RecordMailAttempt, Working
  <1>1. Shape'
    BY <1>0, EndShape
  <1> DEFINE t == job[d].task
  <1>2. t \in Tasks /\ outcome[d] \in {"sent", "retry", "dead", "invalid"} /\ Done(d)
    BY <1>0, JobIs DEF Acknowledge, RecordMailAttempt, Shape, TypeOK
  <1>3. state \in [Tasks -> Exists \cup {"absent", "deleted"}] /\ token \in [Tasks -> Nat]
    BY <1>0 DEF Shape, TypeOK
  <1>4. CASE Acknowledge(d) /\ Owns(d)
    <2>1. state[t] = "open" /\ token[t] = job[d].token /\ state[t] \in Exists
      BY <1>4 DEF Owns, Exists
    <2>2. job[d].round = round_number[t] /\ job[d].attempt = round_attempt_count[t]
      BY <1>0, <2>1 DEF JobInOrder, Live
    <2>3. PICK s \in {"sent", "open", "dead", "canceled"} :
            /\ state' = [state EXCEPT ![t] = s]
            /\ s = "sent" <=> outcome[d] = "sent"
            /\ s = "open" <=> outcome[d] = "retry"
      BY <1>0, <1>4, AckEffect
    <2>4. /\ token' = [token EXCEPT ![t] = 0]
          /\ attempts' = [attempts EXCEPT ![t][round_number[t]][round_attempt_count[t]] = Result(d)]
          /\ UNCHANGED <<attempt_count, round_number, round_attempt_count, lost, kind, delivered>>
      BY <1>0, <1>4, AckEffect
    <2>5. attempts' = Written(t, job[d].round, job[d].attempt, Result(d))
      BY <2>2, <2>4 DEF Written
    <2>6. /\ \A u \in Tasks \ {t} : state'[u] = state[u] /\ token'[u] = token[u]
          /\ state'[t] \in {"sent", "open", "dead", "canceled"} /\ token'[t] = 0
          /\ state'[t] = "sent" => outcome[d] = "sent"
          /\ state'[t] = "open" => outcome[d] = "retry"
      BY <1>2, <1>3, <2>3, <2>4
    <2>7. UNCHANGED <<attempt_count, round_number, round_attempt_count, lost, kind, delivered>>
      BY <2>4
    <2> HIDE DEF t
    <2> QED BY <1>0, <1>1, <1>2, <2>1, <2>5, <2>6, <2>7, ReportStep DEF t
  <1>5. CASE RecordMailAttempt(d) /\ state[t] \in Exists
    <2>1. attempts' = Written(t, job[d].round, job[d].attempt, Result(d))
      BY <1>5 DEF RecordMailAttempt, Written
    <2>2. UNCHANGED <<state, token, attempt_count, round_number, round_attempt_count, lost, kind, delivered>>
      BY <1>5 DEF RecordMailAttempt
    <2> HIDE DEF t
    <2> QED BY <1>0, <1>1, <1>2, <1>5, <2>1, <2>2, ReportStep DEF t
  <1>6. CASE RecordMailAttempt(d) /\ state[t] \notin Exists
    <2>1. UNCHANGED <<rows, kind, delivered>>
      BY <1>6 DEF RecordMailAttempt, rows
    <2>2. ~Working(d)' /\ \A e \in Dispatchers \ {d} : Working(e)' = Working(e) /\ job'[e] = job[e] /\ outcome'[e] = outcome[e]
      BY <1>0, <1>2, DoneShape DEF Working
    <2> QED BY <1>1, <2>1, <2>2, LocalStep
  <1> QED BY <1>4, <1>5, <1>6

\* Only the latest attempt of a round can have been without a row, and recovery closes it.
LEMMA LatestClosed ==
  ASSUME Shape, NEW t \in Tasks, RowInOrder(t), round_attempt_count[t] >= 1
  PROVE  CloseMissing(t)[round_number[t]][round_attempt_count[t]] # "none"
  <1> DEFINE r == round_number[t]
             recorded == {n \in Attempts : attempts[t][r][n] # "none"}
             last == IF recorded = {} THEN 0 ELSE Max(recorded)
             closed == [n \in Attempts |-> IF last < n /\ n <= round_attempt_count[t]
                                           THEN "failed" ELSE attempts[t][r][n]]
  <1>1. attempts[t] \in [Rounds -> [Attempts -> Marks]] /\ r \in Rounds /\ r \in Nat
        /\ round_attempt_count[t] \in Attempts /\ round_attempt_count[t] \in Nat
    BY RowTypes, OutboxConstants DEF Attempts
  <1>2. CloseMissing(t) = [attempts[t] EXCEPT ![r] = closed]
    BY DEF CloseMissing
  <1>3. \A n \in recorded : n <= round_attempt_count[t] /\ n \in Nat
    BY <1>1, OutboxConstants DEF RowInOrder, Recorded, Given, Attempts
  <1>4. last < round_attempt_count[t] \/ attempts[t][r][round_attempt_count[t]] # "none"
    <2>1. CASE recorded = {}
      BY <1>1, <2>1
    <2>2. CASE recorded # {}
      <3>1. recorded \in SUBSET (0..round_attempt_count[t])
        BY <1>1, <1>3
      <3>2. Max(recorded) \in recorded
        BY <1>1, <2>2, <3>1, MaxOf
      <3>3. Max(recorded) < round_attempt_count[t] \/ Max(recorded) = round_attempt_count[t]
        <4> HIDE DEF recorded
        <4>1. Max(recorded) \in Nat /\ Max(recorded) <= round_attempt_count[t]
          BY <1>3, <3>2
        <4> QED BY <1>1, <4>1
      <3> QED BY <2>2, <3>2, <3>3
    <2> QED BY <2>1, <2>2
  <1> HIDE DEF last, recorded
  <1>5. closed[round_attempt_count[t]] # "none"
    BY <1>1, <1>4
  <1> QED BY <1>1, <1>2, <1>5

\* What is recorded recovery leaves alone.
LEMMA RecordedStays ==
  ASSUME Shape, NEW t \in Tasks, NEW q \in Rounds, NEW m \in Attempts, Recorded(t, q, m)
  PROVE  CloseMissing(t)[q][m] = attempts[t][q][m]
  <1> DEFINE r == round_number[t]
             recorded == {n \in Attempts : attempts[t][r][n] # "none"}
             last == IF recorded = {} THEN 0 ELSE Max(recorded)
             closed == [n \in Attempts |-> IF last < n /\ n <= round_attempt_count[t]
                                           THEN "failed" ELSE attempts[t][r][n]]
  <1>1. attempts[t] \in [Rounds -> [Attempts -> Marks]] /\ r \in Rounds /\ MaxAttempts \in Nat /\ Attempts \in SUBSET (0..MaxAttempts)
    BY RowTypes, OutboxConstants DEF Attempts
  <1>2. CloseMissing(t) = [attempts[t] EXCEPT ![r] = closed]
    BY DEF CloseMissing
  <1>3. CASE q # r
    BY <1>1, <1>2, <1>3
  <1>4. CASE q = r
    <2>1. m \in recorded
      BY <1>4 DEF Recorded
    <2>2. recorded \in SUBSET (0..MaxAttempts) /\ recorded # {}
      BY <1>1, <2>1
    <2>3. Max(recorded) \in recorded /\ m <= Max(recorded)
      BY <1>1, <2>1, <2>2, MaxOf
    <2> HIDE DEF recorded
    <2>4. Max(recorded) \in Nat /\ m \in Nat
      <3>1. \A k \in 0..MaxAttempts : k \in Nat
        BY <1>1
      <3>2. Max(recorded) \in 0..MaxAttempts /\ m \in 0..MaxAttempts
        BY <2>1, <2>2, <2>3
      <3> QED BY <3>1, <3>2
    <2>5. ~(last < m)
      BY <2>2, <2>3, <2>4
    <2> HIDE DEF last
    <2> QED BY <1>1, <1>2, <1>4, <2>5
  <1> QED BY <1>3, <1>4

\* A claim gives out the next attempt of the round, and closes the one before it if its
\* result never came; whoever still works on that one no longer has the lease.
LEMMA ClaimStep ==
  ASSUME MailInv, NEW d \in Dispatchers, ClaimMail(d), outcome[d] = "none"
  PROVE  MailInv'
  <1>0. Shape /\ pc[d] = "claim" /\ UNCHANGED <<kind, outcome, delivered, faults, lapses>>
    BY DEF MailInv, ClaimMail
  <1>1. Shape'
    BY <1>0, ClaimShape
  <1>2. CASE UNCHANGED <<rows, job>> /\ pc' = [pc EXCEPT ![d] = "sweep"]
    <2>1. ~Working(d)' /\ \A e \in Dispatchers \ {d} : Working(e)' = Working(e)
      BY <1>0, <1>2 DEF Working, Shape, TypeOK
    <2> QED BY <1>0, <1>1, <1>2, <2>1, LocalStep
  <1>3. CASE ~(UNCHANGED <<rows, job>> /\ pc' = [pc EXCEPT ![d] = "sweep"])
    <2>1. PICK t \in Tasks :
            /\ Claimable(t) /\ round_attempt_count[t] + 1 \in Attempts
            /\ job' = [job EXCEPT ![d] = [task |-> t, token |-> attempt_count[t] + 1, round |-> round_number[t],
                                          attempt |-> round_attempt_count[t] + 1]]
            /\ pc' = [pc EXCEPT ![d] = "send"]
            /\ attempts' = [attempts EXCEPT ![t] = CloseMissing(t)]
            /\ attempt_count' = [attempt_count EXCEPT ![t] = @ + 1]
            /\ round_attempt_count' = [round_attempt_count EXCEPT ![t] = @ + 1]
            /\ token' = [token EXCEPT ![t] = attempt_count[t] + 1]
            /\ lost' = [lost EXCEPT ![t] = @ + (IF token[t] # 0 THEN 1 ELSE 0)]
            /\ UNCHANGED <<state, round_number>>
      BY <1>0, <1>3, ClaimEffect
    <2> DEFINE r == round_number[t]
               n == round_attempt_count[t]
               c == attempt_count[t]
    <2>2. /\ job'[d].task = t /\ job'[d].token = c + 1 /\ job'[d].round = r /\ job'[d].attempt = n + 1
          /\ Working(d)' /\ ~Working(d)
          /\ attempts'[t] = CloseMissing(t) /\ attempt_count'[t] = c + 1 /\ round_attempt_count'[t] = n + 1
          /\ token'[t] = c + 1 /\ lost'[t] = lost[t] + (IF token[t] # 0 THEN 1 ELSE 0)
          /\ \A u \in Tasks \ {t} : /\ attempts'[u] = attempts[u] /\ attempt_count'[u] = attempt_count[u]
                                    /\ round_attempt_count'[u] = round_attempt_count[u]
                                    /\ token'[u] = token[u] /\ lost'[u] = lost[u]
          /\ \A e \in Dispatchers \ {d} : job'[e] = job[e] /\ Working(e)' = Working(e)
      BY <1>0, <2>1 DEF Working, Shape, TypeOK
    <2>3. RowInOrder(t) /\ HistoryOf(t) /\ SentOf(t) /\ BudgetOf(t)
      BY DEF MailInv, RowsHold
    <2>4. /\ r \in Rounds /\ r \in Nat /\ r >= 1 /\ n \in Nat /\ c \in Nat /\ lost[t] \in Nat /\ token[t] \in Nat
          /\ Max(Retries) \in Nat /\ n + 1 \in Attempts
      BY <1>0, <2>1, RowTypes, MaxRetries
    <2>5. state[t] = "open" /\ state' = state /\ round_number' = round_number
      BY <2>1 DEF Claimable
    <2>6. \A q \in Rounds, m \in Attempts :
            \/ attempts'[t][q][m] = attempts[t][q][m]
            \/ q = r /\ m <= n /\ attempts'[t][q][m] = "failed"
      BY <1>0, <2>2, MissingClosed
    <2>7. n >= 1 => attempts'[t][r][n] # "none"
      BY <1>0, <2>2, <2>3, LatestClosed
    <2>8. \A q \in Rounds, m \in Attempts : attempts[t][q][m] # "none" =>
             attempts'[t][q][m] # "none" /\ (q < r \/ (q = r /\ m <= n))
      BY <2>3, <2>6 DEF RowInOrder, Recorded, Given
    <2> HIDE DEF r, n, c
    <2>9. ASSUME NEW u \in Tasks, u # t
          PROVE  RowInOrder(u)' /\ HistoryOf(u)' /\ SentOf(u)' /\ BudgetOf(u)'
      <3>1. RowKept(u)
        BY <2>2, <2>5, <2>9 DEF RowKept, CountersStay
      <3> QED BY <1>0, <1>1, <2>9, <3>1, KeptRow DEF MailInv, RowsHold
    <2>10. RowInOrder(t)'
      <3>1. \A q \in Rounds, m \in Attempts : attempts'[t][q][m] # "none" => q < r \/ (q = r /\ m <= n + 1)
        <4> SUFFICES ASSUME NEW q \in Rounds, NEW m \in Attempts, attempts'[t][q][m] # "none"
                     PROVE  q < r \/ (q = r /\ m <= n + 1)
          OBVIOUS
        <4>1. q < r \/ (q = r /\ m <= n)
          BY <2>6, <2>8
        <4>2. m \in Nat
          BY OutboxConstants DEF Attempts
        <4> QED BY <2>4, <4>1, <4>2
      <3> QED BY <2>2, <2>4, <2>5, <3>1 DEF RowInOrder, Recorded, Given, Terminal, r
    <2>11. HistoryOf(t)'
      <3> SUFFICES ASSUME ~Legacy(t)
                   PROVE  /\ \A m \in 1..n : attempts'[t][r][m] # "none"
                          /\ \A q \in 1..(r - 1) : attempts'[t][q][1] # "none"
        BY <1>0, <2>2, <2>4, <2>5 DEF HistoryOf, Recorded, Legacy, r
      <3>1. /\ \A m \in 1..(n - 1) : attempts[t][r][m] # "none" /\ m \in Attempts
            /\ \A q \in 1..(r - 1) : attempts[t][q][1] # "none" /\ q \in Rounds
            /\ 1 \in Attempts
        BY <2>3, <2>4, <2>5, OutboxConstants DEF HistoryOf, Exists, Recorded, Attempts, Rounds, r, n
      <3>2. ASSUME NEW m \in 1..n
            PROVE  attempts'[t][r][m] # "none"
        <4>1. CASE m = n
          BY <2>4, <2>7, <4>1
        <4>2. CASE m # n
          <5>1. m \in 1..(n - 1)
            BY <2>4, <4>2
          <5> QED BY <2>4, <2>8, <3>1, <5>1
        <4> QED BY <4>1, <4>2
      <3> QED BY <2>8, <3>1, <3>2
    <2>12. SentOf(t)'
      <3>1. \A q \in Rounds, m \in Attempts : attempts'[t][q][m] = "sent" => attempts[t][q][m] = "sent"
        BY <2>6
      <3> QED BY <1>0, <2>3, <2>5, <3>1 DEF SentOf
    <2>13. BudgetOf(t)'
      <3>1. n + 1 <= Max(Retries) + 1 + lost'[t]
        BY <2>2, <2>3, <2>4, <2>5 DEF BudgetOf, n
      <3> QED BY <2>2, <2>4, <3>1 DEF BudgetOf
    <2>14. RowsHold'
      <3>1. \A u \in Tasks : RowInOrder(u)' /\ HistoryOf(u)' /\ SentOf(u)' /\ BudgetOf(u)'
        BY <2>9, <2>10, <2>11, <2>12, <2>13
      <3> QED BY <3>1 DEF RowsHold
    <2>15. JobInOrder(d)'
      <3>1. attempts'[t][r][n + 1] # "sent"
        BY <2>4, <2>6, <2>8
      <3> QED BY <2>2, <2>4, <2>5, <3>1 DEF JobInOrder, Given, r
    <2>16. OutcomeTrue(d)'
      BY <1>0, <2>2, <2>5 DEF OutcomeTrue
    <2>17. ASSUME NEW e \in Dispatchers, e # d
           PROVE  JobInOrder(e)' /\ OutcomeTrue(e)'
      <3>1. JobInOrder(e) /\ OutcomeTrue(e)
        BY DEF MailInv, JobsHold
      <3>2. OutcomeTrue(e)'
        BY <1>0, <2>2, <2>5, <2>17, <3>1 DEF OutcomeTrue
      <3> SUFFICES ASSUME Live(e)'
                   PROVE  JobInOrder(e)'
        BY <3>2 DEF JobInOrder
      <3>3. /\ Live(e) /\ job'[e] = job[e] /\ job[e].task \in Tasks /\ job[e].round \in Rounds
            /\ job[e].attempt \in Attempts /\ job[e].token \in Nat /\ job[e].attempt \in Nat
        BY <1>0, <2>2, <2>5, <2>17, JobIs, OutboxConstants DEF Live, Jobs, Attempts
      <3>4. /\ job[e].token >= 1 /\ job[e].token <= attempt_count[job[e].task]
            /\ Given(job[e].task, job[e].round, job[e].attempt)
            /\ token[job[e].task] = job[e].token =>
                 job[e].round = round_number[job[e].task] /\ job[e].attempt = round_attempt_count[job[e].task]
            /\ attempts[job[e].task][job[e].round][job[e].attempt] # "sent"
        BY <3>1, <3>3 DEF JobInOrder
      <3>5. CASE job[e].task = t
        <4>1. job[e].token <= c /\ (job[e].round < r \/ (job[e].round = r /\ job[e].attempt <= n))
          BY <3>4, <3>5 DEF Given, c, r, n
        <4>2. /\ job[e].token >= 1 /\ job[e].token <= c + 1 /\ job[e].token # c + 1
              /\ (job[e].round < r \/ (job[e].round = r /\ job[e].attempt <= n + 1))
          BY <2>4, <3>3, <3>4, <4>1
        <4>3. attempts'[t][job[e].round][job[e].attempt] # "sent"
          BY <2>6, <3>3, <3>4, <3>5
        <4> QED BY <2>2, <2>5, <3>3, <3>5, <4>2, <4>3 DEF JobInOrder, Given, r
      <3>6. CASE job[e].task # t
        <4>1. /\ attempts'[job[e].task] = attempts[job[e].task] /\ token'[job[e].task] = token[job[e].task]
              /\ attempt_count'[job[e].task] = attempt_count[job[e].task]
              /\ round_attempt_count'[job[e].task] = round_attempt_count[job[e].task]
          BY <2>2, <3>3, <3>6
        <4> QED BY <2>5, <3>3, <3>4, <4>1 DEF JobInOrder, Given
      <3> QED BY <3>5, <3>6
    <2>18. ASSUME NEW e \in Dispatchers, e # d, Live(e)'
           PROVE  Attempt(job'[e]) # Attempt(job'[d])
      <3>1. JobInOrder(e) /\ Live(e) /\ job'[e] = job[e] /\ job[e].attempt \in Nat
        BY <1>0, <2>2, <2>5, <2>18, JobIs, OutboxConstants DEF MailInv, JobsHold, Live, Attempts
      <3>2. SUFFICES ASSUME job[e].task = t, job[e].round = r, job[e].attempt = n + 1
                     PROVE  FALSE
        BY <2>2, <3>1 DEF Attempt
      <3>3. r < r \/ n + 1 <= n
        BY <3>1, <3>2 DEF JobInOrder, Given, r, n
      <3> QED BY <2>4, <3>3
    <2>19. \A e, f \in Dispatchers : Apart(e, f)'
      <3> SUFFICES ASSUME NEW e \in Dispatchers, NEW f \in Dispatchers, Live(e)', Live(f)', e # f
                   PROVE  Attempt(job'[e]) # Attempt(job'[f])
        BY DEF Apart
      <3>1. CASE e # d /\ f # d
        <4>1. Live(e) /\ Live(f) /\ job'[e] = job[e] /\ job'[f] = job[f]
          BY <2>2, <2>5, <3>1 DEF Live
        <4> QED BY <4>1 DEF MailInv, JobsHold, Apart
      <3>2. CASE e = d
        BY <2>18, <3>2
      <3>3. CASE f = d
        BY <2>18, <3>3
      <3> QED BY <3>1, <3>2, <3>3
    <2>20. JobsHold'
      BY <2>15, <2>16, <2>17, <2>19 DEF JobsHold
    <2> QED BY <1>1, <2>14, <2>20 DEF MailInv
  <1> QED BY <1>2, <1>3

\* A process that holds no task has no outcome.
Blank == \A d \in Dispatchers : ~Working(d) => outcome[d] = "none"

LEMMA BlankStep ==
  ASSUME Shape, Blank, [Next]_vars
  PROVE  Blank'
  <1>0. /\ pc \in [Dispatchers -> {"sweep", "cleanup", "claim", "send", "policy", "ack", "record"}]
        /\ outcome \in [Dispatchers -> Codes]
    BY DEF Shape, TypeOK
  <1>1. CASE UNCHANGED vars
    BY <1>1 DEF vars, locals, Blank, Working
  <1>2. ASSUME NEW t \in Tasks,
               \/ EnqueueMailTask(t) \/ Supersede(t) \/ (\E how \in {"gone", "expired"} : AuthorityEnds(t, how))
               \/ RetryMailTask(t) \/ DeleteMailTask(t) \/ LeaseExpires(t) \/ BackoffEnds(t)
        PROVE  Blank'
    <2>1. UNCHANGED <<pc, outcome>>
      BY <1>2 DEF EnqueueMailTask, Supersede, AuthorityEnds, RetryMailTask, DeleteMailTask, LeaseExpires,
                  BackoffEnds, locals
    <2> QED BY <2>1 DEF Blank, Working
  <1>3. ASSUME NEW d \in Dispatchers, SweepMail(d) \/ CleanupMail(d) \/ ClaimMail(d)
        PROVE  Blank'
    <2>1. ~Working(d) /\ UNCHANGED outcome
      BY <1>3 DEF SweepMail, CleanupMail, ClaimMail, Working
    <2>2. \A e \in Dispatchers \ {d} : pc'[e] = pc[e]
      BY <1>0, <1>3 DEF SweepMail, CleanupMail, ClaimMail, Goto
    <2> QED BY <2>1, <2>2 DEF Blank, Working
  <1>4. ASSUME NEW d \in Dispatchers, Send(d) \/ DecideRetry(d) \/ (Acknowledge(d) /\ ~Owns(d))
        PROVE  Blank'
    <2>1. PICK p \in {"policy", "ack", "record"} : pc' = [pc EXCEPT ![d] = p]
      BY <1>4 DEF Send, DecideRetry, Acknowledge, Goto
    <2>2. \A e \in Dispatchers \ {d} : outcome'[e] = outcome[e]
      BY <1>0, <1>4 DEF Send, DecideRetry, Acknowledge
    <2> QED BY <1>0, <2>1, <2>2 DEF Blank, Working
  <1>5. ASSUME NEW d \in Dispatchers, (Acknowledge(d) /\ Owns(d)) \/ RecordMailAttempt(d) \/ Fails(d)
        PROVE  Blank'
    <2>1. Done(d)
      BY <1>5 DEF Acknowledge, RecordMailAttempt, Fails
    <2> QED BY <2>1, DoneShape DEF Blank, Working
  <1> QED BY <1>1, <1>2, <1>3, <1>4, <1>5 DEF Next, ProcessOnce

LEMMA MailStart ==
  ASSUME Init
  PROVE  MailInv /\ Blank
  <1>1. Shape
    BY ShapeStart
  <1>2. /\ \A t \in Tasks : /\ token[t] = 0 /\ round_attempt_count[t] = 0 /\ round_number[t] = 1
                            /\ attempts[t] = NoAttempts /\ lost[t] = 0 /\ state[t] \in {"open", "absent"}
        /\ \A d \in Dispatchers : ~Working(d) /\ outcome[d] = "none"
    BY DEF Init, Working
  <1>3. Max(Retries) \in Nat
    BY MaxRetries
  <1>4. \A t \in Tasks : RowInOrder(t) /\ HistoryOf(t) /\ SentOf(t) /\ BudgetOf(t)
    <2> SUFFICES ASSUME NEW t \in Tasks
                 PROVE  RowInOrder(t) /\ HistoryOf(t) /\ SentOf(t) /\ BudgetOf(t)
      OBVIOUS
    <2>1. \A r \in Rounds, n \in Attempts : attempts[t][r][n] = "none"
      BY <1>2, NoneThere
    <2> QED BY <1>2, <1>3, <2>1 DEF RowInOrder, HistoryOf, SentOf, BudgetOf, Recorded, Terminal
  <1>5. RowsHold
    BY <1>4 DEF RowsHold
  <1>6. JobsHold
    BY <1>2 DEF JobsHold, JobInOrder, OutcomeTrue, Apart, Live
  <1> QED BY <1>1, <1>2, <1>5, <1>6 DEF MailInv, Blank

LEMMA MailStep ==
  ASSUME MailInv, Blank, [Next]_vars
  PROVE  MailInv' /\ Blank'
  <1>0. Blank'
    BY BlankStep DEF MailInv
  <1>1. CASE UNCHANGED vars
    BY <1>0, <1>1, QuietSteps
  <1>2. ASSUME NEW t \in Tasks,
               \/ EnqueueMailTask(t) \/ Supersede(t) \/ (\E how \in {"gone", "expired"} : AuthorityEnds(t, how))
               \/ LeaseExpires(t) \/ BackoffEnds(t)
        PROVE  MailInv'
    BY <1>2, QuietSteps
  <1>3. ASSUME NEW t \in Tasks, RetryMailTask(t)
        PROVE  MailInv'
    BY <1>3, RetryStep
  <1>4. ASSUME NEW t \in Tasks, DeleteMailTask(t)
        PROVE  MailInv'
    BY <1>4, RemoveSteps
  <1>5. ASSUME NEW d \in Dispatchers, CleanupMail(d)
        PROVE  MailInv'
    BY <1>5, RemoveSteps
  <1>6. ASSUME NEW d \in Dispatchers, SweepMail(d)
        PROVE  MailInv'
    BY <1>6, SweepStep
  <1>7. ASSUME NEW d \in Dispatchers, ClaimMail(d)
        PROVE  MailInv'
    <2>1. outcome[d] = "none"
      BY <1>7 DEF Blank, Working, ClaimMail
    <2> QED BY <1>7, <2>1, ClaimStep
  <1>8. ASSUME NEW d \in Dispatchers, Send(d) \/ DecideRetry(d) \/ Fails(d) \/ (Acknowledge(d) /\ ~Owns(d))
        PROVE  MailInv'
    BY <1>8, LocalSteps
  <1>9. ASSUME NEW d \in Dispatchers, (Acknowledge(d) /\ Owns(d)) \/ RecordMailAttempt(d)
        PROVE  MailInv'
    BY <1>9, ReportSteps
  <1> QED BY <1>0, <1>1, <1>2, <1>3, <1>4, <1>5, <1>6, <1>7, <1>8, <1>9 DEF Next, ProcessOnce

LEMMA MailInvariance == Spec => [](MailInv /\ Blank)
  <1>1. Init => MailInv /\ Blank
    BY MailStart
  <1>2. (MailInv /\ Blank) /\ [Next]_vars => (MailInv /\ Blank)'
    BY MailStep
  <1> QED BY <1>1, <1>2, PTL DEF Spec

\* Whatever crashed, came late or was taken over: every attempt of a sealed task is in its
\* history, except the one under the current lease (ClaimMail's recovery, SweepMail,
\* RecordMailAttempt).
THEOREM HistoryKept == Spec => []HistoryComplete
  <1>1. MailInv => HistoryComplete
    BY DEF MailInv, RowsHold, HistoryOf, HistoryComplete
  <1> QED BY <1>1, MailInvariance, PTL

\* An attempt shown as sent was sent, a task marked sent was sent by its last attempt, and only
\* attempts whose lease was lost exceed the retry budget (MarkMailSent, RetryMail, the claim).
THEOREM AttemptsAreTrue == Spec => []AttemptsTrue
  <1>1. MailInv => AttemptsTrue
    BY DEF MailInv, RowsHold, SentOf, BudgetOf, AttemptsTrue, SentMeansDelivered, BudgetHolds
  <1> QED BY <1>1, MailInvariance, PTL

\* What may happen to a task in a step.
StaysOf(t) ==
  /\ state[t] \in Terminal /\ state'[t] = "open" => round_number'[t] = round_number[t] + 1
  /\ state[t] = "sent" => state'[t] \in {"sent", "deleted"}
  /\ state[t] = "deleted" => state'[t] = "deleted" /\ attempts'[t] = NoAttempts
  /\ state'[t] # "deleted" => \A r \in Rounds, n \in Attempts :
       attempts[t][r][n] = "sent" => attempts'[t][r][n] = "sent"

\* Most steps leave the state of a task that is not open, and every attempt that is sent.
LEMMA QuietStays ==
  ASSUME NEW t \in Tasks, RowInOrder(t), state[t] \notin {"open", "absent"} => state'[t] = state[t],
         \A r \in Rounds, n \in Attempts : attempts[t][r][n] = "sent" => attempts'[t][r][n] = "sent",
         state[t] = "deleted" => attempts'[t] = attempts[t]
  PROVE  StaysOf(t)
  BY DEF StaysOf, RowInOrder, Terminal

LEMMA TaskStays ==
  ASSUME MailInv, NEW t \in Tasks, NEW u \in Tasks,
         \/ EnqueueMailTask(u) \/ Supersede(u) \/ (\E how \in {"gone", "expired"} : AuthorityEnds(u, how))
         \/ RetryMailTask(u) \/ LeaseExpires(u) \/ BackoffEnds(u)
  PROVE  StaysOf(t)
  <1>0. Shape /\ RowInOrder(t) /\ state \in [Tasks -> Exists \cup {"absent", "deleted"}] /\ round_number \in [Tasks -> Rounds]
    BY DEF MailInv, RowsHold, Shape, TypeOK
  <1>1. UNCHANGED attempts
    BY DEF EnqueueMailTask, Supersede, AuthorityEnds, RetryMailTask, LeaseExpires, BackoffEnds
  <1>2. CASE RetryMailTask(u) /\ t = u
    BY <1>0, <1>1, <1>2 DEF RetryMailTask, StaysOf, RowInOrder
  <1>3. CASE ~(RetryMailTask(u) /\ t = u)
    <2>1. state[t] \notin {"open", "absent"} => state'[t] = state[t]
      BY <1>0, <1>3 DEF EnqueueMailTask, Supersede, AuthorityEnds, RetryMailTask, LeaseExpires, BackoffEnds
    <2> QED BY <1>0, <1>1, <2>1, QuietStays
  <1> QED BY <1>2, <1>3

LEMMA RemovedStays ==
  ASSUME MailInv, NEW t \in Tasks, NEW T \in SUBSET Tasks, Remove(T)
  PROVE  StaysOf(t)
  <1>0. Shape /\ RowInOrder(t)
    BY DEF MailInv, RowsHold
  <1>1. CASE t \in T
    <2>1. state'[t] = "deleted" /\ attempts'[t] = NoAttempts
      BY <1>0, <1>1, Removed
    <2> QED BY <2>1 DEF StaysOf
  <1>2. CASE t \notin T
    <2>1. state'[t] = state[t] /\ attempts'[t] = attempts[t]
      BY <1>0, <1>2, Removed
    <2> QED BY <1>0, <2>1, QuietStays
  <1> QED BY <1>1, <1>2

LEMMA SweepStays ==
  ASSUME MailInv, NEW t \in Tasks, NEW d \in Dispatchers, SweepMail(d)
  PROVE  StaysOf(t)
  <1>0. Shape /\ RowInOrder(t)
    BY DEF MailInv, RowsHold
  <1>1. state[t] # "open" => state'[t] = state[t] /\ attempts'[t] = attempts[t]
    BY DEF SweepMail, Discardable, Unrecorded
  <1>2. attempts'[t] = attempts[t] \/ (Unrecorded(t) /\ attempts'[t] = CloseAttempt(t))
    BY DEF SweepMail
  <1>3. \A r \in Rounds, n \in Attempts : attempts[t][r][n] = "sent" => attempts'[t][r][n] = "sent"
    BY <1>0, <1>2, AttemptClosed DEF Unrecorded
  <1> QED BY <1>0, <1>1, <1>3, QuietStays

LEMMA ClaimStays ==
  ASSUME MailInv, NEW t \in Tasks, NEW d \in Dispatchers, ClaimMail(d)
  PROVE  StaysOf(t)
  <1>0. Shape /\ RowInOrder(t) /\ attempts \in Histories
    BY DEF MailInv, RowsHold, Shape, TypeOK, Histories, Marks
  <1>1. CASE UNCHANGED rows
    BY <1>0, <1>1, QuietStays DEF rows
  <1>2. CASE ~UNCHANGED rows
    <2>1. PICK u \in Tasks : Claimable(u) /\ attempts' = [attempts EXCEPT ![u] = CloseMissing(u)] /\ UNCHANGED state
      BY <1>0, <1>2, ClaimEffect DEF rows
    <2>2. t # u => attempts'[t] = attempts[t]
      BY <1>0, <2>1 DEF Histories
    <2>3. t = u => state[t] = "open" /\ attempts'[t] = CloseMissing(t)
      BY <1>0, <2>1 DEF Histories, Claimable
    <2>4. \A r \in Rounds, n \in Attempts : attempts[t][r][n] = "sent" => attempts'[t][r][n] = "sent"
      <3>1. CASE t # u
        BY <2>2, <3>1
      <3>2. CASE t = u
        <4> SUFFICES ASSUME NEW r \in Rounds, NEW n \in Attempts, attempts[t][r][n] = "sent"
                     PROVE  CloseMissing(t)[r][n] = "sent"
          BY <2>3, <3>2
        <4> QED BY <1>0, RecordedStays DEF Recorded
      <3> QED BY <3>1, <3>2
    <2> QED BY <1>0, <2>1, <2>2, <2>3, <2>4, QuietStays
  <1> QED BY <1>1, <1>2

LEMMA ReportStays ==
  ASSUME MailInv, NEW t \in Tasks, NEW d \in Dispatchers,
         Send(d) \/ DecideRetry(d) \/ Acknowledge(d) \/ RecordMailAttempt(d) \/ Fails(d)
  PROVE  StaysOf(t)
  <1>0. /\ Shape /\ RowInOrder(t) /\ JobInOrder(d) /\ attempts \in Histories
        /\ state \in [Tasks -> Exists \cup {"absent", "deleted"}]
    BY DEF MailInv, RowsHold, JobsHold, Shape, TypeOK, Histories, Marks
  <1>1. CASE UNCHANGED <<state, attempts>>
    BY <1>0, <1>1, QuietStays
  <1>2. CASE ~UNCHANGED <<state, attempts>>
    <2> DEFINE u == job[d].task
               r == job[d].round
               n == job[d].attempt
    <2>1. \/ Acknowledge(d) /\ Owns(d)
          \/ RecordMailAttempt(d) /\ state[u] \in Exists
      BY <1>2 DEF Send, DecideRetry, Acknowledge, RecordMailAttempt, Fails, rows
    <2>2. Working(d) /\ state[u] \in Exists /\ u \in Tasks /\ r \in Rounds /\ n \in Attempts
      BY <1>0, <2>1, JobIs DEF Acknowledge, Owns, RecordMailAttempt, Working, Exists
    <2>3. attempts[u][r][n] # "sent"
      BY <1>0, <2>2 DEF JobInOrder, Live
    <2>4. attempts' = Written(u, r, n, Result(d)) /\ (state' = state \/ (state[u] = "open" /\ \E s : state' = [state EXCEPT ![u] = s]))
      <3>1. CASE Acknowledge(d) /\ Owns(d)
        <4>1. r = round_number[u] /\ n = round_attempt_count[u]
          BY <1>0, <2>2, <3>1 DEF JobInOrder, Live, Owns
        <4>2. /\ attempts' = [attempts EXCEPT ![u][round_number[u]][round_attempt_count[u]] = Result(d)]
              /\ \E s : state' = [state EXCEPT ![u] = s]
          BY <1>0, <3>1, AckEffect
        <4>3. state[u] = "open"
          BY <3>1 DEF Owns
        <4> QED BY <4>1, <4>2, <4>3 DEF Written
      <3>2. CASE RecordMailAttempt(d) /\ state[u] \in Exists
        BY <3>2 DEF RecordMailAttempt, Written
      <3> QED BY <2>1, <3>1, <3>2
    <2> HIDE DEF u, r, n
    <2>5. Result(d) \in Marks
      BY ResultMark DEF Marks
    <2>6. /\ \A v \in Tasks : v # u => attempts'[v] = attempts[v]
          /\ \A q \in Rounds, m \in Attempts : q # r \/ m # n => attempts'[u][q][m] = attempts[u][q][m]
      BY <1>0, <2>2, <2>4, <2>5, AttemptWritten
    <2>7. \A q \in Rounds, m \in Attempts : attempts[t][q][m] = "sent" => attempts'[t][q][m] = "sent"
      BY <2>3, <2>6
    <2>8. state[t] # "open" => state'[t] = state[t]
      BY <1>0, <2>4
    <2>9. state[t] = "deleted" => attempts'[t] = attempts[t]
      BY <2>2, <2>6 DEF Exists, Terminal
    <2> QED BY <1>0, <2>7, <2>8, <2>9, QuietStays
  <1> QED BY <1>1, <1>2

\* A recorded delivery stays recorded, whoever sweeps, claims or reports later; a finished
\* task is reopened by a new round only, and a deleted one never.
THEOREM ResultsKept == Spec => ResultsStay
  <1>1. MailInv /\ [Next]_vars =>
          [\A t \in Tasks :
             /\ state[t] \in Terminal /\ state'[t] = "open" => round_number'[t] = round_number[t] + 1
             /\ state[t] = "sent" => state'[t] \in {"sent", "deleted"}
             /\ state[t] = "deleted" => state'[t] = "deleted" /\ attempts'[t] = NoAttempts
             /\ state'[t] # "deleted" => \A r \in Rounds, n \in Attempts :
                  attempts[t][r][n] = "sent" => attempts'[t][r][n] = "sent"]_vars
    <2> SUFFICES ASSUME MailInv, Next, NEW t \in Tasks
                 PROVE  StaysOf(t)
      BY DEF StaysOf
    <2>1. ASSUME NEW u \in Tasks, DeleteMailTask(u)
          PROVE  StaysOf(t)
      <3>1. {u} \in SUBSET Tasks /\ Remove({u})
        BY <2>1 DEF DeleteMailTask
      <3> QED BY <3>1, RemovedStays
    <2>2. ASSUME NEW d \in Dispatchers, CleanupMail(d)
          PROVE  StaysOf(t)
      <3>1. PICK T \in SUBSET Tasks : Remove(T)
        BY <2>2 DEF CleanupMail
      <3> QED BY <3>1, RemovedStays
    <2> QED BY <2>1, <2>2, TaskStays, SweepStays, ClaimStays, ReportStays DEF Next, ProcessOnce
  <1> QED BY <1>1, MailInvariance, PTL DEF Spec, ResultsStay
=============================================================================
