---------------------------- MODULE PersonaActs ----------------------------
(***************************************************************************)
(* The persona act queue: collect.persona_act, the requests that write it  *)
(* and the collectors that drain it (persona_acts.py, migration 0156).     *)
(*                                                                         *)
(* Every connection involved is autocommit, so one SQL statement is one    *)
(* step and anything may happen between two statements of a function:      *)
(* another statement, the passing of time, or the death of the process.    *)
(*                                                                         *)
(* Time is kept per row, as what the SQL compares with clock_timestamp():  *)
(*   age[a]   since requested_at, counted up to TTL (then it has expired)  *)
(*   hold[a]  not_before minus now, counted down to -TTL                   *)
(*   run[a]   since claimed_at, counted up to Stale + 1                    *)
(* so the clock itself has no bound.  A finished row's clocks are zeroed:  *)
(* no statement reads them again.                                          *)
(***************************************************************************)
EXTENDS Integers, Sequences

CONSTANTS
    Acts,        \* ids of rows; an act is never deleted, an id never reused
    Keys,        \* (requested_by, kind, dedupe_key): what makes two asks one act
    Personas,    \* collection accounts the acts are carried out as
    PersonaOf,   \* the persona each key's act is carried out as
    Clients,     \* API requests
    Collectors,  \* collector processes
    Inline,      \* NOCTORNAL_COLLECTOR_INLINE: requests run their own acts
    TTL,         \* ttl_seconds(), in ticks
    Stale,       \* STALE_S, in ticks
    Busy,        \* BUSY_RETRY_S, in ticks
    MaxCrashes,  \* bound on process deaths
    Revocable,   \* bound: the acts whose session may end
    Polls        \* bound: whether scheduled polls take personas

NoAct == "no act"
NoKey == "no key"
Poller == "collection_poll"   \* the collector's scheduled-poll child
NoOne  == "nobody"

ASSUME ProcessAssumption == /\ Clients \cap Collectors = {}
                            /\ {Poller, NoOne} \cap (Clients \cup Collectors) = {}
ASSUME ClockAssumption == /\ TTL \in Nat \ {0}
                          /\ Stale \in Nat
                          /\ Busy \in Nat
ASSUME NullAssumption == NoAct \notin Acts /\ NoKey \notin Keys
ASSUME PersonaAssumption == PersonaOf \in [Keys -> Personas]
ASSUME ModeAssumption == Inline \in BOOLEAN /\ Polls \in BOOLEAN /\ MaxCrashes \in Nat

Procs == Clients \cup Collectors

Live     == {"PENDING", "RUNNING"}
Finished == {"DONE", "REFUSED", "FAILED", "EXPIRED", "CANCELLED"}
Outcome  == {"DONE", "REFUSED", "FAILED"}

VARIABLES
    st,       \* status of each row; "NONE" before it is inserted
    key,      \* requested_by, kind and dedupe_key of each row
    age, hold, run,
    ended,    \* acts whose iam.session has ended
    effect,   \* how many times the act was carried out on the platform
    lock,     \* who holds each persona's advisory lock
    queued,   \* acts with a PERSONA_ACT_QUEUED event
    logged,   \* PERSONA_ACT_FINISHED / _CANCELLED events of each act, in order
    pc,       \* where each process is
    job,      \* the act a process holds in a local variable
    ask,      \* the key a request is submitting
    attempt,  \* submit's loop variable
    out,      \* the status a runner is about to record
    todo,     \* outcome events a process has still to write
    crashes,
    cut       \* ghost: acts that were waiting, unclaimed, with their session ended

rowVars  == <<st, key, age, hold, run>>
procVars == <<pc, job, ask, attempt, out, todo>>
histVars == <<effect, logged, queued, cut>>
vars == <<st, key, age, hold, run, ended, effect, lock, queued, logged,
          pc, job, ask, attempt, out, todo, crashes, cut>>

-----------------------------------------------------------------------------
(* The row, as the SQL reads it *)

Expired(a) == age[a] >= TTL
Lost(a)    == run[a] > Stale          \* claimed_at < now - STALE_S

LiveRow(a) == (st[a] = "PENDING" /\ ~Expired(a)) \/ (st[a] = "RUNNING" /\ ~Lost(a))
DeadRow(a) == (st[a] = "PENDING" /\ Expired(a)) \/ (st[a] = "RUNNING" /\ Lost(a))

\* persona_act_one_live, the partial unique index.
IndexForgetsWaiting(a, k) == st[a] = "RUNNING" /\ key[a] = k            \* a mutant
HoldsIndex(a, k) == st[a] \in Live /\ key[a] = k

\* The conditions under which the UPDATEs keep a row.
ClaimAnyLive(a) == st[a] \in Live /\ ~Expired(a)                        \* a mutant
Claimable(a) == st[a] = "PENDING" /\ ~Expired(a)

CancelAnyLive(a) == st[a] \in Live                                      \* a mutant
MayCancel(a) == st[a] = "PENDING"

FinishRegardless(a) == TRUE                                             \* a mutant
StillRunning(a) == st[a] = "RUNNING"

\* What a sweep makes of a RUNNING act whose collector stopped.
RetryTheLost == "PENDING"                                               \* a mutant
StatusOfItsOwn == "UNKNOWN"                                             \* a mutant
OutcomeUnknown == "FAILED"

\* _recheck's first question.
SessionNotAsked(a) == TRUE                                              \* a mutant
SessionLive(a) == a \notin ended

\* pg_try_advisory_lock
LockNotTried(x) == TRUE                                                 \* a mutant
PersonaFree(x) == lock[x] = NoOne

\* UPDATE ... SET status for every row of S that the statement's WHERE kept.
SetStatus(S, s) ==
    /\ st' = [a \in Acts |-> IF a \in S THEN s ELSE st[a]]
    /\ age' = [a \in Acts |-> IF a \in S THEN 0 ELSE age[a]]
    /\ hold' = [a \in Acts |-> IF a \in S THEN 0 ELSE hold[a]]
    /\ run' = [a \in Acts |-> IF a \in S THEN 0 ELSE run[a]]
    /\ UNCHANGED key

Goto(p, l) == pc' = [pc EXCEPT ![p] = l]

\* The function p was in returns: its locals are gone.
Leave(p, l) ==
    /\ Goto(p, l)
    /\ job' = [job EXCEPT ![p] = NoAct]
    /\ ask' = [ask EXCEPT ![p] = NoKey]
    /\ attempt' = [attempt EXCEPT ![p] = 1]
    /\ out' = [out EXCEPT ![p] = "DONE"]

-----------------------------------------------------------------------------
Init ==
    /\ st = [a \in Acts |-> "NONE"]
    /\ key = [a \in Acts |-> NoKey]
    /\ age = [a \in Acts |-> 0]
    /\ hold = [a \in Acts |-> 0]
    /\ run = [a \in Acts |-> 0]
    /\ ended = {}
    /\ effect = [a \in Acts |-> 0]
    /\ lock = [x \in Personas |-> NoOne]
    /\ queued = {}
    /\ logged = [a \in Acts |-> <<>>]
    /\ pc = [p \in Procs |-> "idle"]
    /\ job = [p \in Procs |-> NoAct]
    /\ ask = [p \in Procs |-> NoKey]
    /\ attempt = [p \in Procs |-> 1]
    /\ out = [p \in Procs |-> "DONE"]
    /\ todo = [p \in Procs |-> {}]
    /\ crashes = 0
    /\ cut = {}

-----------------------------------------------------------------------------
(* submit: the request connection *)

Ask(c, k) ==
    /\ pc[c] = "idle"
    /\ Goto(c, "twin")
    /\ ask' = [ask EXCEPT ![c] = k]
    /\ UNCHANGED <<rowVars, histVars, ended, lock, job, attempt, out, todo, crashes>>

\* A live twin is the answer; otherwise look for a dead one, in a later read.
ReadTwin(c) ==
    /\ pc[c] = "twin"
    /\ \/ \E a \in Acts :
            /\ key[a] = ask[c] /\ LiveRow(a)
            /\ job' = [job EXCEPT ![c] = a]
            /\ Goto(c, "answered")
       \/ /\ ~ \E a \in Acts : key[a] = ask[c] /\ LiveRow(a)
          /\ Goto(c, "dead")
          /\ UNCHANGED job
    /\ UNCHANGED <<rowVars, histVars, ended, lock, ask, attempt, out, todo, crashes>>

ReadDeadTwin(c) ==
    /\ pc[c] = "dead"
    /\ Goto(c, IF \E a \in Acts : key[a] = ask[c] /\ DeadRow(a)
               THEN "sweepPending" ELSE "insert")
    /\ UNCHANGED <<rowVars, histVars, ended, lock, job, ask, attempt, out, todo, crashes>>

\* The INSERT, or the UniqueViolation it meets: one more pass, then the error.
Insert(c) ==
    /\ pc[c] = "insert"
    /\ IF \E a \in Acts : HoldsIndex(a, ask[c])
       THEN /\ UNCHANGED rowVars
            /\ IF attempt[c] = 1
               THEN /\ Goto(c, "twin")
                    /\ attempt' = [attempt EXCEPT ![c] = 2]
                    /\ UNCHANGED <<job, ask, out>>
               ELSE Leave(c, "idle")
       ELSE \E a \in Acts :
            /\ st[a] = "NONE"
            /\ st' = [st EXCEPT ![a] = "PENDING"]
            /\ key' = [key EXCEPT ![a] = ask[c]]
            /\ job' = [job EXCEPT ![c] = a]
            /\ Goto(c, "queuedAudit")
            /\ UNCHANGED <<age, hold, run, ask, attempt, out>>
    /\ UNCHANGED <<histVars, ended, lock, todo, crashes>>

AuditQueued(c) ==
    /\ pc[c] = "queuedAudit"
    /\ queued' = queued \cup {job[c]}
    /\ Goto(c, "answered")
    /\ UNCHANGED <<rowVars, effect, logged, cut, ended, lock, job, ask, attempt, out, todo, crashes>>

\* wait(): the answer, or the deadline.  It reads and changes nothing.
Return(c) ==
    /\ pc[c] = "answered"
    /\ Leave(c, "idle")
    /\ UNCHANGED <<rowVars, histVars, ended, lock, todo, crashes>>

-----------------------------------------------------------------------------
(* cancel: the cancel route on any of the caller's acts, or a stop giving  *)
(* up on the sign-out it queued                                            *)

ReadForCancel(c, a) ==
    /\ pc[c] = "idle" \/ (pc[c] = "answered" /\ job[c] = a)
    /\ st[a] = "PENDING"
    /\ job' = [job EXCEPT ![c] = a]
    /\ Goto(c, "cancel")
    /\ UNCHANGED <<rowVars, histVars, ended, lock, ask, attempt, out, todo, crashes>>

Cancel(c) ==
    /\ pc[c] = "cancel"
    /\ IF MayCancel(job[c])
       THEN /\ SetStatus({job[c]}, "CANCELLED")
            /\ todo' = [todo EXCEPT ![c] = {<<job[c], "CANCELLED">>}]
            /\ Goto(c, "finishAudit")
            /\ UNCHANGED <<job, ask, attempt, out>>
       ELSE /\ Leave(c, "idle")
            /\ UNCHANGED <<rowVars, todo>>
    /\ UNCHANGED <<histVars, ended, lock, crashes>>

-----------------------------------------------------------------------------
(* sweep: two UPDATEs, then one audit event per row they returned *)

SweepPending(p) ==
    /\ pc[p] = "sweepPending"
    /\ LET S == {a \in Acts : st[a] = "PENDING" /\ Expired(a)}
       IN /\ SetStatus(S, "EXPIRED")
          /\ todo' = [todo EXCEPT ![p] = S \X {"EXPIRED"}]
    /\ Goto(p, "sweepRunning")
    /\ UNCHANGED <<histVars, ended, lock, job, ask, attempt, out, crashes>>

SweepRunning(p) ==
    /\ pc[p] = "sweepRunning"
    /\ LET S == {a \in Acts : st[a] = "RUNNING" /\ Lost(a)}
       IN /\ SetStatus(S, OutcomeUnknown)
          /\ todo' = [todo EXCEPT ![p] = @ \cup (S \X {OutcomeUnknown})]
    /\ Goto(p, "sweepAudit")
    /\ UNCHANGED <<histVars, ended, lock, job, ask, attempt, out, crashes>>

\* Where a process goes once it has swept, and once an act is off its hands.
AfterSweep(p) == IF p \in Clients THEN "insert" ELSE "claim"
AfterAct(p)   == IF p \in Clients THEN "idle" ELSE "claim"

\* One INSERT INTO audit.event.
WriteEvent(p) ==
    /\ pc[p] \in {"sweepAudit", "finishAudit"}
    /\ \E e \in todo[p] :
        /\ logged' = [logged EXCEPT ![e[1]] = Append(@, e[2])]
        /\ todo' = [todo EXCEPT ![p] = @ \ {e}]
    /\ UNCHANGED <<rowVars, ended, lock, effect, queued, cut,
                   pc, job, ask, attempt, out, crashes>>

SweepDone(p) ==
    /\ pc[p] = "sweepAudit" /\ todo[p] = {}
    /\ Goto(p, AfterSweep(p))
    /\ UNCHANGED <<rowVars, histVars, ended, lock, job, ask, attempt, out, todo, crashes>>

ActDone(p) ==
    /\ pc[p] = "finishAudit" /\ todo[p] = {}
    /\ Leave(p, AfterAct(p))
    /\ UNCHANGED <<rowVars, histVars, ended, lock, todo, crashes>>

-----------------------------------------------------------------------------
(* Running an act: drain in a collector, run_inline in a request *)

BeginDrain(r) ==
    /\ pc[r] = "idle"
    /\ Goto(r, "sweepPending")
    /\ UNCHANGED <<rowVars, histVars, ended, lock, job, ask, attempt, out, todo, crashes>>

\* The claim limit, max_seconds, should_stop() and an empty queue all end the
\* pass before a claim, never after one.
EndDrain(r) ==
    /\ pc[r] = "claim"
    /\ Goto(r, "idle")
    /\ UNCHANGED <<rowVars, histVars, ended, lock, job, ask, attempt, out, todo, crashes>>

Claim(p, a, l) ==
    /\ st' = [st EXCEPT ![a] = "RUNNING"]
    /\ run' = [run EXCEPT ![a] = 0]
    /\ job' = [job EXCEPT ![p] = a]
    /\ Goto(p, l)
    /\ UNCHANGED <<key, age, hold, histVars, ended, lock, ask, attempt, out, todo, crashes>>

\* ORDER BY not_before, requested_at
Before(a, b) == \/ hold[a] < hold[b]
                \/ hold[a] = hold[b] /\ age[a] >= age[b]

\* FOR UPDATE SKIP LOCKED: a row somebody is cancelling may be passed over.
ClaimNext(r) ==
    /\ pc[r] = "claim"
    /\ LET due == {a \in Acts : Claimable(a) /\ hold[a] <= 0}
           locked == {job[c] : c \in {d \in Clients : pc[d] = "cancel"}}
       IN \E a \in due :
            /\ \A b \in due : Before(a, b) \/ b \in locked
            /\ Claim(r, a, "recheck")

ClaimOwn(c) ==
    /\ Inline
    /\ pc[c] = "answered"
    /\ Claimable(job[c])
    /\ Claim(c, job[c], "execute")

\* The runner's next move, and the status it will try to record.
Decide(p, s) ==
    /\ Goto(p, "finish")
    /\ out' = [out EXCEPT ![p] = s]

\* _recheck: the session, then every permission, readiness and the ceiling.
Recheck(r) ==
    /\ pc[r] = "recheck"
    /\ \/ Decide(r, "REFUSED")
       \/ Decide(r, "FAILED")
       \/ /\ SessionLive(job[r])
          /\ Goto(r, "execute")
          /\ UNCHANGED out
    /\ UNCHANGED <<rowVars, histVars, ended, lock, job, ask, attempt, todo, crashes>>

PersonaFor(p) == PersonaOf[key[job[p]]]

\* The persona's advisory lock, taken before anything is sent or committed.
TakePersona(p) ==
    /\ pc[p] = "execute"
    /\ PersonaFree(PersonaFor(p))
    /\ lock' = [lock EXCEPT ![PersonaFor(p)] = p]
    /\ Goto(p, "acting")
    /\ UNCHANGED <<rowVars, histVars, ended, job, ask, attempt, out, todo, crashes>>

\* CollectionBusy: another runner holds the persona or the source.
PersonaBusy(p) ==
    /\ pc[p] = "execute"
    /\ ~PersonaFree(PersonaFor(p))
    /\ IF p \in Collectors
       THEN Goto(p, "requeue") /\ UNCHANGED out
       ELSE Decide(p, "REFUSED")
    /\ UNCHANGED <<rowVars, histVars, ended, lock, job, ask, attempt, todo, crashes>>

\* The act is carried out, and comes back with what the platform answered.
Execute(p) ==
    /\ pc[p] = "acting"
    /\ effect' = [effect EXCEPT ![job[p]] = @ + 1]
    /\ lock' = [lock EXCEPT ![PersonaFor(p)] = NoOne]
    /\ \E s \in Outcome : Decide(p, s)
    /\ UNCHANGED <<rowVars, logged, queued, cut, ended, job, ask, attempt, todo, crashes>>

\* The persona gate, or the act's own checks, refuse before anything is sent.
GateRefuses(p) ==
    /\ \/ pc[p] = "execute" /\ UNCHANGED lock
       \/ pc[p] = "acting" /\ lock' = [lock EXCEPT ![PersonaFor(p)] = NoOne]
    /\ \E s \in {"REFUSED", "FAILED"} : Decide(p, s)
    /\ UNCHANGED <<rowVars, histVars, ended, job, ask, attempt, todo, crashes>>

\* A mutant: the act goes back with a fresh window.
RequeueAfresh(r) ==
    /\ pc[r] = "requeue"
    /\ StillRunning(job[r])
    /\ st' = [st EXCEPT ![job[r]] = "PENDING"]
    /\ hold' = [hold EXCEPT ![job[r]] = Busy]
    /\ age' = [age EXCEPT ![job[r]] = 0]
    /\ Leave(r, "claim")
    /\ UNCHANGED <<key, run, cut, ended, lock, effect, logged, queued, todo, crashes>>

\* Back in the queue for BUSY_RETRY_S, in the window it was asked for.
Requeue(r) ==
    /\ pc[r] = "requeue"
    /\ IF StillRunning(job[r])
       THEN /\ st' = [st EXCEPT ![job[r]] = "PENDING"]
            /\ hold' = [hold EXCEPT ![job[r]] = Busy]
            /\ run' = [run EXCEPT ![job[r]] = 0]
            /\ cut' = IF job[r] \in ended THEN cut \cup {job[r]} ELSE cut
            /\ UNCHANGED <<key, age>>
       ELSE UNCHANGED <<rowVars, cut>>
    /\ Leave(r, "claim")
    /\ UNCHANGED <<ended, lock, effect, logged, queued, todo, crashes>>

\* A row the sweep has finished keeps the sweep's outcome, and its one event.
Finish(p) ==
    /\ pc[p] = "finish"
    /\ IF StillRunning(job[p])
       THEN /\ SetStatus({job[p]}, out[p])
            /\ todo' = [todo EXCEPT ![p] = {<<job[p], out[p]>>}]
            /\ Goto(p, "finishAudit")
            /\ UNCHANGED <<job, ask, attempt, out>>
       ELSE /\ Leave(p, AfterAct(p))
            /\ UNCHANGED <<rowVars, todo>>
    /\ UNCHANGED <<histVars, ended, lock, crashes>>

-----------------------------------------------------------------------------
(* The rest of the world *)

EndSession(a) ==
    /\ a \in Revocable \ ended /\ st[a] \in Live
    /\ ended' = ended \cup {a}
    /\ cut' = IF st[a] = "PENDING" THEN cut \cup {a} ELSE cut
    /\ UNCHANGED <<rowVars, procVars, effect, lock, queued, logged, crashes>>

\* A scheduled poll takes the persona it reads as, and gives it back.
PollTakes(x) ==
    /\ Polls /\ PersonaFree(x)
    /\ lock' = [lock EXCEPT ![x] = Poller]
    /\ UNCHANGED <<rowVars, procVars, histVars, ended, crashes>>

PollReleases(x) ==
    /\ lock[x] = Poller
    /\ lock' = [lock EXCEPT ![x] = NoOne]
    /\ UNCHANGED <<rowVars, procVars, histVars, ended, crashes>>

\* A process is killed: its locals and its connection's advisory locks are
\* gone, its committed statements are not.
Crash(p) ==
    /\ pc[p] # "idle" /\ crashes < MaxCrashes
    /\ crashes' = crashes + 1
    /\ Leave(p, "idle")
    /\ todo' = [todo EXCEPT ![p] = {}]
    /\ lock' = [x \in Personas |-> IF lock[x] = p THEN NoOne ELSE lock[x]]
    /\ UNCHANGED <<rowVars, histVars, ended>>

Tick ==
    /\ age' = [a \in Acts |-> IF st[a] \in Live /\ age[a] < TTL
                              THEN age[a] + 1 ELSE age[a]]
    /\ hold' = [a \in Acts |-> IF st[a] = "PENDING" /\ hold[a] > -TTL
                               THEN hold[a] - 1 ELSE hold[a]]
    /\ run' = [a \in Acts |-> IF st[a] = "RUNNING" /\ run[a] <= Stale
                              THEN run[a] + 1 ELSE run[a]]
    /\ UNCHANGED <<st, key, histVars, ended, lock, procVars, crashes>>

-----------------------------------------------------------------------------
Submit(c) == \/ \E k \in Keys : Ask(c, k)
             \/ ReadTwin(c) \/ ReadDeadTwin(c) \/ Insert(c) \/ AuditQueued(c) \/ Return(c)
CancelStep(c) == (\E a \in Acts : ReadForCancel(c, a)) \/ Cancel(c)
Sweep(p) == SweepPending(p) \/ SweepRunning(p) \/ SweepDone(p)
RunClaimed(p) == \/ TakePersona(p) \/ PersonaBusy(p) \/ Execute(p) \/ GateRefuses(p)
                 \/ Finish(p)

ClientStep(c) == \/ Submit(c) \/ CancelStep(c) \/ Sweep(c) \/ ClaimOwn(c) \/ RunClaimed(c)
                 \/ WriteEvent(c) \/ ActDone(c)
CollectorStep(r) == \/ BeginDrain(r) \/ Sweep(r) \/ ClaimNext(r) \/ EndDrain(r)
                    \/ Recheck(r) \/ RunClaimed(r) \/ Requeue(r)
                    \/ WriteEvent(r) \/ ActDone(r)

Next == \/ \E c \in Clients : ClientStep(c)
        \/ \E r \in Collectors : CollectorStep(r)
        \/ \E p \in Procs : Crash(p)
        \/ \E a \in Acts : EndSession(a)
        \/ \E x \in Personas : PollTakes(x) \/ PollReleases(x)
        \/ Tick

\* A collector that is running keeps taking steps, and time passes.  Nothing
\* is assumed of the requests: a browser may never ask again.
Fairness == /\ \A r \in Collectors : WF_vars(CollectorStep(r))
            /\ WF_vars(Tick)

Spec == Init /\ [][Next]_vars
FairSpec == Spec /\ Fairness
=============================================================================
