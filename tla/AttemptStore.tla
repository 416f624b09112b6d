---------------------------- MODULE AttemptStore ----------------------------
(* Reservations of one attempt, a recording under a configuration, in the SQLite
   store of src/rust/research/store.rs. Rows do not interact, so one is enough.
   A worker is whoever runs "attempts": it reserves, works with the lease token it
   got, and hands in a result with that token.

   A transaction is one step, since BEGIN IMMEDIATE admits one writer. But the
   clock is read before the transaction, which may wait for the writers before it.
   Time is kept as ages, which count no further than anybody looks: the row's
   start, what every waiting worker read, and the grant of the lease. *)
EXTENDS Naturals

CONSTANTS
    Workers,
    StaleAfter,  \* after which a running attempt may be reclaimed
    MaxWait,     \* SQLite's busy timeout
    MaxFaults    \* crashes, lost answers, busy timeouts and late workers

ASSUME AttemptAssumption ==
    /\ StaleAfter \in Nat
    /\ MaxWait \in Nat
    /\ MaxWait < StaleAfter
    /\ MaxFaults \in Nat

VARIABLES
    status,      \* of the row; "none" when there is no row
    lease,       \* the row's lease token
    result,      \* the lease under which the row's result was computed, or 0
    startedAge,  \* now minus the row's started_at
    grantedAge,  \* now minus the commit that gave the lease
    at, mine,    \* of every worker: where it is, the token it holds
    askedAge,    \* now minus the time a waiting worker has read
    issued,      \* tokens given out; they are random, hence all different
    faults

row == <<status, lease, result, startedAge, grantedAge>>
vars == <<row, at, mine, askedAge, issued, faults>>

Terminal == {"ok", "error", "timeout"}
MaxAge == StaleAfter + MaxWait + 1
Later(age) == IF age < MaxAge THEN age + 1 ELSE age

TypeOK ==
    /\ status \in {"none", "running"} \cup Terminal
    /\ lease \in Nat /\ result \in Nat /\ issued \in Nat
    /\ startedAge \in 0..MaxAge /\ grantedAge \in 0..MaxAge
    /\ at \in [Workers -> {"idle", "asking", "working", "accepted"}]
    /\ mine \in [Workers -> Nat]
    /\ askedAge \in [Workers -> 0..MaxWait]
    /\ faults \in 0..MaxFaults

Init ==
    /\ status = "none"
    /\ lease = 0 /\ result = 0 /\ issued = 0
    /\ startedAge = 0 /\ grantedAge = 0
    /\ at = [w \in Workers |-> "idle"]
    /\ mine = [w \in Workers |-> 0]
    /\ askedAge = [w \in Workers |-> 0]
    /\ faults = 0
-----------------------------------------------------------------------------
(* Reserving *)

\* The clock is read before the connection is opened.
Ask(w) ==
    /\ at[w] = "idle"
    /\ at' = [at EXCEPT ![w] = "asking"]
    /\ askedAge' = [askedAge EXCEPT ![w] = 0]
    /\ UNCHANGED <<row, mine, issued, faults>>

Stale(w) == startedAge > StaleAfter + askedAge[w]

Available_Never(w) == status = "none"
Available_Finished(w) == status # "running" \/ Stale(w)
Available(w) == status = "none" \/ (status = "running" /\ Stale(w))

\* The age of the start that a worker writes: of the time it has read.
StartAge_Kept(w) == IF status = "none" THEN askedAge[w] ELSE startedAge
StartAge(w) == askedAge[w]

\* INSERT, or UPDATE of a stale attempt: a new token, and no result.
Reserve(w) ==
    /\ at[w] = "asking"
    /\ Available(w)
    /\ status' = "running"
    /\ issued' = issued + 1
    /\ lease' = issued'
    /\ result' = 0
    /\ startedAge' = StartAge(w)
    /\ grantedAge' = 0
    /\ mine' = [mine EXCEPT ![w] = issued']
    /\ at' = [at EXCEPT ![w] = "working"]
    /\ UNCHANGED <<askedAge, faults>>

\* Somebody works on it, or it is done.
Refuse(w) ==
    /\ at[w] = "asking"
    /\ ~Available(w)
    /\ at' = [at EXCEPT ![w] = "idle"]
    /\ UNCHANGED <<row, mine, askedAge, issued, faults>>
-----------------------------------------------------------------------------
(* Finishing *)

HoldsLease(w) == status = "running" /\ lease = mine[w]

\* The UPDATE's condition finds the row.
Records(w) ==
    /\ HoldsLease(w)
    /\ status' \in Terminal
    /\ result' = mine[w]
    /\ UNCHANGED <<lease, startedAge, grantedAge>>

\* "attempt is missing or no longer reserved": a stale lease changes nothing.
Finish(w) ==
    /\ at[w] = "working"
    /\ \/ Records(w) /\ at' = [at EXCEPT ![w] = "accepted"]
       \/ /\ ~HoldsLease(w)
          /\ at' = [at EXCEPT ![w] = "idle"]
          /\ UNCHANGED row
    /\ UNCHANGED <<mine, askedAge, issued, faults>>
-----------------------------------------------------------------------------
(* Faults and time *)

Fault == faults < MaxFaults /\ faults' = faults + 1

\* The worker is lost, or gives up after the busy timeout; a transaction under
\* way is rolled back.
Crash(w) ==
    /\ at[w] \in {"asking", "working"}
    /\ Fault
    /\ at' = [at EXCEPT ![w] = "idle"]
    /\ UNCHANGED <<row, mine, askedAge, issued>>

\* The result is committed, the answer is lost: the worker will try again.
FinishUnanswered(w) ==
    /\ at[w] = "working"
    /\ Records(w)
    /\ Fault
    /\ UNCHANGED <<at, mine, askedAge, issued>>

\* A worker in time hands in its result before anybody may reclaim its lease.
Late == \E w \in Workers :
    at[w] = "working" /\ HoldsLease(w) /\ grantedAge + MaxWait >= StaleAfter

Tick ==
    /\ \A w \in Workers : at[w] = "asking" => askedAge[w] < MaxWait
    /\ IF Late THEN Fault ELSE UNCHANGED faults
    /\ startedAge' = Later(startedAge)
    /\ grantedAge' = Later(grantedAge)
    /\ askedAge' = [w \in Workers |->
                      IF at[w] = "asking" THEN askedAge[w] + 1 ELSE askedAge[w]]
    /\ UNCHANGED <<status, lease, result, at, mine, issued>>
-----------------------------------------------------------------------------
Worker(w) == Ask(w) \/ Reserve(w) \/ Refuse(w) \/ Finish(w)

Next ==
    \/ \E w \in Workers : Worker(w) \/ Crash(w) \/ FinishUnanswered(w)
    \/ Tick

Spec == Init /\ [][Next]_vars

\* Time passes, and those who want the result keep asking and working.
FairSpec == Spec /\ WF_vars(Tick) /\ \A w \in Workers : WF_vars(Worker(w))
-----------------------------------------------------------------------------
(* What leases promise *)

\* A worker that was told its result is stored can rely on it: neither a worker
\* whose lease it took over, nor a second answer, nor a later reservation replaces
\* it, and nobody else is told so. The row's result is of the lease it names.
OneResult ==
    /\ \A w \in Workers : at[w] = "accepted" => result = mine[w]
    /\ \A v, w \in Workers : at[v] = "accepted" /\ at[w] = "accepted" => v = w
    /\ status \in Terminal <=> result # 0
    /\ result # 0 => result = lease

\* Whoever holds a lease keeps it for the stale interval less the busy timeout,
\* however long the transactions of the reservation and of the reclaim had waited
\* since they read the clock.
LeaseLasts ==
    [][status = "running" /\ lease' # lease => grantedAge + MaxWait > StaleAfter]_vars

\* If crashes and lateness end, the attempt gets its result for good: no lost worker and
\* no lost token keeps it reserved for ever.
AttemptEnds == <>[](status \in Terminal)
-----------------------------------------------------------------------------
(* Why: the parts of an inductive invariant *)

\* Tokens are given out in turn, each to one worker.
TokensDiffer ==
    /\ lease <= issued
    /\ \A w \in Workers : mine[w] <= issued
    /\ \A v, w \in Workers : mine[v] = mine[w] /\ mine[v] # 0 => v = w
    /\ \A w \in Workers : at[w] \in {"working", "accepted"} => mine[w] # 0
    /\ status = "running" => lease # 0

\* A lease is granted after its start was read, by no more than the wait.
GrantFollowsStart == startedAge <= grantedAge + MaxWait

IInv == TypeOK /\ OneResult /\ TokensDiffer /\ GrantFollowsStart
=============================================================================
