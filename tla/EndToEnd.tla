------------------------------ MODULE EndToEnd ------------------------------
(***************************************************************************)
(* The end-to-end test of FreeProbe (e2e/): the sampling guard at work in  *)
(* a victim process, the eBPF program that counts the sampled calls, and   *)
(* the script that judges the count.                                       *)
(*                                                                         *)
(* Every thread of the victim calls target_function in a loop, through the *)
(* guard of SamplingGuard if the agent found the observer's uprobe when    *)
(* the victim started.  A sampled call runs the program, which reads the   *)
(* shared counter and writes it back in two steps.  The script starts the  *)
(* observer and, after a sleep and nothing better, the victim.             *)
(***************************************************************************)
EXTENDS SamplingGuard, FiniteSets

CONSTANT TotalCalls      \* the victim's first argument

\* The victim has at least one thread, whatever it is asked for.
ASSUME ThreadAssumption == IsFiniteSet(Thread) /\ Thread # {}
\* MaxCalls is no bound here: the victim makes fewer calls.
ASSUME TotalCallsAssumption == TotalCalls \in Nat \ {0} /\ TotalCalls <= MaxCalls

\* What each thread calls.  The remainder of the division is called by nobody.
PerThread == TotalCalls \div Cardinality(Thread)

VARIABLES
  script,          \* where run_test.sh is, its verdict in the end
  observer,        \* where the observer is
  exiting,         \* the observer has its SIGTERM
  attached,        \* the uprobe is in the handler table
  victim,          \* where the victim is
  instrumented,    \* the victim's agent found the uprobe
  made,            \* made[t]: calls of thread t that have returned
  v,               \* v[t]: the program's register, None outside the program
  sample_counter,  \* the element of the eBPF map
  OBSERVED, HITS,  \* what victim and observer print
  lost             \* history: two threads were in the program at once

guardVars == vars
testVars == <<script, observer, exiting, attached, victim, instrumented, made, v,
              sample_counter, OBSERVED, HITS, lost>>
allVars == <<guardVars, testVars>>

None == -1

TestInit ==
  /\ Init
  /\ script = "observer" /\ observer = "off" /\ exiting = FALSE
  /\ attached = FALSE /\ victim = "off" /\ instrumented = FALSE
  /\ made = [t \in Thread |-> 0]
  /\ v = [t \in Thread |-> None]
  /\ sample_counter = 0
  /\ OBSERVED = None /\ HITS = None
  /\ lost = FALSE

-----------------------------------------------------------------------------
(* The observer.                                                           *)

\* main: the program is loaded and attached, or the observer gives up.
Attach ==
  /\ observer = "loading"
  /\ \/ observer' = "polling" /\ attached' = TRUE
     \/ observer' = "exited" /\ UNCHANGED attached
  /\ UNCHANGED <<guardVars, script, exiting, victim, instrumented, made, v, sample_counter,
                 OBSERVED, HITS, lost>>

\* The loop is left on SIGTERM, and the counter read a last time.
Report ==
  /\ observer = "polling" /\ exiting
  /\ observer' = "exited"
  /\ HITS' = sample_counter
  /\ UNCHANGED <<guardVars, script, exiting, attached, victim, instrumented, made, v,
                 sample_counter, OBSERVED, lost>>

-----------------------------------------------------------------------------
(* The victim.                                                             *)

Calling(t) == victim = "running" /\ made[t] < PerThread

Returns(t) == made' = [made EXCEPT ![t] = @ + 1]

callOnly == <<script, observer, exiting, attached, victim, instrumented, OBSERVED, HITS>>

\* A call of the function as the compiler left it.
PlainCall(t) ==
  /\ Calling(t) /\ ~instrumented
  /\ Returns(t)
  /\ UNCHANGED <<guardVars, v, sample_counter, lost, callOnly>>

\* A call through the guard.
GuardedCall(t) ==
  /\ Calling(t) /\ instrumented
  /\ Load(t)
  /\ UNCHANGED <<made, v, sample_counter, lost, callOnly>>

Guard(t) ==
  /\ Count(t) \/ Reset(t)
  /\ UNCHANGED <<made, v, sample_counter, lost, callOnly>>

FastReturn(t) ==
  /\ FastPath(t)
  /\ Returns(t)
  /\ UNCHANGED <<v, sample_counter, lost, callOnly>>

\* count_target_function: bpf_map_lookup_elem and the read through its pointer
Lookup(t) ==
  /\ pc[t] = "slow" /\ v[t] = None
  /\ v' = [v EXCEPT ![t] = sample_counter]
  /\ lost' = (lost \/ \E u \in Thread : v[u] # None)
  /\ UNCHANGED <<guardVars, made, sample_counter, callOnly>>

\* Mutant of Update: the read value is added to the counter instead of stored.
UpdateAdds(t) ==
  /\ v[t] # None
  /\ sample_counter' = sample_counter + v[t] + 1
  /\ v' = [v EXCEPT ![t] = None]
  /\ SlowPath(t)
  /\ Returns(t)
  /\ UNCHANGED <<lost, callOnly>>

\* bpf_map_update_elem with the value read plus one; the slow path ends.
Update(t) ==
  /\ v[t] # None
  /\ sample_counter' = v[t] + 1
  /\ v' = [v EXCEPT ![t] = None]
  /\ SlowPath(t)
  /\ Returns(t)
  /\ UNCHANGED <<lost, callOnly>>

\* main has joined its threads and prints the calls it was asked for, which are
\* not the calls that were made.
Exit ==
  /\ victim = "running" /\ \A t \in Thread : made[t] = PerThread
  /\ victim' = "exited"
  /\ OBSERVED' = TotalCalls
  /\ UNCHANGED <<guardVars, script, observer, exiting, attached, instrumented, made, v,
                 sample_counter, HITS, lost>>

-----------------------------------------------------------------------------
(* run_test.sh                                                             *)

StartObserver ==
  /\ script = "observer"
  /\ script' = "sleep"
  /\ observer' = "loading"
  /\ UNCHANGED <<guardVars, exiting, attached, victim, instrumented, made, v, sample_counter,
                 OBSERVED, HITS, lost>>

\* After two seconds, whatever the observer has done in them.  The agent reads
\* the handler table once, before main.
StartVictim ==
  /\ script = "sleep"
  /\ script' = "victim"
  /\ victim' = "running"
  /\ instrumented' = attached
  /\ UNCHANGED <<guardVars, observer, exiting, attached, made, v, sample_counter, OBSERVED,
                 HITS, lost>>

\* Mutant of StopObserver: the script waits for an observer it has not signalled.
StopObserverQuietly ==
  /\ script = "victim" /\ victim = "exited"
  /\ script' = "wait"
  /\ UNCHANGED <<guardVars, exiting, observer, attached, victim, instrumented, made, v,
                 sample_counter, OBSERVED, HITS, lost>>

\* The victim has ended: kill -TERM, and wait for the observer.
StopObserver ==
  /\ script = "victim" /\ victim = "exited"
  /\ script' = "wait"
  /\ exiting' = TRUE
  /\ UNCHANGED <<guardVars, observer, attached, victim, instrumented, made, v, sample_counter,
                 OBSERVED, HITS, lost>>

EXPECTED(observed) == observed \div Rate
LOWER(observed) == (EXPECTED(observed) * 3) \div 4
UPPER(observed) == (EXPECTED(observed) * 5) \div 4

\* Mutant of Within: only too many hits are an error.
WithinUpper(hits_, observed) == hits_ <= UPPER(observed)

\* The hits are within a quarter of what is expected.
Within(hits_, observed) == LOWER(observed) <= hits_ /\ hits_ <= UPPER(observed)

\* Without a line to parse the script ends in an error.
Judge ==
  /\ script = "wait" /\ observer = "exited"
  /\ script' = IF OBSERVED = None \/ HITS = None THEN "ERROR"
               ELSE IF Within(HITS, OBSERVED) THEN "PASS" ELSE "FAIL"
  /\ UNCHANGED <<guardVars, observer, exiting, attached, victim, instrumented, made, v,
                 sample_counter, OBSERVED, HITS, lost>>

Ended == script \in {"PASS", "FAIL", "ERROR"}

\* The test is over.
Over == Ended /\ UNCHANGED allVars

-----------------------------------------------------------------------------
Script == StartObserver \/ StartVictim \/ StopObserver \/ Judge

Observe == Attach \/ Report

Work(t) ==
  PlainCall(t) \/ GuardedCall(t) \/ Guard(t) \/ FastReturn(t) \/ Lookup(t) \/ Update(t)

TestNext == Script \/ Observe \/ (\E t \in Thread : Work(t)) \/ Exit \/ Over

TestSpec == TestInit /\ [][TestNext]_allVars

\* Nothing in the guard, the program or the victim's loop waits for another
\* thread, and the sleeps of script and observer end.
FairTestSpec ==
  /\ TestSpec
  /\ WF_allVars(Script) /\ WF_allVars(Observe) /\ WF_allVars(Exit)
  /\ \A t \in Thread : WF_allVars(Work(t))

-----------------------------------------------------------------------------
\* What the numbers f add up to over S: so many pairs <<x, n>> with n among the
\* first f[x] numbers.
Pairs(f, S) == UNION {{x} \X (1..f[x]) : x \in S}
Total(f, S) == Cardinality(Pairs(f, S))

HitsOf(buckets) == Total(hits, buckets)

ThreadsOf(b) == {t \in Thread : BucketOf(t) = b}

\* However the threads race in the program and in the guard, the map never counts
\* a call that was not sampled, nor one whose program has not run to its end.
CounterNeverOvercounts ==
  sample_counter + Cardinality({t \in Thread : pc[t] \in {"reset", "slow"}}) <= HitsOf(Bucket)

\* When the uprobe was attached in time and no two threads met, in the guard of
\* one bucket or in the program, the test reports one call in Rate of every
\* bucket, so with a single thread exactly the number the script expects.
SerialTestIsExact ==
  HITS # None /\ OBSERVED # None /\ instrumented /\ ~lost /\ (\A b \in Bucket : ~overlap[b]) =>
    HITS = Total([b \in Bucket |-> (PerThread * Cardinality(ThreadsOf(b))) \div Rate], Bucket)

\* run_test.sh: a PASS shows that the guard is at work in the victim.  Whatever
\* raced, a test that passed had the uprobe attached before the victim looked,
\* and at least as many calls sampled as the script demands.
PassMeansSampled ==
  script = "PASS" => instrumented /\ LOWER(TotalCalls) <= HitsOf(Bucket)

\* A thread that has a bucket to itself is sampled exactly one time in Rate of its
\* calls in the end, whatever races go on in the other buckets.
ExclusiveThreadsAreSampled ==
  \A t \in Thread :
    ThreadsOf(BucketOf(t)) = {t} => (instrumented ~> hits[BucketOf(t)] = PerThread \div Rate)

\* The test comes to an end, attached in time or not.
TestEnds == <>Ended

=============================================================================
