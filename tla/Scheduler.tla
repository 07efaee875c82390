----------------------------- MODULE Scheduler -----------------------------
(***************************************************************************)
(* dinarledger.jobs.scheduler: jobs run by ticks whose time the caller     *)
(* injects.  tick iterates over the dict of jobs itself, and a job's       *)
(* function may register and cancel jobs, so the dict is modelled as       *)
(* CPython keeps it: entries in insertion order, a deleted one leaving a   *)
(* gap until the table is full and is rebuilt without the gaps.            *)
(*                                                                         *)
(* A registration makes a new job; jobs are numbered in that order.        *)
(***************************************************************************)
EXTENDS Integers, Sequences, FiniteSetsExt

CONSTANTS
  JobId,      \* job ids
  Interval,   \* intervals a job may be registered with
  Never,      \* the last_run of a job that never ran
  Gone,       \* a job that was cancelled
  MaxTime,    \* bound: injected times are 0..MaxTime
  MaxJobs     \* bound: registrations made in all

Gap == 0
Time == 0..MaxTime
Job == [id : JobId, interval : Int, last : Time \cup {Never}, prev : Time \cup {Never}]

ASSUME SchedulerAssumption ==
  /\ Interval \subseteq Int
  /\ Never \notin Int
  /\ Gone \notin Job
  /\ MaxTime \in Nat /\ MaxJobs \in Nat

VARIABLES
  jobs,      \* the jobs by number; prev is the last_run before last
  entries,   \* the dict: numbers of the registered jobs, and gaps
  room,      \* entries the dict's table still has room for
  pc,        \* "idle", "next" (tick asks the iterator), "job" (a job's function runs)
  now,       \* current_time of the tick
  pos,       \* entries the tick's iterator has passed
  left,      \* values the iterator still expects
  used,      \* size of the dict when the iterator was made
  running,   \* the job whose function runs, or ran last
  results,   \* numbers of the jobs in the tick's results, in order
  touched,   \* whether a job's function registered or cancelled jobs in this tick
  outcome    \* how the last tick ended: "returned", "raised", "changed" (its dict was), or
             \* "none" once the registry has changed since

registry == <<jobs, entries, room>>
iterator == <<now, pos, left, used>>
report == <<running, results, touched>>
vars == <<jobs, entries, room, pc, now, pos, left, used, running,
          results, touched, outcome>>

\* The state of a tick before its first and after its last step.
NoTick ==
  /\ now' = 0 /\ pos' = 0 /\ left' = 0 /\ used' = 0
  /\ running' = 0
  /\ results' = <<>>
  /\ touched' = FALSE

Live == {k \in DOMAIN entries : entries[k] # Gap}
Registered == {entries[k] : k \in Live}
Size == Cardinality(Live)

Init ==
  /\ jobs = <<>>
  /\ entries = <<>>
  /\ room = 5
  /\ pc = "idle"
  /\ now = 0 /\ pos = 0 /\ left = 0 /\ used = 0 /\ running = 0
  /\ results = <<>>
  /\ touched = FALSE
  /\ outcome = "none"

(***************************************************************************)
(* The registry: called between ticks, or by the function of a job         *)
(***************************************************************************)

\* Entries a table takes: two thirds of a power of two that is at least 8 and at
\* least three times the entries it is made for.
Usable(n) == IF 3 * n <= 8 THEN 5 ELSE IF 3 * n <= 16 THEN 10 ELSE 21

\* A change made by a job's function is noted for the tick; one made between ticks
\* ends the time for which the properties speak of the last tick.
RegistryChanged ==
  \/ /\ pc = "job"
     /\ touched' = TRUE
     /\ UNCHANGED <<pc, iterator, running, results, outcome>>
  \/ /\ pc = "idle"
     /\ NoTick
     /\ outcome' = "none"
     /\ UNCHANGED pc

\* The live entries in their order, which is what a rebuilt table keeps.
Packed(kept) == \A j, k \in 1..Size : j < k => kept[j] < kept[k]

\* register; a job id that is registered raises ValueError and changes nothing.
Register(i, interval) ==
  /\ Len(jobs) < MaxJobs
  /\ \A n \in Registered : jobs[n].id # i
  /\ jobs' = Append(jobs, [id |-> i, interval |-> interval, last |-> Never, prev |-> Never])
  /\ IF room > 0
     THEN /\ entries' = Append(entries, Len(jobs) + 1)
          /\ room' = room - 1
     ELSE /\ \E kept \in [1..Size -> Live] :
               /\ Packed(kept)
               /\ entries' = Append([k \in 1..Size |-> entries[kept[k]]], Len(jobs) + 1)
          /\ room' = Usable(Size) - Size - 1
  /\ RegistryChanged

\* cancel; an unknown id raises KeyError and changes nothing.
Cancel(k) ==
  /\ k \in Live
  /\ entries' = [entries EXCEPT ![k] = Gap]
  /\ jobs' = [jobs EXCEPT ![entries[k]] = Gone]
  /\ UNCHANGED room
  /\ RegistryChanged

(***************************************************************************)
(* tick                                                                    *)
(***************************************************************************)

DueEachTick(job, time) == job.last = Never \/ time >= job.last

\* _is_due
Due(job, time) == job.last = Never \/ time >= job.last + job.interval

\* tick is called: an iterator over the dict is made.
Tick(time) ==
  /\ pc = "idle"
  /\ now' = time
  /\ pos' = 0
  /\ left' = Size
  /\ used' = Size
  /\ running' = 0
  /\ results' = <<>>
  /\ touched' = FALSE
  /\ outcome' = "none"
  /\ pc' = "next"
  /\ UNCHANGED registry

AheadButLast == {k \in Live : k > pos /\ k < Len(entries)}

\* The entries the iterator has still to pass.
Ahead == {k \in Live : k > pos}

\* The iterator notices a dict of another size, or more values than it expected.
IteratorRaises == Size # used \/ (Ahead # {} /\ left = 0)

\* The iterator is dropped; what the tick did stays to be spoken of.
TickEnds(how) ==
  /\ pc' = "idle"
  /\ outcome' = how
  /\ pos' = 0 /\ left' = 0 /\ used' = 0
  /\ UNCHANGED <<now, report>>

\* RuntimeError leaves tick: the jobs that ran keep their last_run, their results
\* are lost.
DictChanged ==
  /\ pc = "next"
  /\ IteratorRaises
  /\ TickEnds("changed")
  /\ UNCHANGED registry

\* The loop body for the next job: its function is called if it is due.
NextJob ==
  /\ pc = "next"
  /\ ~IteratorRaises
  /\ Ahead # {}
  /\ pos' = Min(Ahead)
  /\ left' = left - 1
  /\ IF Due(jobs[entries[Min(Ahead)]], now)
     THEN pc' = "job" /\ running' = entries[Min(Ahead)]
     ELSE UNCHANGED <<pc, running>>
  /\ UNCHANGED <<registry, now, used, results, touched, outcome>>

\* The loop is over and tick returns the results.
TickReturns ==
  /\ pc = "next"
  /\ ~IteratorRaises
  /\ Ahead = {}
  /\ TickEnds("returned")
  /\ UNCHANGED registry

\* The job's function returns: last_run is set, to no effect on a cancelled job.
JobReturns ==
  /\ pc = "job"
  /\ jobs' = [jobs EXCEPT ![running] =
                IF @ = Gone THEN Gone ELSE [@ EXCEPT !.last = now, !.prev = jobs[running].last]]
  /\ results' = Append(results, running)
  /\ pc' = "next"
  /\ UNCHANGED <<entries, room, iterator, running, touched, outcome>>

FailedIsRun(job) == [job EXCEPT !.last = now]

\* What a job whose function raised keeps of the run: nothing.
Failed(job) == job

\* The job's function raises, and so does tick: the jobs after it are not reached.
JobRaises ==
  /\ pc = "job"
  /\ jobs' = [jobs EXCEPT ![running] = IF @ = Gone THEN Gone ELSE Failed(@)]
  /\ TickEnds("raised")
  /\ UNCHANGED <<entries, room>>

Next ==
  \/ \E i \in JobId, interval \in Interval : Register(i, interval)
  \/ \E k \in DOMAIN entries : Cancel(k)
  \/ \E time \in Time : Tick(time)
  \/ NextJob
  \/ DictChanged
  \/ TickReturns
  \/ JobReturns
  \/ JobRaises

Spec == Init /\ [][Next]_vars

(***************************************************************************)
(* Properties                                                              *)
(***************************************************************************)

Ran == {results[k] : k \in DOMAIN results}

\* A tick that returns, and whose jobs left the registry alone, has run every
\* registered job that was due, however the registry came to look as it does.
CleanTickRunsAllDue ==
  outcome = "returned" /\ ~touched =>
    \A n \in Registered : n \in Ran \/ ~Due(jobs[n], now)

\* Whatever its jobs register and cancel, a tick runs jobs in the order in which they were
\* registered and none of them twice, also when the dict is rebuilt under the iterator.
RanInOrder == \A j, k \in DOMAIN results : j < k => results[j] < results[k]

\* A tick runs all that it should, unless its jobs changed the registry, and in any case
\* nothing twice or out of order.
TickRunsJobs == CleanTickRunsAllDue /\ RanInOrder

\* A job that raises ends the tick at its place: every due job registered before it
\* has run, none after it has, and it is still due, so the next tick tries it again.
FailedTickStopsInPlace ==
  outcome = "raised" /\ ~touched =>
    /\ \A n \in Registered : n < running => n \in Ran \/ ~Due(jobs[n], now)
    /\ \A n \in Ran : n < running
    /\ Due(jobs[running], now)

\* Two runs of a job that both returned are at least its interval apart, whatever
\* times the ticks were given.
RunsAreSpaced ==
  \A n \in Registered :
    jobs[n].prev # Never => jobs[n].last - jobs[n].prev >= jobs[n].interval

=============================================================================
