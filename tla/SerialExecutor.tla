--------------------------- MODULE SerialExecutor ---------------------------
(***************************************************************************)
(* What a ThreadPool promises its callers (thread_pool.h, the class        *)
(* comment): jobs are numbered in the order they are submitted, they start *)
(* in that order, and one at a time.  A job is either a task given to      *)
(* enqueue() or a span of inline work between acquireInline() and the      *)
(* releaseInline() that ends it.                                           *)
(***************************************************************************)
EXTENDS Naturals

VARIABLES
  issued,   \* how many jobs have been submitted
  started,  \* how many of them have started
  current   \* the job that is running, 0 when none is

absVars == <<issued, started, current>>

AbsInit == issued = 0 /\ started = 0 /\ current = 0

\* A job joins the queue.
Submit ==
  /\ issued' = issued + 1
  /\ UNCHANGED <<started, current>>

\* The oldest job that has not started does, nothing else running.
Start ==
  /\ current = 0
  /\ started < issued
  /\ started' = started + 1
  /\ current' = started + 1
  /\ UNCHANGED issued

\* A caller finds the executor idle and goes straight in.
SubmitAndStart ==
  /\ current = 0
  /\ started = issued
  /\ issued' = issued + 1
  /\ started' = started + 1
  /\ current' = started + 1

Finish ==
  /\ current # 0
  /\ current' = 0
  /\ UNCHANGED <<issued, started>>

AbsNext == Submit \/ Start \/ SubmitAndStart \/ Finish

AbsSpec == AbsInit /\ [][AbsNext]_absVars
=============================================================================
