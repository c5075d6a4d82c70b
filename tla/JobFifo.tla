------------------------------ MODULE JobFifo ------------------------------
(***************************************************************************)
(* What the API of the job manager promises (ReleaseNotes.txt, "API:       *)
(* Overview"): jobs come back in the order they went in, each once;        *)
(* submitting may or may not return a job; flushing returns one as long as *)
(* there is one.                                                           *)
(***************************************************************************)
EXTENDS Integers, Sequences

CONSTANTS
  Jobs,      \* job objects, natural numbers
  Capacity   \* jobs the manager keeps at most

VARIABLES
  queue,  \* submitted and not returned, oldest first
  doing,  \* the call in progress: the job being submitted, Flushing or Nothing
  out     \* what the last call returned, NoJob for NULL or while a call runs

fifoVars == <<queue, doing, out>>

NoJob    == -1
Nothing  == -1
Flushing == -2

Init == queue = <<>> /\ doing = Nothing /\ out = NoJob

Pop == queue' = Tail(queue) /\ out' = Head(queue)

\* submit_job: the job is queued; the oldest job comes back if it is completed,
\* and always when the manager is full.
BeginSubmit(j) ==
  /\ doing = Nothing /\ doing' = j
  /\ \A i \in DOMAIN queue : queue[i] # j
  /\ out' = NoJob /\ UNCHANGED queue

EndSubmit ==
  /\ doing \in Jobs /\ doing' = Nothing
  /\ LET q == Append(queue, doing) IN
     \/ Len(q) <= Capacity /\ queue' = q /\ out' = NoJob
     \/ queue' = Tail(q) /\ out' = Head(q)

\* flush_job: NULL only if there are no jobs, else the oldest job.
FlushNone ==
  /\ doing = Nothing /\ queue = <<>>
  /\ out' = NoJob /\ UNCHANGED <<queue, doing>>

BeginFlush ==
  /\ doing = Nothing /\ queue # <<>> /\ doing' = Flushing
  /\ out' = NoJob /\ UNCHANGED queue

EndFlush == doing = Flushing /\ doing' = Nothing /\ Pop

\* get_completed_job: the oldest job if it is completed, else NULL.
GetCompleted ==
  /\ doing = Nothing /\ UNCHANGED doing
  /\ \/ queue # <<>> /\ Pop
     \/ out' = NoJob /\ UNCHANGED queue

Next ==
  \/ \E j \in Jobs : BeginSubmit(j)
  \/ EndSubmit \/ FlushNone \/ BeginFlush \/ EndFlush \/ GetCompleted

Spec == Init /\ [][Next]_fifoVars

=============================================================================
