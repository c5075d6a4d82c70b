------------------------------- MODULE OooMgr -------------------------------
(***************************************************************************)
(* What the scheduler relies on in an out-of-order (OOO) manager, whatever *)
(* its algorithm: a job it is given takes a free lane; it returns nothing  *)
(* until all lanes are busy, and then one of the jobs it holds; a flush    *)
(* returns one of them unless there is none.  MbMgr uses exactly this      *)
(* (LaneSubmit, LaneFlush, FlushIsNull); AesLanes and HmacLanes implement  *)
(* it.                                                                     *)
(***************************************************************************)
CONSTANTS
  Lanes,
  Jobs,
  NULL    \* no job

VARIABLES
  job_in_lane,  \* the job a lane works on, or NULL
  ret           \* what the last call returned

oooVars == <<job_in_lane, ret>>

Free(L) == {l \in Lanes : L[l] = NULL}
Held(L) == {L[l] : l \in Lanes} \ {NULL}

Init ==
  /\ job_in_lane = [l \in Lanes |-> NULL]
  /\ ret = NULL

Return(L, l) ==
  /\ ret' = L[l]
  /\ job_in_lane' = [k \in Lanes |-> IF k = l THEN NULL ELSE L[k]]

Submit(j) ==
  /\ j \notin Held(job_in_lane)
  /\ \E l \in Free(job_in_lane) :
       LET L == [k \in Lanes |-> IF k = l THEN j ELSE job_in_lane[k]] IN
       \/ Free(L) # {} /\ job_in_lane' = L /\ ret' = NULL
       \/ Free(L) = {} /\ \E d \in Lanes : Return(L, d)

Flush ==
  \/ Held(job_in_lane) = {} /\ ret' = NULL /\ UNCHANGED job_in_lane
  \/ \E l \in Lanes \ Free(job_in_lane) : Return(job_in_lane, l)

Next == Flush \/ \E j \in Jobs : Submit(j)

Spec == Init /\ [][Next]_oooVars

=============================================================================
