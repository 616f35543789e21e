----------------------------- MODULE IoScheduler -----------------------------
(***************************************************************************)
(* IoScheduler of runtime/scheduler.rs: four bounded lanes, and workers    *)
(* that serve them in a weighted round: up to LANE_WEIGHTS[l] requests of  *)
(* lane l, then the next lane.  A worker that found every lane empty waits *)
(* a short time on lane 0 alone.                                           *)
(*                                                                         *)
(* A caller of call_sync uses one lane and blocks until it is answered;    *)
(* callers come back as often as they like.  stop consumes the scheduler,  *)
(* so nobody is inside call_sync when it runs.                             *)
(***************************************************************************)
EXTENDS Integers, Sequences, FiniteSets
LOCAL INSTANCE FiniteSetsExt

CONSTANTS
    IoCallers,     \* the threads that call call_sync
    LaneOf,        \* the lane of each caller
    IoWorkers,
    LaneCapacity,
    MaxOpenFaults  \* failing opens of the data file

LANE_WEIGHTS == <<8, 4, 2, 1>>

Lanes == 1..Len(LANE_WEIGHTS)

VARIABLES
    lanes,     \* the queued requests of each lane
    caller,    \* "idle", "sending", "queued" or "answered"
    worker,    \* where each worker is in its round
    opened,    \* whether each worker holds the data file, and how many opens succeeded
    stopping,  \* the shutdown flag
    openFaults

iovars == <<lanes, caller, worker, opened, stopping, openFaults>>

Top == [pc |-> "top", lane |-> 1, left |-> LANE_WEIGHTS[1], served |-> FALSE]

IOInit ==
    /\ lanes = [l \in Lanes |-> <<>>]
    /\ caller = [c \in IoCallers |-> "idle"]
    /\ worker = [w \in IoWorkers |-> Top]
    /\ opened = [handles |-> {}, count |-> 0]
    /\ stopping = FALSE /\ openFaults = 0

(***************************************************************************)
(* call_sync                                                               *)
(***************************************************************************)

io_call(c) ==
    /\ caller[c] \in {"idle", "answered"} /\ ~ stopping
    /\ caller' = [caller EXCEPT ![c] = "sending"]
    /\ UNCHANGED <<lanes, worker, opened, stopping, openFaults>>

io_send(c) ==
    /\ caller[c] = "sending" /\ Len(lanes[LaneOf[c]]) < LaneCapacity
    /\ lanes' = [lanes EXCEPT ![LaneOf[c]] = Append(@, c)]
    /\ caller' = [caller EXCEPT ![c] = "queued"]
    /\ UNCHANGED <<worker, opened, stopping, openFaults>>

\* stop(self)
io_stop ==
    /\ ~ stopping /\ \A c \in IoCallers : caller[c] \in {"idle", "answered"}
    /\ stopping' = TRUE
    /\ UNCHANGED <<lanes, caller, worker, opened, openFaults>>

(***************************************************************************)
(* The loop of a worker                                                    *)
(***************************************************************************)

check_shutdown(w) ==
    /\ worker[w].pc = "top"
    /\ worker' = [worker EXCEPT ![w].pc = IF stopping THEN "gone" ELSE "drain"]
    /\ UNCHANGED <<lanes, caller, opened, stopping, openFaults>>

\* DataFile::get: the handle is opened on first use and kept; a failed open is not
DataFile_get(w) ==
    \/ w \in opened.handles /\ UNCHANGED <<opened, openFaults>>
    \/ /\ w \notin opened.handles
       /\ opened' = [handles |-> opened.handles \cup {w}, count |-> opened.count + 1]
       /\ UNCHANGED openFaults
    \/ /\ w \notin opened.handles /\ openFaults < MaxOpenFaults
       /\ openFaults' = openFaults + 1 /\ UNCHANGED opened

\* execute answers the caller, with the data or with the error; SyncWal and FlushPage do not use
\* the data file
execute(w, l) ==
    /\ lanes' = [lanes EXCEPT ![l] = Tail(@)]
    /\ caller' = [caller EXCEPT ![Head(lanes[l])] = "answered"]
    /\ DataFile_get(w) \/ UNCHANGED <<opened, openFaults>>
    /\ UNCHANGED stopping

\* the lane after l, or the end of the round
AfterLane(v) ==
    IF v.lane < Len(LANE_WEIGHTS)
      THEN [v EXCEPT !.lane = @ + 1, !.left = LANE_WEIGHTS[v.lane + 1]]
      ELSE IF v.served THEN Top ELSE [Top EXCEPT !.pc = "nap"]

\* strict priority: every request that was served sends the worker back to lane 0
AfterServe_Strict(v) == [Top EXCEPT !.pc = "drain", !.served = TRUE]

AfterServe(v) ==
    LET u == [v EXCEPT !.served = TRUE, !.left = @ - 1]
    IN IF u.left = 0 THEN AfterLane(u) ELSE u

drain(w) ==
    LET v == worker[w]
    IN /\ v.pc = "drain"
       /\ \/ /\ lanes[v.lane] # <<>>
             /\ execute(w, v.lane)
             /\ worker' = [worker EXCEPT ![w] = AfterServe(v)]
          \/ /\ lanes[v.lane] = <<>>
             /\ worker' = [worker EXCEPT ![w] = AfterLane(v)]
             /\ UNCHANGED <<lanes, caller, opened, stopping, openFaults>>

\* recv_timeout on lane 0
nap(w) ==
    /\ worker[w].pc = "nap"
    /\ \/ lanes[1] # <<>> /\ execute(w, 1)
       \/ lanes[1] = <<>> /\ UNCHANGED <<lanes, caller, opened, stopping, openFaults>>
    /\ worker' = [worker EXCEPT ![w] = Top]

IOStep(w) == check_shutdown(w) \/ drain(w) \/ nap(w)

IONext ==
    \/ \E c \in IoCallers : io_call(c) \/ io_send(c)
    \/ io_stop
    \/ \E w \in IoWorkers : IOStep(w)

\* The workers are threads of their own
IOFair == \A w \in IoWorkers : WF_iovars(IOStep(w))

IOSpec == IOInit /\ [][IONext]_iovars /\ IOFair

(***************************************************************************)
(* Properties.                                                             *)
(***************************************************************************)

\* "no lane can be starved by a saturated higher-priority lane": a queued request of any lane
\* is answered, however busy the other callers are
NoLaneStarves == \A c \in IoCallers : (caller[c] = "queued") ~> (caller[c] = "answered")

=============================================================================
