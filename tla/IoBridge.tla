------------------------------ MODULE IoBridge ------------------------------
(***************************************************************************)
(* IoBridge of runtime/bridge.rs: one bounded channel, several workers,    *)
(* and callers that hold the sending side and block until they are         *)
(* answered.  stop sets a flag, sends one Shutdown command and joins the   *)
(* workers; the callers need not have finished.                            *)
(*                                                                         *)
(* The channel is crossbeam's: a send fails once every receiver is         *)
(* dropped, and the queued messages are dropped with the last receiver, so *)
(* that their one-shot senders disconnect.  FlushPage goes to              *)
(* flush_single_frame, which returns Ok without writing a page that is     *)
(* pinned.                                                                 *)
(***************************************************************************)
EXTENDS Integers, Sequences, FiniteSets

CONSTANTS
    BrCallers,    \* threads that use the handle
    BrWorkers,
    BrCapacity,   \* the bound of the channel
    MaxCalls,     \* calls of one caller
    NoCaller      \* the Shutdown command in the channel

VARIABLES
    commands,   \* the channel
    brcaller,   \* pc of each caller, the command it sent and the answer it got
    brworker,   \* "loop", "gone", or the caller whose command it executes
    brstop,     \* "no", "flagged" (the store is done), "joining", "stopped"
    brpage      \* the page that FlushPage is about: dirty, pinned, and executed flushes

brvars == <<commands, brcaller, brworker, brstop, brpage>>

Kinds == {"read", "flush", "shutdown"}

BRInit ==
    /\ commands = <<>>
    /\ brcaller = [c \in BrCallers |-> [pc |-> "idle", kind |-> "read", answer |-> "none", calls |-> 0]]
    /\ brworker = [w \in BrWorkers |-> "loop"]
    /\ brstop = "no"
    /\ brpage = [dirty |-> TRUE, pinned |-> FALSE]

\* every receiver was moved into a worker
Disconnected == \A w \in BrWorkers : brworker[w] = "gone"

Answer(c, pc, ans) == brcaller' = [brcaller EXCEPT ![c].pc = pc, ![c].answer = ans]

br_call(c) ==
    /\ brcaller[c].pc \in {"idle", "returned"} /\ brcaller[c].calls < MaxCalls
    /\ \E k \in Kinds :
          brcaller' = [brcaller EXCEPT ![c] = [pc |-> "send", kind |-> k, answer |-> "none", calls |-> @.calls + 1]]
    /\ UNCHANGED <<commands, brworker, brstop, brpage>>

\* "bridge worker unavailable" when the channel is disconnected
br_send(c) ==
    /\ brcaller[c].pc = "send"
    /\ \/ /\ Disconnected /\ UNCHANGED commands
          /\ Answer(c, "returned", IF brcaller[c].kind = "shutdown" THEN "ok" ELSE "err")
       \/ /\ ~ Disconnected /\ Len(commands) < BrCapacity
          /\ IF brcaller[c].kind = "shutdown"
               THEN commands' = Append(commands, NoCaller) /\ Answer(c, "returned", "ok")
               ELSE commands' = Append(commands, c) /\ Answer(c, "recv", "none")
    /\ UNCHANGED <<brworker, brstop, brpage>>

Queued(c) == \E i \in DOMAIN commands : commands[i] = c

InWork(c) == \E w \in BrWorkers : brworker[w] = c

\* the one-shot channel has an answer, or its sender is gone: "terminated before responding"
recv_response(c) ==
    /\ brcaller[c].pc = "recv"
    /\ \/ brcaller[c].answer # "none" /\ Answer(c, "returned", brcaller[c].answer)
       \/ brcaller[c].answer = "none" /\ ~ Queued(c) /\ ~ InWork(c) /\ Answer(c, "returned", "err")
    /\ UNCHANGED <<commands, brworker, brstop, brpage>>

\* The last worker that leaves drops the channel with what is in it.

\* only the Shutdown command ends a worker
Flagged_Never == FALSE

Flagged == brstop # "no"

\* while !shutdown: recv_timeout.  A command may be taken after the flag was set, by a worker that
\* read it before
br_loop(w) ==
    /\ brworker[w] = "loop"
    /\ \/ Flagged /\ brworker' = [brworker EXCEPT ![w] = "gone"]
          /\ commands' = IF Disconnected' THEN <<>> ELSE commands
       \/ /\ commands # <<>>
          /\ brworker' = [brworker EXCEPT ![w] = IF Head(commands) = NoCaller THEN "gone" ELSE Head(commands)]
          /\ commands' = IF Disconnected' THEN <<>> ELSE Tail(commands)
    /\ UNCHANGED <<brcaller, brstop, brpage>>

\* one command, answered with Ok or with the text of the error
br_execute(w) ==
    LET c == brworker[w]
    IN /\ c \in BrCallers
       /\ \/ /\ brcaller[c].kind = "flush"
             /\ brpage' = [brpage EXCEPT !.dirty = @ /\ brpage.pinned]
             /\ brcaller' = [brcaller EXCEPT ![c].answer = "ok"]
          \/ brcaller[c].kind = "read" /\ brcaller' = [brcaller EXCEPT ![c].answer = "ok"] /\ UNCHANGED brpage
          \/ brcaller' = [brcaller EXCEPT ![c].answer = "err"] /\ UNCHANGED brpage
       /\ brworker' = [brworker EXCEPT ![w] = "loop"]
       /\ UNCHANGED <<commands, brstop>>

\* a guard pins the page and changes it
br_pin ==
    /\ ~ brpage.pinned /\ brpage' = [dirty |-> TRUE, pinned |-> TRUE]
    /\ UNCHANGED <<commands, brcaller, brworker, brstop>>

br_unpin ==
    /\ brpage.pinned /\ brpage' = [brpage EXCEPT !.pinned = FALSE]
    /\ UNCHANGED <<commands, brcaller, brworker, brstop>>

stop_flag ==
    /\ brstop = "no" /\ brstop' = "flagged"
    /\ UNCHANGED <<commands, brcaller, brworker, brpage>>

\* blocks while the channel is full, fails when it is disconnected
stop_send ==
    /\ brstop = "flagged" /\ brstop' = "joining"
    /\ \/ Disconnected /\ UNCHANGED commands
       \/ ~ Disconnected /\ Len(commands) < BrCapacity /\ commands' = Append(commands, NoCaller)
    /\ UNCHANGED <<brcaller, brworker, brpage>>

stop_join ==
    /\ brstop = "joining" /\ \A w \in BrWorkers : brworker[w] = "gone"
    /\ brstop' = "stopped"
    /\ UNCHANGED <<commands, brcaller, brworker, brpage>>

WorkerStep(w) == br_loop(w) \/ br_execute(w)

CallerStep(c) == br_send(c) \/ recv_response(c)

BRNext ==
    \/ \E c \in BrCallers : br_call(c) \/ CallerStep(c)
    \/ \E w \in BrWorkers : WorkerStep(w)
    \/ br_pin \/ br_unpin \/ stop_flag \/ stop_send \/ stop_join

\* threads inside their loop, call or stop go on
BRFair ==
    /\ \A c \in BrCallers : WF_brvars(CallerStep(c))
    /\ \A w \in BrWorkers : WF_brvars(WorkerStep(w))
    /\ WF_brvars(stop_send \/ stop_join)

BRSpec == BRInit /\ [][BRNext]_brvars /\ BRFair

(***************************************************************************)
(* Properties.                                                             *)
(***************************************************************************)

\* Every call returns, with an error when the bridge stops first: also a call that waits for room
\* in the channel, or whose command is still queued when the last worker leaves
CallReturns == \A c \in BrCallers : (brcaller[c].pc = "send") ~> (brcaller[c].pc = "returned")

\* stop returns although it sends its command into a channel that may be full
StopReturns == (brstop = "flagged" \/ brstop = "joining") ~> (brstop = "stopped")

\* Nobody is left waiting on the bridge: neither a caller nor the thread that stops it
\* (IoBridge::call, stop and the workers).
BridgeAnswers == CallReturns /\ StopReturns

\* Refuted: Ok, "Operation completed successfully", to FlushPage means that the page was written
FlushAnsweredIsClean ==
    [][\A w \in BrWorkers : (brworker[w] \in BrCallers /\ brworker'[w] = "loop"
          /\ brcaller[brworker[w]].kind = "flush" /\ brcaller'[brworker[w]].answer = "ok") => ~ brpage'.dirty]_brvars
=============================================================================
