------------------------------ MODULE MCRuntime ------------------------------
(***************************************************************************)
(* The threads and tasks of a running server, one mechanism at a time: a   *)
(* behaviour runs one part, chosen at the start, and the others rest in    *)
(* one of their initial states.  Every part may end, so deadlock is no     *)
(* error.                                                                  *)
(***************************************************************************)
EXTENDS GroupCommit, IoScheduler, IoBridge, IndexLatch, Acceptor, Service

CONSTANTS w1, w2, r1, o1, i1, d1   \* the threads of IndexLatch

VARIABLE part

\* capacity of the channel and size of a batch
MCSizes == {<<2, 1>>, <<3, 2>>}

\* the priority lane of every caller
MCLaneOf == <<1, 4>>

\* the threads that latch the tree in one behaviour
MCCasts == {{w1, w2, r1, o1, i1}, {w1, r1, o1, d1}}

\* the requests of the clients
MCWorkloads == {<<"begin", "commit", "rollback">>, <<"begin", "commit", "commit">>, <<"query", "query">>,
                <<"begin", "begin", "commit">>, <<"begin", "query", "rollback">>}

runtimevars == <<gcvars, iovars, brvars, ilvars, acvars, svvars, part>>

RuntimeInit ==
    /\ part \in {"commit", "scheduler", "bridge", "latch", "acceptor", "service"}
    /\ IOInit /\ BRInit
    /\ GCInit /\ (part = "commit" \/ sizes = <<2, 1>>)
    /\ ILInit /\ (part = "latch" \/ thread[d1].runs = 0)
    /\ IF part = "acceptor" THEN ACInit
       ELSE /\ client = [c \in Clients |-> [sends |-> "grpc", at |-> "away"]]
            /\ accepting = [pc |-> "acquire", who |-> NoClient] /\ permits = Limit
            /\ gauge = [active |-> 0, opened |-> 0, closed |-> 0]
            /\ acErrors = 0 /\ acpast = [closed |-> FALSE, failed |-> FALSE]
    /\ SVInit /\ (part = "service" \/ req[1].kind = "query")

RuntimeNext ==
    /\ UNCHANGED part
    /\ \/ part = "commit" /\ GCNext /\ UNCHANGED <<iovars, brvars, ilvars, acvars, svvars>>
       \/ part = "scheduler" /\ IONext /\ UNCHANGED <<gcvars, brvars, ilvars, acvars, svvars>>
       \/ part = "bridge" /\ BRNext /\ UNCHANGED <<gcvars, iovars, ilvars, acvars, svvars>>
       \/ part = "latch" /\ ILNext /\ UNCHANGED <<gcvars, iovars, brvars, acvars, svvars>>
       \/ part = "acceptor" /\ ACNext /\ UNCHANGED <<gcvars, iovars, brvars, ilvars, svvars>>
       \/ part = "service" /\ SVNext /\ UNCHANGED <<gcvars, iovars, brvars, ilvars, acvars>>

(* The fairness of the components.  part never changes, and a component    *)
(* that does not run takes no step: its fairness asks nothing.             *)
RuntimeFair ==
    /\ \A s \in Submitters : WF_gcvars(part = "commit" /\ GCStep(s))
    /\ \A w \in IoWorkers : WF_iovars(part = "scheduler" /\ IOStep(w))
    /\ \A c \in BrCallers : WF_brvars(part = "bridge" /\ CallerStep(c))
    /\ \A w \in BrWorkers : WF_brvars(part = "bridge" /\ WorkerStep(w))
    /\ WF_brvars(part = "bridge" /\ (stop_send \/ stop_join))
    /\ \A t \in LatchThreads : WF_ilvars(part = "latch" /\ ThreadStep(t))
    /\ WF_acvars(part = "acceptor" /\ AcceptStep)
    /\ \A c \in Clients : WF_acvars(part = "acceptor" /\ dropped(c))

RuntimeSpec == RuntimeInit /\ [][RuntimeNext]_runtimevars /\ RuntimeFair
=============================================================================
