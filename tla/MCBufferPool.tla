----------------------------- MODULE MCBufferPool -----------------------------
(***************************************************************************)
(* The buffer pool under one client that makes every kind of call, with    *)
(* prefetch and I/O errors, and under two clients that read and write at   *)
(* the same time beside the flusher.  The clients may stop, so deadlock is *)
(* no error.                                                               *)
(***************************************************************************)
EXTENDS BufferPool

CONSTANTS c1, c2

VARIABLE part

\* What the clients of the second part do: they read, flush, and write page 1 once, without prefetch;
\* I/O errors happen before the write.
Together ==
    /\ faults' = 0 \/ latest'[1] = 0
    /\ latest'[1] <= 1
    /\ \A c \in Clients :
         /\ cl'[c].pc # "prefetch"
         /\ \/ cl'[c].op \in {"none", "read", "flush_all"}
            \/ cl'[c].op = "write" /\ cl'[c].page = 1

PoolInit == BPInit /\ part \in {"one", "two"}

PoolNext ==
    /\ UNCHANGED part
    /\ \/ part = "one" /\ PoolStep({c1})
       \/ part = "two" /\ PoolStep(Clients) /\ Together
    /\ Noted

PoolSpec == PoolInit /\ [][PoolNext]_<<bpvars, clash, part>> /\ BPFairness
===============================================================================
