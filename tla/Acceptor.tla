------------------------------ MODULE Acceptor ------------------------------
(***************************************************************************)
(* ConnectionAcceptor of server/acceptor.rs and the stream of connections  *)
(* that into_incoming makes of it for tonic.  One accept runs at a time:   *)
(* it takes a permit of the connection limit, then a connection off the    *)
(* listener, looks at its first bytes, shakes hands where TLS is           *)
(* configured, and moves the permit into the stream.                       *)
(*                                                                         *)
(* A client is what it sends: a gRPC preface, something else, nothing (its *)
(* first bytes never come), or bytes that TLS refuses; it may reset the    *)
(* connection at any time.  TLS is configured here; without it the         *)
(* handshake of the model is a step that only ever succeeds.               *)
(***************************************************************************)
EXTENDS Integers, FiniteSets

CONSTANTS
    Clients,
    Limit,       \* max_connections
    Sends,       \* what clients may send: a set of {"grpc", "other", "silent", "badtls"}
    MaxAcErrors, \* errors of accept(2)
    NoClient

ASSUME AcceptorAssumption ==
    IsFiniteSet(Clients) /\ NoClient \notin Clients /\ Limit \in Nat

VARIABLES
    client,     \* each client: what it sends and where its connection is
    accepting,  \* the accept in progress: its step and its connection
    permits,    \* of the semaphore
    gauge,      \* active_connections, connections_opened, connections_closed
    acErrors,
    acpast      \* close was called; accept(2) or a handshake failed

acvars == <<client, accepting, permits, gauge, acErrors, acpast>>

ACInit ==
    /\ client \in [Clients -> [sends : Sends, at : {"away"}]]
    /\ accepting = [pc |-> "acquire", who |-> NoClient]
    /\ permits = Limit
    /\ gauge = [active |-> 0, opened |-> 0, closed |-> 0]
    /\ acErrors = 0
    /\ acpast = [closed |-> FALSE, failed |-> FALSE]

Move(c, place) == client' = [client EXCEPT ![c].at = place]

connect(c) ==
    /\ client[c].at = "away" /\ Move(c, "backlog")
    /\ UNCHANGED <<accepting, permits, gauge, acErrors, acpast>>

\* acquire_owned: an error once the semaphore is closed, which ends the stream
acquire ==
    /\ accepting.pc = "acquire"
    /\ \/ /\ acpast.closed /\ accepting' = [accepting EXCEPT !.pc = "ended"] /\ UNCHANGED permits
       \/ /\ ~ acpast.closed /\ permits > 0 /\ permits' = permits - 1
          /\ accepting' = [accepting EXCEPT !.pc = "listen"]
    /\ UNCHANGED <<client, gauge, acErrors, acpast>>

listen ==
    /\ accepting.pc = "listen"
    /\ \E c \in Clients :
          /\ client[c].at = "backlog" /\ Move(c, "taken")
          /\ accepting' = [pc |-> "detect", who |-> c]
    /\ UNCHANGED <<permits, gauge, acErrors, acpast>>

\* accept returned Ok(None): into_incoming ends the stream, and the permit is dropped with the call
Ended ==
    /\ accepting' = [pc |-> "ended", who |-> NoClient]
    /\ permits' = permits + 1
    /\ acpast' = [acpast EXCEPT !.failed = TRUE]

listen_fails ==
    /\ accepting.pc = "listen" /\ acErrors < MaxAcErrors
    /\ acErrors' = acErrors + 1
    /\ Ended
    /\ UNCHANGED <<client, gauge>>

\* the connection's permit is not given back
Skipped_Leaks(c) ==
    /\ Move(c, "gone") /\ UNCHANGED permits
    /\ accepting' = [pc |-> "acquire", who |-> NoClient]

\* a stream of another protocol, or an error of peek: dropped with its permit, and the loop goes on
Skipped(c) ==
    /\ Move(c, "gone") /\ permits' = permits + 1
    /\ accepting' = [pc |-> "acquire", who |-> NoClient]

\* peek returns what has come, nothing when the client is gone, and waits for a silent one
detect ==
    LET c == accepting.who
    IN /\ accepting.pc = "detect"
       /\ \/ client[c].at = "reset" /\ Skipped(c)
          \/ client[c].at = "taken" /\ client[c].sends = "other" /\ Skipped(c)
          \/ /\ client[c].at = "taken" /\ client[c].sends \in {"grpc", "badtls"}
             /\ accepting' = [accepting EXCEPT !.pc = "handshake"]
             /\ UNCHANGED <<client, permits>>
       /\ UNCHANGED <<gauge, acErrors, acpast>>

Opened == [gauge EXCEPT !.active = @ + 1, !.opened = @ + 1]

handshake ==
    LET c == accepting.who
    IN /\ accepting.pc = "handshake"
       /\ \/ /\ client[c].sends = "grpc" /\ client[c].at = "taken"
             /\ Move(c, "open") /\ gauge' = Opened
             /\ accepting' = [pc |-> "acquire", who |-> NoClient]
             /\ UNCHANGED <<permits, acpast>>
          \/ /\ client[c].sends = "badtls" \/ client[c].at = "reset"
             /\ Move(c, "gone") /\ Ended /\ UNCHANGED gauge
       /\ UNCHANGED acErrors

\* the connection ends and tonic drops the MeteredStream
dropped(c) ==
    /\ client[c].at = "open" /\ Move(c, "gone")
    /\ permits' = permits + 1
    /\ gauge' = [gauge EXCEPT !.active = @ - 1, !.closed = @ + 1]
    /\ UNCHANGED <<accepting, acErrors, acpast>>

reset(c) ==
    /\ client[c].at = "taken" /\ Move(c, "reset")
    /\ UNCHANGED <<accepting, permits, gauge, acErrors, acpast>>

ac_close ==
    /\ ~ acpast.closed /\ acpast' = [acpast EXCEPT !.closed = TRUE]
    /\ UNCHANGED <<client, accepting, permits, gauge, acErrors>>

AcceptStep == acquire \/ listen \/ detect \/ handshake

ACNext ==
    \/ AcceptStep \/ listen_fails \/ ac_close
    \/ \E c \in Clients : connect(c) \/ dropped(c) \/ reset(c)

ACSpec ==
    /\ ACInit /\ [][ACNext]_acvars
    /\ WF_acvars(AcceptStep) /\ \A c \in Clients : WF_acvars(dropped(c))

-----------------------------------------------------------------------------
OpenNow == {c \in Clients : client[c].at = "open"}

Holding == IF accepting.pc \in {"listen", "detect", "handshake"} THEN 1 ELSE 0

\* No permit of the connection limit is lost or made: each one is free, held by the accept in
\* progress or inside an open stream, so that at most Limit connections are open.
PermitsConserved == permits + Holding + Cardinality(OpenNow) = Limit

\* The gauge counts the open gRPC connections, and the two counters differ by it, whichever of the
\* clients reset, are skipped or fail their handshake (MeteredStream, accept).
GaugeIsOpen == gauge.active = Cardinality(OpenNow) /\ gauge.active = gauge.opened - gauge.closed

\* A silent client keeps the accept waiting for its first bytes.
HeadOfLine == accepting.pc = "detect" /\ client[accepting.who].sends = "silent" /\ client[accepting.who].at = "taken"

\* As long as the stream has not ended and no silent client is at its head, a connection in the
\* backlog is taken: the connections that hold the permits end, and the ones that are skipped give
\* theirs back.
BacklogServed ==
    \A c \in Clients : client[c].at = "backlog" ~> (client[c].at # "backlog" \/ accepting.pc = "ended" \/ HeadOfLine)

\* into_incoming: failed connections "are skipped, not surfaced as stream errors, so a single bad
\* client cannot tear down the listener"; "The stream ends (`None`) once close has been called".
\* Refuted: README, section 5.
EndsOnlyWhenClosed == accepting.pc = "ended" => acpast.closed
=============================================================================
