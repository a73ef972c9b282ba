------------------------------ MODULE ApiServer ------------------------------
(***************************************************************************)
(* The API socket server of src/main/main.c: listen_cb() accepting         *)
(* clients, api_read_cb() reading one request, dispatching it and sending  *)
(* the response, and api_write_cb() retrying a response that met EAGAIN.   *)
(*                                                                         *)
(* Each libevent callback runs to completion on the control thread and is  *)
(* one step.  Clients are separate processes: they connect, write the      *)
(* bytes of their requests, read responses and may close at any time.      *)
(*                                                                         *)
(* A client's byte stream is a sequence of units: the 12-byte header of    *)
(* request i, then its PayUnits payload units.  recv() returns what has    *)
(* arrived, up to what was asked.  The kernel gives accept() the lowest    *)
(* free descriptor.  An event stays in libevent's table for its fd until   *)
(* freed; when the fd is closed and later reused, a surviving event is      *)
(* armed on the new socket.                                                *)
(***************************************************************************)
EXTENDS Naturals, SequencesExt

CONSTANTS
    Clients,      \* client processes, each connecting at most once
    Fds,          \* descriptors accept() can return (numbers)
    MaxReq,       \* requests each client sends
    PayUnits,     \* payload units of every request (payload_len > 0 iff > 0)
    SndBuf,       \* responses the server->client socket buffer holds
    WholeWrites,  \* TRUE: a client writes each request with one send()
    NOCONN,       \* an fd with no socket behind it
    JUNK          \* the id of a request parsed out of payload bytes

ASSUME Fds \subseteq Nat /\ NOCONN \notin Clients /\ JUNK \notin Nat
ASSUME MaxReq \in Nat \ {0} /\ PayUnits \in Nat /\ SndBuf \in Nat \ {0}

Ids == 1..MaxReq

\* One unit of a client's byte stream.
Unit == [id : Ids, part : {0} \cup 1..PayUnits]   \* part 0 is the header

\* Everything client c will ever write.
Stream == FoldLeft(LAMBDA s, i : s \o [k \in 1..PayUnits + 1 |-> [id |-> i, part |-> k - 1]],
                   <<>>, [i \in Ids |-> i])

\* Number of units up to the end of request i.
EndOf(i) == i * (PayUnits + 1)

\* A response frame, with the client it was built for and whether the
\* request it answers was read with its whole payload.
Resp == [to : Clients, id : Ids \cup {JUNK}, whole : BOOLEAN]

VARIABLES
    cstate,    \* client -> "init" | "conn" | "closed"
    written,   \* client -> units of Stream written so far
    toSrv,     \* client -> units in the client->server socket
    toCli,     \* client -> responses in the server->client socket
    got,       \* client -> responses the client has read
    backlog,   \* connections waiting in the listen queue
    fdOf,      \* fd -> client whose server-side socket the fd is, or NOCONN
    revs,      \* fds with an api_read_cb event
    wevs,      \* api_write_cb events: [fd, resp]
    handled,   \* requests a handler was called for (as responses)
    down,      \* the reactor has been torn down (main()'s shutdown: label)
    tcloses    \* fd -> close() calls the teardown's finalizers made on it

vars == <<cstate, written, toSrv, toCli, got, backlog, fdOf, revs, wevs, handled,
          down, tcloses>>

-----------------------------------------------------------------------------
(* Client processes.                                                       *)

Connect(c) ==
    /\ cstate[c] = "init"
    /\ cstate' = [cstate EXCEPT ![c] = "conn"]
    /\ backlog' = Append(backlog, c)
    /\ UNCHANGED <<written, toSrv, toCli, got, fdOf, revs, wevs, handled,
                   down, tcloses>>

\* The sizes the next send() of client c may have.
WriteSizes(c) ==
    IF WholeWrites THEN {PayUnits + 1} ELSE 1..(Len(Stream) - written[c])

ClientWrite(c) ==
    /\ cstate[c] = "conn"
    /\ written[c] < Len(Stream)
    /\ \E n \in WriteSizes(c) :
          /\ toSrv' = [toSrv EXCEPT ![c] = @ \o SubSeq(Stream, written[c] + 1, written[c] + n)]
          /\ written' = [written EXCEPT ![c] = @ + n]
    /\ UNCHANGED <<cstate, toCli, got, backlog, fdOf, revs, wevs, handled,
                   down, tcloses>>

ClientRecv(c) ==
    /\ cstate[c] = "conn"
    /\ toCli[c] # <<>>
    /\ got' = [got EXCEPT ![c] = Append(@, Head(toCli[c]))]
    /\ toCli' = [toCli EXCEPT ![c] = Tail(@)]
    /\ UNCHANGED <<cstate, written, toSrv, backlog, fdOf, revs, wevs, handled,
                   down, tcloses>>

\* close(): unread responses are discarded; the server sees EV_CLOSED.
ClientClose(c) ==
    /\ cstate[c] = "conn"
    /\ cstate' = [cstate EXCEPT ![c] = "closed"]
    /\ toCli' = [toCli EXCEPT ![c] = <<>>]
    /\ UNCHANGED <<written, toSrv, got, backlog, fdOf, revs, wevs, handled,
                   down, tcloses>>

-----------------------------------------------------------------------------
(* Server callbacks.                                                       *)

FreeFds == {f \in Fds : fdOf[f] = NOCONN}

\* listen_cb(): accept4() returns the lowest free descriptor, then a
\* persistent read event is added for it.  With no descriptor left accept4()
\* fails with EMFILE and the callback returns.
ListenCb ==
    /\ ~down
    /\ backlog # <<>>
    /\ FreeFds # {}
    /\ LET fd == Min(FreeFds) IN
       /\ fdOf' = [fdOf EXCEPT ![fd] = Head(backlog)]
       /\ revs' = revs \cup {fd}
    /\ backlog' = Tail(backlog)
    /\ UNCHANGED <<cstate, written, toSrv, toCli, got, wevs, handled,
                   down, tcloses>>

\* The close label of api_read_cb(): the read event is freed and its
\* finalizer closes the descriptor.  Write events of the fd stay.
CloseConn(fd) ==
    /\ revs' = revs \ {fd}
    /\ fdOf' = [fdOf EXCEPT ![fd] = NOCONN]

\* What api_read_cb() reads from in: the request header, then up to
\* payload_len bytes of payload.  A payload unit where a header should be
\* is parsed as a request with a junk id and, say, no payload.
ReadRequest(in) ==
    LET h == Head(in)
        plen == IF h.part = 0 THEN PayUnits ELSE 0
        avail == Len(in) - 1
        k == IF plen <= avail THEN plen ELSE avail
    IN [id |-> IF h.part = 0 THEN h.id ELSE JUNK,
        eagain |-> plen > 0 /\ avail = 0,     \* recv() < 0: goto close
        whole |-> k = plen,
        used |-> 1 + k]

SendResponse_drop(fd, c, r) ==
    IF cstate[c] = "closed"
    THEN CloseConn(fd) /\ UNCHANGED <<toCli, wevs>>
    ELSE IF Len(toCli[c]) < SndBuf
    THEN /\ toCli' = [toCli EXCEPT ![c] = Append(@, r)]
         /\ UNCHANGED <<revs, fdOf, wevs>>
    ELSE UNCHANGED <<revs, fdOf, toCli, wevs>>

\* send_response() of a fresh response and the retry_send label: the
\* response goes into the socket buffer, or on EAGAIN a one-shot write
\* event takes it.  A send to a closed peer fails and closes.
SendResponse(fd, c, r) ==
    IF cstate[c] = "closed"
    THEN CloseConn(fd) /\ UNCHANGED <<toCli, wevs>>
    ELSE IF Len(toCli[c]) < SndBuf
    THEN /\ toCli' = [toCli EXCEPT ![c] = Append(@, r)]
         /\ UNCHANGED <<revs, fdOf, wevs>>
    ELSE /\ wevs' = wevs \cup {[fd |-> fd, resp |-> r]}
         /\ UNCHANGED <<revs, fdOf, toCli>>

\* api_read_cb() on a readable or closed connection.
ApiReadCb(fd) ==
    LET c == fdOf[fd] IN
    /\ ~down
    /\ fd \in revs
    /\ toSrv[c] # <<>> \/ cstate[c] = "closed"
    /\ IF cstate[c] = "closed"
       THEN /\ CloseConn(fd)
            /\ UNCHANGED <<toSrv, toCli, wevs, handled>>
       ELSE LET rq == ReadRequest(toSrv[c])
                r == [to |-> c, id |-> rq.id, whole |-> rq.whole]
            IN /\ toSrv' = [toSrv EXCEPT ![c] = SubSeq(@, rq.used + 1, Len(@))]
               /\ IF rq.eagain
                  THEN CloseConn(fd) /\ UNCHANGED <<toCli, wevs, handled>>
                  ELSE /\ handled' = handled \cup {r}
                       /\ SendResponse(fd, c, r)
    /\ UNCHANGED <<cstate, written, got, backlog,
                   down, tcloses>>

\* api_write_cb(): the event fires when the socket now behind fd is
\* writable (or its peer is gone); the response is sent there and the event
\* freed.  An event whose fd has no socket never fires.
ApiWriteCb(e) ==
    LET c == fdOf[e.fd] IN
    /\ ~down
    /\ e \in wevs
    /\ c # NOCONN
    /\ Len(toCli[c]) < SndBuf \/ cstate[c] = "closed"
    /\ toCli' = IF cstate[c] = "closed" THEN toCli
                ELSE [toCli EXCEPT ![c] = Append(@, e.resp)]
    /\ wevs' = wevs \ {e}
    /\ UNCHANGED <<cstate, written, toSrv, got, backlog, fdOf, revs, handled,
                   down, tcloses>>

\* ev_close(), called by event_base_foreach_event() for every event still
\* in the base: the events of api_read_cb and api_write_cb are freed with
\* finalize_close_fd(), which closes the event's descriptor.  The number of
\* close() calls each descriptor gets.
TeardownCloses ==
    [f \in Fds |-> (IF f \in revs THEN 1 ELSE 0)
                   + Cardinality({e \in wevs : e.fd = f})]

\* The shutdown: label of main() after the reactor returned on a signal:
\* ev_listen is finalized (connections still in the listen queue are
\* reset), then ev_close() on every remaining event, and event_base_free()
\* runs the finalizers.  No callback runs after this.
Teardown ==
    /\ ~down
    /\ down' = TRUE
    /\ tcloses' = TeardownCloses
    /\ fdOf' = [f \in Fds |-> IF TeardownCloses[f] > 0 THEN NOCONN ELSE fdOf[f]]
    /\ revs' = {} /\ wevs' = {} /\ backlog' = <<>>
    /\ UNCHANGED <<cstate, written, toSrv, toCli, got, handled>>

-----------------------------------------------------------------------------

Init ==
    /\ cstate = [c \in Clients |-> "init"]
    /\ written = [c \in Clients |-> 0]
    /\ toSrv = [c \in Clients |-> <<>>]
    /\ toCli = [c \in Clients |-> <<>>]
    /\ got = [c \in Clients |-> <<>>]
    /\ backlog = <<>>
    /\ fdOf = [f \in Fds |-> NOCONN]
    /\ revs = {}
    /\ wevs = {}
    /\ handled = {}
    /\ down = FALSE
    /\ tcloses = [f \in Fds |-> 0]

Server ==
    \/ ListenCb
    \/ \E fd \in Fds : ApiReadCb(fd)
    \/ \E e \in wevs : ApiWriteCb(e)
    \/ Teardown

Client(c) == Connect(c) \/ ClientWrite(c) \/ ClientRecv(c) \/ ClientClose(c)

Next == Server \/ \E c \in Clients : Client(c)

\* The reactor runs every callback whose descriptor stays ready; a client
\* that stays connected keeps reading its responses.
Fairness ==
    /\ WF_vars(ListenCb)
    /\ \A fd \in Fds : WF_vars(ApiReadCb(fd))
    /\ \A e \in [fd : Fds, resp : Resp] : WF_vars(e \in wevs /\ ApiWriteCb(e))
    /\ \A c \in Clients : WF_vars(ClientRecv(c))

Spec == Init /\ [][Next]_vars /\ Fairness

-----------------------------------------------------------------------------
(* Properties.                                                             *)

\* Every variable holds a value of its type; no socket buffer holds more
\* than it can.
TypeOK ==
    /\ cstate \in [Clients -> {"init", "conn", "closed"}]
    /\ written \in [Clients -> 0..Len(Stream)]
    /\ toSrv \in [Clients -> Seq(Unit)]
    /\ \A c \in Clients : Len(toCli[c]) <= SndBuf /\ Range(toCli[c]) \subseteq Resp
    /\ got \in [Clients -> Seq(Resp)]
    /\ Range(backlog) \subseteq Clients
    /\ fdOf \in [Fds -> Clients \cup {NOCONN}]
    /\ revs \subseteq Fds
    /\ wevs \subseteq [fd : Fds, resp : Resp]
    /\ handled \subseteq Resp
    /\ down \in BOOLEAN /\ tcloses \in [Fds -> Nat]

\* A handler is only called with a request a client sent, carrying its whole
\* payload (spec: handlers are not invoked until the full payload is in
\* hand), whatever the pieces the client's bytes arrive in.
WholeRequests == \A r \in handled : r.whole /\ r.id # JUNK

\* A client reads only responses to its own requests, even after another
\* connection with the same descriptor number has come and gone.
OwnResponses == \A c \in Clients : \A k \in DOMAIN got[c] : got[c][k].to = c

\* On one connection, responses arrive in the order of the requests, also
\* when some of them had to wait for a write event.
ResponsesInOrder ==
    \A c \in Clients : \A j, k \in DOMAIN got[c] :
        (j < k /\ got[c][j].id \in Ids /\ got[c][k].id \in Ids) =>
            got[c][j].id < got[c][k].id

\* Every request a client has written is answered while the client stays
\* connected and the daemon runs: neither the EAGAIN path nor a close loses
\* it (a shutdown discards pending writes, spec section 5).
RequestsAnswered ==
    \A c \in Clients, i \in Ids :
        written[c] >= EndOf(i) ~>
            (cstate[c] = "closed" \/ down \/ \E k \in DOMAIN got[c] : got[c][k] = [to |-> c, id |-> i, whole |-> TRUE])

\* The teardown closes each connection's descriptor once (spec section 4.F:
\* a finalize callback closes the fd).  A connection whose response waits
\* on a write event has two events on one descriptor, and ev_close()
\* finalizes both.
TeardownClosesOnce == \A f \in Fds : tcloses[f] <= 1
=============================================================================
