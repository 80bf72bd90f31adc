----------------------------- MODULE AdbSockets -----------------------------
(***************************************************************************)
(* The streams of minadbd: sockets.c, the packet handlers of adb.c, the     *)
(* select loop of fdevent.c and the sideload service of services.c, over    *)
(* one transport (AdbTransport has the life of a transport).                *)
(*                                                                          *)
(* A stream goes from the host's socket to a local socket, and through a    *)
(* socket pair to the thread of the service.  The event loop is one thread: *)
(* a handler is one step, an operator from the daemon's state d to its next *)
(* state.  The host is external; it keeps to the protocol, that is, it has  *)
(* one WRTE of a stream outstanding at a time.                              *)
(***************************************************************************)
EXTENDS Integers, Sequences, FiniteSets, FiniteSetsExt, SequencesExt

CONSTANTS
    NStreams,   \* bound: streams the host opens, its socket ids in order
    Size,       \* [Streams -> Nat]: the length of the package sent on a stream
    Xfer,       \* what the service reads at a time: 4096
    Payload,    \* bytes the host puts into one WRTE at most
    BufCap,     \* bytes the socket pair has room for
    MaxResets   \* bound: how often the host starts anew or is unplugged

ASSUME AdbSocketsAssumption ==
    /\ {NStreams, Xfer, Payload, BufCap, MaxResets} \subseteq Nat \ {0}
    /\ Size \in [1..NStreams -> Nat]

Streams == 1..NStreams
Sock == 1..NStreams     \* local ids, in the order of the OPENs
Trans == 0              \* the file descriptor of the transport
MaxSize == Max(Range(Size))

VARIABLES
    d,          \* the event loop's state, see Daemon
    svc,        \* [Sock -> ...]: the threads of sideload_service
    file,       \* ADB_SIDELOAD_FILENAME
    exited,     \* exit(0)
    toLoop,     \* packets for the event loop
    host,       \* the host's sockets
    hconn,      \* what the host thinks of the connection
    nresets,    \* times it started anew or was unplugged
    overlap     \* history: two sideload services were alive at a time

vars == <<d, svc, file, exited, toLoop, host, hconn, nresets, overlap>>

Bytes == Streams \X (1..MaxSize)        \* the k-th byte sent on a stream
Hole == <<0, 0>>                        \* what a file has where nothing was written
Status == {"OKAY", "FAIL"}

Msg(cmd, arg0, arg1, data) == [cmd |-> cmd, arg0 |-> arg0, arg1 |-> arg1, data |-> data]

Daemon ==
    [st : [Sock -> {"free", "open", "closing", "gone"}],    \* lists it is on
     peer : [Sock -> Streams \cup {0}],         \* the remote socket
     wants : [Sock -> SUBSET {"R", "W"}],       \* fde.state & FDE_EVENTMASK
     events : [Sock -> SUBSET {"R", "W"}],      \* fde.events
     plist : Seq(Sock \cup {Trans}),            \* list_pending
     pkts : [Sock -> Seq(Bytes)],               \* pkt_first .. pkt_last
     inb : [Sock -> Seq(Bytes)], outb : [Sock -> Seq(Status)],  \* socket pair
     origin : [Sock -> Streams \cup {0}],       \* history: the stream it was opened for
     nextId : 1..(NStreams + 1),                \* local_socket_next_id
     online : BOOLEAN,                          \* connection_state # CS_OFFLINE
     toHost : Seq([cmd : STRING, arg0 : Nat, arg1 : Nat, data : Status \cup {""}])]

\* The type invariant.
TypeOK ==
    /\ d \in Daemon
    /\ \A i \in Sock :
          /\ svc[i].pc \in {"none", "creat", "read", "status", "close", "exit", "done"}
          /\ svc[i].left \in 0..MaxSize /\ svc[i].off \in 0..MaxSize
          /\ Len(svc[i].buf) <= Xfer /\ Len(d.inb[i]) <= BufCap
    /\ file \in Seq(Bytes \cup {Hole}) /\ exited \in BOOLEAN /\ overlap \in BOOLEAN
    /\ hconn \in {"connecting", "up", "down"} /\ nresets \in 0..MaxResets
    /\ \A h \in Streams :
          host[h].st \in {"idle", "opening", "open", "closed", "left"} /\ host[h].sent \in 0..MaxSize

Init ==
    /\ d = [st |-> [i \in Sock |-> "free"], peer |-> [i \in Sock |-> 0],
            wants |-> [i \in Sock |-> {}], events |-> [i \in Sock |-> {}], plist |-> <<>>,
            pkts |-> [i \in Sock |-> <<>>], inb |-> [i \in Sock |-> <<>>],
            outb |-> [i \in Sock |-> <<>>], origin |-> [i \in Sock |-> 0],
            nextId |-> 1, online |-> FALSE, toHost |-> <<>>]
    /\ svc = [i \in Sock |-> [pc |-> "none", left |-> 0, buf |-> <<>>, off |-> 0, got |-> <<>>]]
    /\ file = <<>> /\ exited = FALSE /\ overlap = FALSE
    /\ toLoop = <<Msg("CNXN", 0, 0, "")>> /\ hconn = "connecting" /\ nresets = 0
    /\ host = [h \in Streams |-> [st |-> "idle", sent |-> 0, waiting |-> FALSE,
                                  dev |-> 0, status |-> ""]]

SvcOpen(i) == svc[i].pc \in {"creat", "read", "status", "close"}
Alive(i) == SvcOpen(i) \/ svc[i].pc = "exit"

-----------------------------------------------------------------------------
(* fdevent.c *)

\* Mistake: a closed descriptor stays on the list of pending ones.
FdeRemove_StillPending(s, i) ==
    [s EXCEPT !.wants[i] = {}, !.events[i] = {}]

FdeRemove(s, i) ==
    [s EXCEPT !.wants[i] = {}, !.events[i] = {}, !.plist = SelectSeq(@, LAMBDA x : x # i)]

\* fdevent_set.  Of a pending descriptor the code forgets the events that ARE
\* in the new set, and signals those that are not.
FdeSet(s, i, ev) ==
    LET pending == i \in ToSet(s.plist)
        rest == s.events[i] \ ev
    IN IF s.wants[i] = ev THEN s
       ELSE [s EXCEPT !.wants[i] = ev,
                      !.events[i] = IF pending THEN rest ELSE @,
                      !.plist = IF pending /\ rest = {} THEN SelectSeq(@, LAMBDA x : x # i) ELSE @]

FdeAdd(s, i, e) == FdeSet(s, i, s.wants[i] \cup {e})
FdeDel(s, i, e) == FdeSet(s, i, s.wants[i] \ {e})

\* What select reports of a socket: data or the end of it, room or the end.
Ready(i) == {e \in d.wants[i] : \/ ~SvcOpen(i)
                                \/ e = "R" /\ d.outb[i] # <<>>
                                \/ e = "W" /\ Len(d.inb[i]) < BufCap}

\* fdevent_process, once the pending list is worked off: descriptors in order.
Select ==
    LET ready == {i \in Sock : Ready(i) # {}} \cup (IF toLoop = <<>> THEN {} ELSE {Trans})
    IN /\ ~exited /\ d.plist = <<>> /\ ready # {}
       /\ d' = [d EXCEPT !.plist = SetToSortSeq(ready, <),
                         !.events = [i \in Sock |-> @[i] \cup Ready(i)]]
       /\ UNCHANGED <<svc, file, exited, toLoop, host, hconn, nresets, overlap>>

-----------------------------------------------------------------------------
(* sockets.c *)

Send(s, m) == [s EXCEPT !.toHost = Append(@, m)]

\* send_ready, remote_socket_ready, remote_socket_enqueue
SendReady(s, i) == Send(s, Msg("OKAY", i, s.peer[i], ""))
SendWrite(s, i, status) == Send(s, Msg("WRTE", i, s.peer[i], status))

\* remote_socket_close of a remote whose peer is already detached: arg0 is 0.
RemoteClose(s, i) == [Send(s, Msg("CLSE", 0, s.peer[i], "")) EXCEPT !.peer[i] = 0]

\* local_socket_destroy: the descriptor is closed, what is queued is dropped.
Destroy(s, i) == [FdeRemove(s, i) EXCEPT !.st[i] = "gone", !.pkts[i] = <<>>]

\* Mistake: what has not been written yet is thrown away.
CloseLocal_NoLinger(s, i) ==
    Destroy(IF s.peer[i] = 0 THEN s ELSE RemoteClose(s, i), i)

\* local_socket_close_locked: with packets left the socket lives on until they
\* are written, on the closing list, where find_local_socket does not look.
CloseLocal(s, i) ==
    LET s1 == IF s.peer[i] = 0 THEN s ELSE RemoteClose(s, i)
    IN IF s1.st[i] = "closing" \/ s1.pkts[i] = <<>> THEN Destroy(s1, i)
       ELSE FdeDel([s1 EXCEPT !.st[i] = "closing"], i, "R")

\* adb_write of as many of the bytes as there is room for
Write(s, i, bytes) ==
    LET n == Min({BufCap - Len(s.inb[i]), Len(bytes)})
    IN [s EXCEPT !.inb[i] = @ \o SubSeq(bytes, 1, n), !.pkts[i] = SubSeq(bytes, n + 1, Len(bytes))]

\* Mistake: a packet that was only partly written is acknowledged at once.
Enqueue_EarlyAck(s, i, bytes) ==
    IF s.pkts[i] # <<>> THEN [s EXCEPT !.pkts[i] = @ \o bytes]
    ELSE IF ~SvcOpen(i) THEN CloseLocal(s, i)
    ELSE LET s1 == SendReady(Write(s, i, bytes), i)
         IN IF s1.pkts[i] = <<>> THEN s1 ELSE FdeAdd(s1, i, "W")

\* local_socket_enqueue, with the send_ready of its caller if it returns 0
Enqueue(s, i, bytes) ==
    IF s.pkts[i] # <<>> THEN [s EXCEPT !.pkts[i] = @ \o bytes]
    ELSE IF ~SvcOpen(i) THEN CloseLocal(s, i)
    ELSE LET s1 == Write(s, i, bytes)
         IN IF s1.pkts[i] = <<>> THEN SendReady(s1, i) ELSE FdeAdd(s1, i, "W")

\* local_socket_event_func, FDE_WRITE.  It goes on to FDE_READ only when the
\* queue is empty and the socket is not closing.
Drained(s, i) == s.pkts[i] = <<>> \/ (SvcOpen(i) /\ Len(s.inb[i]) + Len(s.pkts[i]) <= BufCap)

\* Mistake: the host is not told that it may go on.
EventWrite_NoReady(s, i) ==
    IF s.pkts[i] # <<>> /\ ~SvcOpen(i) THEN CloseLocal(s, i)
    ELSE LET s1 == Write(s, i, s.pkts[i])
         IN IF s1.pkts[i] # <<>> THEN s1
            ELSE IF s1.st[i] = "closing" THEN CloseLocal(s1, i)
            ELSE FdeDel(s1, i, "W")

EventWrite(s, i) ==
    IF s.pkts[i] # <<>> /\ ~SvcOpen(i) THEN CloseLocal(s, i)
    ELSE LET s1 == Write(s, i, s.pkts[i])
         IN IF s1.pkts[i] # <<>> THEN s1
            ELSE IF s1.st[i] = "closing" THEN CloseLocal(s1, i)
            ELSE SendReady(FdeDel(s1, i, "W"), i)

\* FDE_READ: the packet goes to the host, which is then waited for; the end of
\* the stream closes the socket all the same.
EventRead(s, i) ==
    LET s1 == [s EXCEPT !.outb[i] = <<>>]
        s2 == IF s.outb[i] = <<>> \/ s.peer[i] = 0 THEN s1
              ELSE FdeDel(SendWrite(s1, i, Head(s.outb[i])), i, "R")
    IN IF SvcOpen(i) THEN s2 ELSE CloseLocal(s2, i)

\* fdevent_call_fdfunc of a local socket
Event(i) ==
    LET ev == d.events[i]
        goOn == "W" \in ev => d.st[i] = "open" /\ Drained(d, i)
        s0 == [d EXCEPT !.plist = Tail(@), !.events[i] = {}]
        s1 == IF "W" \in ev THEN EventWrite(s0, i) ELSE s0
    IN /\ ~exited /\ d.plist # <<>> /\ Head(d.plist) = i
       /\ d' = IF "R" \in ev /\ goOn THEN EventRead(s1, i) ELSE s1
       /\ UNCHANGED <<svc, file, exited, toLoop, host, hconn, nresets, overlap>>

-----------------------------------------------------------------------------
(* adb.c *)

\* run_transport_disconnects: every remote is freed, its local socket closed.
Disconnects(s) ==
    FoldLeft(LAMBDA x, i : IF x.peer[i] = 0 THEN x ELSE CloseLocal([x EXCEPT !.peer[i] = 0], i),
             s, [i \in Sock |-> i])

Find(s, id) == id \in Sock /\ s.st[id] = "open"    \* find_local_socket

\* A_CNXN
Connect(s) ==
    Send([(IF s.online THEN Disconnects(s) ELSE s) EXCEPT !.online = TRUE], Msg("CNXN", 0, 0, ""))

\* A_OPEN of a service, and of what service_to_fd does not know or could not start
Open(s, h) ==
    LET i == s.nextId
    IN FdeAdd(SendReady([s EXCEPT !.st[i] = "open", !.peer[i] = h, !.origin[i] = h,
                                  !.nextId = @ + 1], i), i, "R")

Refuse(s, h) == Send(s, Msg("CLSE", 0, h, ""))

HandlePacket(s, m) ==
    CASE m.cmd = "OFFLINE" -> Disconnects([s EXCEPT !.online = FALSE])
      [] m.cmd = "CNXN" -> Connect(s)
      [] m.cmd = "OKAY" /\ s.online /\ Find(s, m.arg1) -> FdeAdd(s, m.arg1, "R")
      [] m.cmd = "CLSE" /\ s.online /\ Find(s, m.arg1) -> CloseLocal(s, m.arg1)
      [] m.cmd = "WRTE" /\ s.online /\ Find(s, m.arg1) -> Enqueue(s, m.arg1, m.data)
      [] OTHER -> s

\* transport_socket_events
Receive(m) ==
    /\ ~exited /\ d.plist # <<>> /\ Head(d.plist) = Trans
    /\ m = Head(toLoop) /\ toLoop' = Tail(toLoop)
    /\ UNCHANGED <<file, exited, host, hconn, nresets, overlap>>

Handle ==
    \E m \in ToSet(toLoop) :
        /\ Receive(m) /\ (m.cmd = "OPEN" => ~d.online)
        /\ d' = HandlePacket([d EXCEPT !.plist = Tail(@)], m)
        /\ UNCHANGED svc

\* create_service_thread, or not
HandleOpen ==
    \E m \in ToSet(toLoop) :
        /\ Receive(m) /\ m.cmd = "OPEN" /\ d.online
        /\ LET s == [d EXCEPT !.plist = Tail(@)] IN
           \/ /\ d' = Open(s, m.arg0)
              /\ svc' = [svc EXCEPT ![d.nextId].pc = "creat", ![d.nextId].left = m.data]
           \/ d' = Refuse(s, m.arg0) /\ UNCHANGED svc

-----------------------------------------------------------------------------
(* sideload_service, in a thread of its own *)

\* adb_creat empties the file for everyone who has it open.
Creat(i) ==
    /\ ~exited /\ svc[i].pc = "creat"
    /\ \/ /\ svc' = [svc EXCEPT ![i].pc = IF svc[i].left = 0 THEN "status" ELSE "read"]
          /\ file' = <<>>
          /\ overlap' = (overlap \/ \E j \in Sock \ {i} : Alive(j))
       \/ svc' = [svc EXCEPT ![i].pc = "done"] /\ UNCHANGED <<file, overlap>>
    /\ UNCHANGED <<d, exited, toLoop, host, hconn, nresets>>

\* writex to the file, at this thread's own offset
WriteAt(off, bytes) ==
    [k \in 1..Max({off + Len(bytes), Len(file)}) |->
        IF k \in (off + 1)..(off + Len(bytes)) THEN bytes[k - off]
        ELSE IF k \in DOMAIN file THEN file[k] ELSE Hole]

LeftAfter(count, bytes) == count - Len(bytes)

\* readx: until the transfer is complete, or the socket's other end is closed.
\* The writex that follows is part of the step; the file system may be full.
Read(i) ==
    LET need == Min({Xfer, svc[i].left}) - Len(svc[i].buf)
        n == Min({need, Len(d.inb[i])})
        buf == svc[i].buf \o SubSeq(d.inb[i], 1, n)
        left == LeftAfter(svc[i].left, buf)
        Took(pc, rest, off, lft) ==
            svc' = [svc EXCEPT ![i] = [pc |-> pc, buf |-> rest, off |-> off, left |-> lft,
                                       got |-> @.got \o SubSeq(d.inb[i], 1, n)]]
    IN /\ ~exited /\ svc[i].pc = "read"
       /\ d' = [d EXCEPT !.inb[i] = SubSeq(@, n + 1, Len(@))]
       /\ \/ /\ n > 0 /\ n < need /\ UNCHANGED file
             /\ Took("read", buf, svc[i].off, svc[i].left)
          \/ /\ n = need /\ file' = WriteAt(svc[i].off, buf)
             /\ Took(IF left = 0 THEN "status" ELSE "read", <<>>, svc[i].off + Len(buf), left)
          \/ /\ n = need /\ UNCHANGED file
             /\ Took("status", buf, svc[i].off, svc[i].left)
          \/ /\ n = 0 /\ d.st[i] = "gone" /\ UNCHANGED file
             /\ Took("status", buf, svc[i].off, svc[i].left)
       /\ UNCHANGED <<exited, toLoop, host, hconn, nresets, overlap>>

\* Mistake: OKAY for whatever has arrived.
Report_Always(i) ==
    /\ ~exited /\ svc[i].pc = "status"
    /\ svc' = [svc EXCEPT ![i].pc = "close", ![i].left = 0]
    /\ d' = IF d.st[i] = "gone" THEN d ELSE [d EXCEPT !.outb[i] = <<"OKAY">>]
    /\ UNCHANGED <<file, exited, toLoop, host, hconn, nresets, overlap>>

Report(i) ==
    /\ ~exited /\ svc[i].pc = "status"
    /\ svc' = [svc EXCEPT ![i].pc = "close"]
    /\ d' = IF d.st[i] = "gone" THEN d
             ELSE [d EXCEPT !.outb[i] = <<IF svc[i].left = 0 THEN "OKAY" ELSE "FAIL">>]
    /\ UNCHANGED <<file, exited, toLoop, host, hconn, nresets, overlap>>

CloseService(i) ==
    /\ ~exited /\ svc[i].pc = "close"
    /\ svc' = [svc EXCEPT ![i].pc = IF svc[i].left = 0 THEN "exit" ELSE "done"]
    /\ UNCHANGED <<d, file, exited, toLoop, host, hconn, nresets, overlap>>

\* sleep(1); exit(0): the whole daemon
Exit(i) ==
    /\ ~exited /\ svc[i].pc = "exit" /\ exited' = TRUE
    /\ UNCHANGED <<d, svc, file, toLoop, host, hconn, nresets, overlap>>

Service(i) == Creat(i) \/ Read(i) \/ Report(i) \/ CloseService(i) \/ Exit(i)

-----------------------------------------------------------------------------
(* The host: external. *)

\* The host lets go of a stream.
Forget(x, st) == [x EXCEPT !.st = st, !.waiting = FALSE, !.dev = 0]

ToDevice(m) == ~exited /\ toLoop' = Append(toLoop, m)

HostOpen(h) ==
    /\ hconn = "up" /\ host[h].st = "idle" /\ \A g \in 1..(h - 1) : host[g].st # "idle"
    /\ host' = [host EXCEPT ![h].st = "opening", ![h].waiting = TRUE]
    /\ ToDevice(Msg("OPEN", h, 0, Size[h]))
    /\ UNCHANGED <<d, svc, file, exited, hconn, nresets, overlap>>

HostWrite(h) ==
    /\ hconn = "up" /\ host[h].st = "open" /\ ~host[h].waiting /\ host[h].sent < Size[h]
    /\ LET n == Min({Payload, Size[h] - host[h].sent}) IN
       /\ host' = [host EXCEPT ![h].waiting = TRUE, ![h].sent = @ + n]
       /\ ToDevice(Msg("WRTE", h, host[h].dev, [k \in 1..n |-> <<h, host[h].sent + k>>]))
    /\ UNCHANGED <<d, svc, file, exited, hconn, nresets, overlap>>

HostClose(h) ==
    /\ hconn = "up" /\ host[h].st = "open"
    /\ host' = [host EXCEPT ![h] = Forget(@, "left")]
    /\ ToDevice(Msg("CLSE", h, host[h].dev, ""))
    /\ UNCHANGED <<d, svc, file, exited, hconn, nresets, overlap>>

\* The host starts anew (CNXN), or is unplugged (SYNC(0, 0) of output_thread).
HostReset(cmd) ==
    /\ hconn = "up" /\ nresets < MaxResets /\ nresets' = nresets + 1
    /\ hconn' = IF cmd = "CNXN" THEN "connecting" ELSE "down"
    /\ host' = [h \in Streams |-> IF host[h].st \in {"opening", "open"}
                                    THEN Forget(host[h], "left") ELSE host[h]]
    /\ d' = [d EXCEPT !.toHost = <<>>] /\ ToDevice(Msg(cmd, 0, 0, ""))
    /\ UNCHANGED <<svc, file, exited, overlap>>

HostReceive ==
    /\ ~exited /\ d.toHost # <<>> /\ d' = [d EXCEPT !.toHost = Tail(@)]
    /\ LET m == Head(d.toHost)
           h == m.arg1
           listens == hconn = "up" /\ h # 0 /\ host[h].st \in {"opening", "open"}
       IN \/ /\ m.cmd = "CNXN" /\ hconn' = (IF hconn = "down" THEN "down" ELSE "up")
             /\ UNCHANGED <<host, toLoop>>
          \/ /\ m.cmd = "OKAY" /\ listens
             /\ host' = [host EXCEPT ![h].st = "open", ![h].waiting = FALSE, ![h].dev = m.arg0]
             /\ UNCHANGED <<hconn, toLoop>>
          \/ /\ m.cmd = "WRTE" /\ listens
             /\ host' = [host EXCEPT ![h].status = m.data]
             /\ ToDevice(Msg("OKAY", h, m.arg0, "")) /\ UNCHANGED hconn
          \/ /\ m.cmd = "CLSE" /\ listens
             /\ host' = [host EXCEPT ![h] = Forget(@, "closed")]
             /\ UNCHANGED <<hconn, toLoop>>
          \/ m.cmd # "CNXN" /\ ~listens /\ UNCHANGED <<host, hconn, toLoop>>
    /\ UNCHANGED <<svc, file, exited, nresets, overlap>>

-----------------------------------------------------------------------------
Loop == Select \/ Handle \/ HandleOpen \/ \E i \in Sock : Event(i)

HostGoesOn == HostReceive \/ \E h \in Streams : HostWrite(h)

HostActs ==
    \/ \E h \in Streams : HostOpen(h) \/ HostClose(h)
    \/ \E cmd \in {"CNXN", "OFFLINE"} : HostReset(cmd)

Next ==
    \/ Loop \/ HostGoesOn \/ HostActs
    \/ \E i \in Sock : Service(i)

Spec == Init /\ [][Next]_vars

\* The event loop and the services go on, and the host goes on with a stream it
\* has opened; it need not open, close or reconnect.
FairSpec ==
    /\ Spec /\ WF_vars(Loop) /\ WF_vars(HostGoesOn)
    /\ \A i \in Sock : WF_vars(Service(i))

-----------------------------------------------------------------------------
SentOn(h, n) == [k \in 1..n |-> <<h, k>>]

\* Bytes of stream h that are still on their way to the event loop
InFlight(h) == FoldSeq(LAMBDA m, n : n + (IF m.cmd = "WRTE" /\ m.arg0 = h THEN Len(m.data) ELSE 0),
                       0, toLoop)

\* local_socket_enqueue, local_socket_close_locked, readx: a service is given the
\* bytes of its stream in order, none twice; and as long as it listens none is
\* missing, even if the host has closed the stream or has gone.
StreamIntact ==
    \A i \in Sock : LET all == svc[i].got \o d.inb[i] \o d.pkts[i]
                         h == d.origin[i]
                     IN h # 0 => /\ all = SentOn(h, Len(all))
                                 /\ SvcOpen(i) => Len(all) = host[h].sent - InFlight(h)

Count(q, P(_)) == Len(SelectSeq(q, P))

\* Where what the host waits for can be: not yet handled, not yet written, or
\* acknowledged already
Owed(h) ==
    Count(toLoop, LAMBDA m : m.cmd \in {"OPEN", "WRTE"} /\ m.arg0 = h)
    + Cardinality({i \in Sock : d.peer[i] = h /\ d.pkts[i] # <<>>})
    + Count(d.toHost, LAMBDA m : m.cmd = "OKAY" /\ m.arg1 = h)

\* handle_packet, local_socket_event_func: every OPEN and every WRTE of a stream
\* is acknowledged exactly once, if the stream is not closed instead.
AckedOnce ==
    \A h \in Streams :
        (hconn = "up" /\ host[h].st \in {"opening", "open"}
         /\ Count(d.toHost, LAMBDA m : m.cmd = "CLSE" /\ m.arg1 = h) = 0)
        => Owed(h) = IF host[h].waiting THEN 1 ELSE 0

\* local_socket_close_locked, fdevent_remove: a socket has a peer as long as it is
\* on the open list, one that is closing has something to write and waits to, and
\* the event loop never comes back to one that was freed.
SocketsSound ==
    /\ TypeOK
    /\ \A i \in Sock :
        /\ d.st[i] = "open" <=> d.peer[i] # 0
        /\ d.st[i] = "closing" => d.pkts[i] # <<>> /\ "W" \in d.wants[i]
        /\ i \in ToSet(d.plist) => d.st[i] \in {"open", "closing"} /\ d.events[i] # {}

\* sideload_service, local_socket_event_func: when it reports success, and up to the
\* exit of the daemon, the file is the package, unless another sideload was going on;
\* and the host that waits for the answer gets it before the stream is closed.
SuccessMeansReceived ==
    \A i \in Sock :
        /\ (svc[i].pc \in {"close", "exit"} /\ svc[i].left = 0 /\ ~overlap)
               => file = SentOn(d.origin[i], Size[d.origin[i]])
        /\ (svc[i].pc = "exit" /\ host[d.origin[i]].st = "closed")
               => host[d.origin[i]].status = "OKAY"

\* A stream that was opened comes to an end, and with it the host's wait: it is
\* opened once, so after some point none is left open, or the daemon has exited.
StreamEnds == <>[](exited \/ \A h \in Streams : host[h].st \notin {"opening", "open"})
=============================================================================
