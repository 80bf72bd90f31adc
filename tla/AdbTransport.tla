---------------------------- MODULE AdbTransport ----------------------------
(***************************************************************************)
(* The connections of minadbd: transport.c, transport_usb.c and             *)
(* usb_linux_client.c, with what handle_packet of adb.c does to a           *)
(* connection.  Four kinds of thread take part: the thread that opens the   *)
(* USB device, the event loop, and for every connection (transport) an      *)
(* output thread (USB to loop) and an input thread (loop to USB).           *)
(*                                                                          *)
(* All transports share one usb_handle.  Each time the device is opened one *)
(* transport is registered, so a transport and the opening it belongs to    *)
(* have the same number.  The sockets of a transport are reduced to whether *)
(* there are any; AdbSockets has them, and OKAY and WRTE, in detail.        *)
(***************************************************************************)
EXTENDS Integers, Sequences

CONSTANTS
    MaxT,       \* bound: how often the device is opened
    MaxPkts,    \* bound: packets read from USB
    SockCap     \* packets the socket to the input thread has room for

ASSUME AdbAssumption == {MaxT, MaxPkts, SockCap} \subseteq Nat \ {0}

T == 1..MaxT
Threads == {"out", "in"}

VARIABLES
    usb,        \* fd (or control) of usb_handle: the opening it is from, 0 for -1
    opened,     \* openings so far
    opener,     \* usb_adb_open_thread, usb_ffs_open_thread
    regq,       \* the transport registration socket
    st,         \* [T -> ...]: where the atransport is in its life
    conn,       \* [T -> ...]: connection_state
    refs,       \* [T -> Nat]: ref_count
    kicked,     \* [T -> BOOLEAN]
    toLoop,     \* [T -> Seq]: t->fd to transport_socket
    toIn,       \* [T -> Seq]: transport_socket to t->fd
    active,     \* [T -> BOOLEAN]: of input_thread
    pc,         \* [T \X Threads -> ...]
    socks,      \* [T -> BOOLEAN]: there are sockets with a remote on t
    npkts,      \* packets read from USB so far
    died        \* fatal_errno

device == <<usb, opened, opener>>
pumps == <<refs, kicked, active, pc>>
queues == <<toLoop, toIn>>
vars == <<device, regq, st, conn, pumps, queues, socks, npkts, died>>

Remote == {"CNXN", "OPEN", "CLSE"}      \* from the host
Packets == Remote \cup {"ONLINE", "OFFLINE", "OKAY"}    \* SYNC(1, token), SYNC(0, 0)
PCs == {"none", "sync", "read", "write", "eof", "closeall", "kick", "lock",
        "close", "unref", "gone"}

\* The type invariant.
TypeOK ==
    /\ usb \in 0..MaxT /\ opened \in 0..MaxT /\ opener \in {"waiting", "register"}
    /\ regq \in Seq([t : T, add : BOOLEAN])
    /\ st \in [T -> {"none", "queued", "live", "leaving", "freed"}]
    /\ conn \in [T -> {"offline", "online"}]
    /\ refs \in [T -> 0..2] /\ kicked \in [T -> BOOLEAN]
    /\ toLoop \in [T -> Seq(Packets)] /\ toIn \in [T -> Seq(Packets)]
    /\ active \in [T -> BOOLEAN] /\ pc \in [T \X Threads -> PCs]
    /\ socks \in [T -> BOOLEAN] /\ npkts \in 0..MaxPkts /\ died \in BOOLEAN

Init ==
    /\ usb = 0 /\ opened = 0 /\ opener = "waiting" /\ regq = <<>>
    /\ st = [t \in T |-> "none"] /\ conn = [t \in T |-> "offline"]
    /\ refs = [t \in T |-> 0] /\ kicked = [t \in T |-> FALSE]
    /\ toLoop = [t \in T |-> <<>>] /\ toIn = [t \in T |-> <<>>]
    /\ active = [t \in T |-> FALSE] /\ pc = [x \in T \X Threads |-> "none"]
    /\ socks = [t \in T |-> FALSE] /\ npkts = 0 /\ died = FALSE

-----------------------------------------------------------------------------
(* The thread that opens the device. *)

\* It waits for fd (control) to be -1 and tries until the opening succeeds; a
\* failed opening leaves fd, control and the endpoints at -1.
OpenDevice ==
    /\ opener = "waiting" /\ usb = 0 /\ opened < MaxT
    /\ opened' = opened + 1 /\ usb' = opened' /\ opener' = "register"
    /\ UNCHANGED <<regq, st, conn, pumps, queues, socks, npkts, died>>

\* register_transport, remove_transport: a message for the event loop.
RegisterTransport(t) ==
    /\ st' = [st EXCEPT ![t] = "queued"]
    /\ regq' = Append(regq, [t |-> t, add |-> TRUE])

RemoveTransport(t) ==
    /\ st' = [st EXCEPT ![t] = "leaving"]
    /\ regq' = Append(regq, [t |-> t, add |-> FALSE])

\* register_usb_transport: a new transport, CS_OFFLINE, for the same handle.
RegisterUsb ==
    /\ opener = "register" /\ opener' = "waiting"
    /\ RegisterTransport(opened)
    /\ UNCHANGED <<usb, opened, conn, pumps, queues, socks, npkts, died>>

-----------------------------------------------------------------------------
(* The event loop: transport_registration_func. *)

\* run_transport_disconnects: every socket with a remote on t is closed.
RunDisconnects(t) == socks' = [socks EXCEPT ![t] = FALSE]

\* Two references, for the two threads it starts.
RegistrationAdd ==
    /\ regq # <<>> /\ Head(regq).add /\ regq' = Tail(regq)
    /\ LET t == Head(regq).t IN
       /\ st' = [st EXCEPT ![t] = "live"]
       /\ refs' = [refs EXCEPT ![t] = 2]
       /\ pc' = [pc EXCEPT ![<<t, "out">>] = "sync", ![<<t, "in">>] = "read"]
    /\ UNCHANGED <<device, conn, kicked, active, queues, socks, npkts, died>>

\* Both ends of the socket pair are closed, with what is in them; the sockets
\* that are left are closed by way of run_transport_disconnects.
RegistrationRemove ==
    /\ regq # <<>> /\ ~Head(regq).add /\ regq' = Tail(regq)
    /\ LET t == Head(regq).t IN
       st' = [st EXCEPT ![t] = "freed"] /\ RunDisconnects(t)
    /\ UNCHANGED <<device, conn, pumps, queues, npkts, died>>

(* The event loop: transport_socket_events and handle_packet. *)

\* write_packet, read_packet: what is passed over a socket pair is a pointer.
WritePacket(q, t, p) == [q EXCEPT ![t] = Append(@, p)]
ReadPacket(q, t) == [q EXCEPT ![t] = Tail(@)]

\* send_packet writes to a socket that does not block: without room it is fatal.
SendPacket(t, p) ==
    IF Len(toIn[t]) < SockCap
      THEN toIn' = WritePacket(toIn, t, p) /\ UNCHANGED died
      ELSE died' = TRUE /\ UNCHANGED toIn

\* transport_socket_events
Receive(t, p) ==
    /\ st[t] \in {"live", "leaving"} /\ toLoop[t] # <<>> /\ Head(toLoop[t]) = p
    /\ toLoop' = ReadPacket(toLoop, t)
    /\ UNCHANGED <<device, regq, st, pumps, npkts>>

HandleOnline(t) ==
    /\ Receive(t, "ONLINE") /\ SendPacket(t, "ONLINE")
    /\ UNCHANGED <<conn, socks>>

\* Mistake: the sockets are left for the input thread to close.
HandleOffline_NoDisconnects(t) ==
    /\ Receive(t, "OFFLINE") /\ SendPacket(t, "OFFLINE")
    /\ conn' = [conn EXCEPT ![t] = "offline"]
    /\ UNCHANGED socks

\* handle_offline: the disconnects are run.
HandleOffline(t) ==
    /\ Receive(t, "OFFLINE") /\ SendPacket(t, "OFFLINE")
    /\ conn' = [conn EXCEPT ![t] = "offline"]
    /\ RunDisconnects(t)

\* parse_banner knows no banner that would leave the state offline.
ParseBanner(t) == conn' = [conn EXCEPT ![t] = "online"]

SendConnect(t) == SendPacket(t, "CNXN")

\* CNXN: what was open on an earlier connection of the host is closed first.
HandleConnect(t) ==
    /\ Receive(t, "CNXN") /\ ParseBanner(t) /\ SendConnect(t)
    /\ IF conn[t] = "offline" THEN UNCHANGED socks ELSE RunDisconnects(t)

\* OPEN of a service, answered OKAY, or of something else, answered CLSE.
HandleOpen(t) ==
    /\ Receive(t, "OPEN") /\ UNCHANGED conn
    /\ \/ /\ conn[t] = "offline" /\ UNCHANGED <<toIn, died, socks>>
       \/ /\ conn[t] = "online" /\ SendPacket(t, "OKAY")
          /\ socks' = [socks EXCEPT ![t] = TRUE]
       \/ /\ conn[t] = "online" /\ SendPacket(t, "CLSE") /\ UNCHANGED socks

\* CLSE for a socket there is (answered CLSE by its remote) or not.
HandleClose(t) ==
    /\ Receive(t, "CLSE") /\ UNCHANGED conn
    /\ \/ /\ conn[t] = "online" /\ socks[t] /\ SendPacket(t, "CLSE")
          /\ socks' = [socks EXCEPT ![t] = FALSE]
       \/ UNCHANGED <<toIn, died, socks>>

\* A service is done: the event loop closes its socket and tells the host.
ServiceCloses(t) ==
    /\ socks[t] /\ SendPacket(t, "CLSE")
    /\ socks' = [socks EXCEPT ![t] = FALSE]
    /\ UNCHANGED <<device, regq, st, conn, pumps, toLoop, npkts>>

-----------------------------------------------------------------------------
(* output_thread *)

Goto(t, th, to) == pc' = [pc EXCEPT ![<<t, th>>] = to]

\* SYNC(1, token).  Only one token is ever issued for a transport.
OutSync(t) ==
    /\ pc[t, "out"] = "sync" /\ Goto(t, "out", "read")
    /\ toLoop' = WritePacket(toLoop, t, "ONLINE")
    /\ UNCHANGED <<device, regq, st, conn, refs, kicked, active, toIn, socks, npkts, died>>

\* usb_adb_read, usb_ffs_read: from whatever opening the handle is of now.
UsbRead == usb # 0 /\ npkts < MaxPkts /\ npkts' = npkts + 1

OutPacket(t, p) ==
    /\ pc[t, "out"] = "read" /\ UsbRead
    /\ toLoop' = WritePacket(toLoop, t, p)
    /\ UNCHANGED <<device, regq, st, conn, pumps, toIn, socks, died>>

\* remote_read fails: the host is gone, or header or data failed their check.
OutFail(t) ==
    /\ pc[t, "out"] = "read" /\ Goto(t, "out", "eof")
    /\ UNCHANGED <<device, regq, st, conn, refs, kicked, active, queues, socks, npkts, died>>

\* Mistake: the thread leaves without telling anyone.
OutEof_NoSync(t) ==
    /\ pc[t, "out"] = "eof" /\ Goto(t, "out", "kick")
    /\ UNCHANGED <<device, regq, st, conn, refs, kicked, active, queues, socks, npkts, died>>

\* SYNC(0, 0).  Writing to t->fd cannot fail: its other end is closed only
\* after both threads are gone.
OutEof(t) ==
    /\ pc[t, "out"] = "eof" /\ Goto(t, "out", "kick")
    /\ toLoop' = WritePacket(toLoop, t, "OFFLINE")
    /\ UNCHANGED <<device, regq, st, conn, refs, kicked, active, toIn, socks, npkts, died>>

(* input_thread *)

InRead(t) ==
    /\ pc[t, "in"] = "read" /\ toIn[t] # <<>>
    /\ toIn' = ReadPacket(toIn, t)
    /\ LET p == Head(toIn[t]) IN
       /\ active' = [active EXCEPT ![t] = @ \/ p = "ONLINE"]
       /\ Goto(t, "in", CASE p = "OFFLINE" -> "closeall"
                          [] p # "OFFLINE" /\ p # "ONLINE" /\ active[t] -> "write"
                          [] OTHER -> "read")
    /\ UNCHANGED <<device, regq, st, conn, refs, kicked, toLoop, socks, npkts, died>>

\* write_to_remote, its result ignored.
InWrite(t) ==
    /\ pc[t, "in"] = "write" /\ Goto(t, "in", "read")
    /\ UNCHANGED <<device, regq, st, conn, refs, kicked, active, queues, socks, npkts, died>>

\* close_all_sockets, in this thread.  A remote that is closed sends CLSE.
CloseAllSockets(t) ==
    /\ pc[t, "in"] = "closeall" /\ Goto(t, "in", "kick")
    /\ IF socks[t] THEN SendPacket(t, "CLSE") ELSE UNCHANGED <<toIn, died>>
    /\ socks' = [socks EXCEPT ![t] = FALSE]
    /\ UNCHANGED <<device, regq, st, conn, refs, kicked, active, toLoop, npkts>>

-----------------------------------------------------------------------------
(* The end of either thread: kick_transport and transport_unref. *)

\* The first look at kicked, without transport_lock.
Kick(t, th) ==
    /\ pc[t, th] = "kick" /\ Goto(t, th, IF kicked[t] THEN "unref" ELSE "lock")
    /\ UNCHANGED <<device, regq, st, conn, refs, kicked, active, queues, socks, npkts, died>>

\* Mistake: kicked is not looked at again under the lock.
KickLocked_NoRecheck(t, th) ==
    /\ pc[t, th] = "lock" /\ Goto(t, th, "close")
    /\ kicked' = [kicked EXCEPT ![t] = TRUE]
    /\ UNCHANGED <<device, regq, st, conn, refs, active, queues, socks, npkts, died>>

\* The second look, with it.
KickLocked(t, th) ==
    /\ pc[t, th] = "lock" /\ Goto(t, th, IF kicked[t] THEN "unref" ELSE "close")
    /\ kicked' = [kicked EXCEPT ![t] = TRUE]
    /\ UNCHANGED <<device, regq, st, conn, refs, active, queues, socks, npkts, died>>

\* usb_adb_kick, usb_ffs_kick: close what the handle has, wake the opener.
UsbKick == usb' = 0

KickDevice(t, th) ==
    /\ pc[t, th] = "close" /\ Goto(t, th, "unref")
    /\ UsbKick
    /\ UNCHANGED <<opened, opener, regq, st, conn, refs, kicked, active, queues, socks, npkts, died>>

\* Mistake: the transport is removed by the first thread that ends.
Unref_First(t, th) ==
    /\ pc[t, th] = "unref" /\ Goto(t, th, "gone")
    /\ refs' = [refs EXCEPT ![t] = @ - 1]
    /\ RemoveTransport(t)
    /\ UNCHANGED <<device, conn, kicked, active, queues, socks, npkts, died>>

\* The last reference also kicks a transport nobody has kicked yet.
Unref(t, th) ==
    /\ pc[t, th] = "unref" /\ Goto(t, th, "gone")
    /\ refs' = [refs EXCEPT ![t] = @ - 1]
    /\ IF refs[t] = 1
         THEN /\ RemoveTransport(t)
              /\ kicked' = [kicked EXCEPT ![t] = TRUE]
              /\ IF kicked[t] THEN UNCHANGED usb ELSE UsbKick
         ELSE UNCHANGED <<st, regq, kicked, usb>>
    /\ UNCHANGED <<opened, opener, conn, active, queues, socks, npkts, died>>

-----------------------------------------------------------------------------
Opener == OpenDevice \/ RegisterUsb

Registration == RegistrationAdd \/ RegistrationRemove

Handle(t) ==
    \/ HandleOnline(t) \/ HandleOffline(t) \/ HandleConnect(t)
    \/ HandleOpen(t) \/ HandleClose(t)

Ending(t, th) == Kick(t, th) \/ KickLocked(t, th) \/ KickDevice(t, th) \/ Unref(t, th)

Output(t) == OutSync(t) \/ OutEof(t) \/ Ending(t, "out")

Input(t) == InRead(t) \/ InWrite(t) \/ CloseAllSockets(t) \/ Ending(t, "in")

FromHost(t) == OutFail(t) \/ \E p \in Remote : OutPacket(t, p)

Next ==
    /\ ~died
    /\ \/ Opener \/ Registration
       \/ \E t \in T : Handle(t) \/ ServiceCloses(t) \/ Output(t) \/ Input(t) \/ FromHost(t)

Spec == Init /\ [][Next]_vars

\* Every thread that can go on does, and the event loop serves every socket
\* that select reports.  Nothing obliges the host to send or to leave.
FairSpec ==
    /\ Spec
    /\ WF_vars(~died /\ Opener) /\ WF_vars(~died /\ Registration)
    /\ \A t \in T : /\ WF_vars(~died /\ Handle(t)) /\ WF_vars(~died /\ Output(t))
                    /\ WF_vars(~died /\ Input(t))

-----------------------------------------------------------------------------
Running(t) == {th \in Threads : pc[t, th] \notin {"none", "gone"}}

\* transport_unref, kick_transport, output_thread: a thread that is about to close the
\* device, and an output thread that has not given up reading it, has the opening of
\* its own transport before it, never that of a later one.
OwnDevice ==
    \A t \in T : /\ \A th \in Threads : pc[t, th] = "close" => usb = t
                 /\ pc[t, "out"] = "read" => usb = t

\* transport_registration_func: a transport is freed once, after both threads
\* have let it go, nothing refers to it any more and the socket pair that is closed
\* with it holds no packet.
FreedUnused ==
    /\ TypeOK
    /\ \A t \in T : st[t] \in {"leaving", "freed"} =>
        /\ Running(t) = {} /\ refs[t] = 0
        /\ st[t] = "leaving" => toLoop[t] = <<>> /\ toIn[t] = <<>>
        /\ st[t] = "freed" => \A i \in DOMAIN regq : regq[i].t # t

\* input_thread: when it comes to close_all_sockets the event loop has closed
\* them all, so no two threads ever work on a socket.
NoSocketLeft == \A t \in T : pc[t, "in"] \in {"closeall", "kick", "lock", "close", "unref", "gone"}
                                => ~socks[t]

\* kick_transport, transport_unref: a connection that ends is freed, and the
\* device is opened again.
Reconnects ==
    \A t \in T : pc[t, "out"] = "eof" ~>
        died \/ (st[t] = "freed" /\ (t < MaxT => st[t + 1] \in {"live", "leaving", "freed"}))
=============================================================================
