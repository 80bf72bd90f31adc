------------------------ MODULE AdbTransport_proofs -------------------------
(***************************************************************************)
(* Proofs about AdbTransport, for every number of openings and of packets    *)
(* and every room in the sockets: how the four kinds of thread share the     *)
(* device, the transports and their sockets, in every order of their steps   *)
(* and whenever the host comes and goes.                                     *)
(***************************************************************************)
EXTENDS AdbTransport, SequenceTheorems, TLAPS

\* TypeOK in three parts.  That a count of references is in 0..2 takes the invariant.
CountsOK ==
    /\ usb \in 0..MaxT /\ opened \in 0..MaxT /\ npkts \in 0..MaxPkts
    /\ opener \in {"waiting", "register"}
    /\ opener = "register" => opened # 0
FlagsOK ==
    /\ kicked \in [T -> BOOLEAN] /\ active \in [T -> BOOLEAN] /\ socks \in [T -> BOOLEAN]
    /\ died \in BOOLEAN
QueuesOK ==
    /\ regq \in Seq([t : T, add : BOOLEAN])
    /\ toLoop \in [T -> Seq(Packets)] /\ toIn \in [T -> Seq(Packets)]
PlacesOK ==
    /\ st \in [T -> {"none", "queued", "live", "leaving", "freed"}]
    /\ conn \in [T -> {"offline", "online"}]
    /\ pc \in [T \X Threads -> PCs]
    /\ refs \in [T -> Int]

Types == CountsOK /\ FlagsOK /\ QueuesOK /\ PlacesOK

LEMMA Bounds ==
    /\ MaxT \in Nat /\ MaxPkts \in Nat /\ SockCap \in Nat
    /\ MaxT > 0 /\ MaxPkts > 0 /\ SockCap > 0
BY AdbAssumption

-----------------------------------------------------------------------------
(* Types. *)
LEMMA CountsStep == CountsOK /\ [Next]_vars => CountsOK'
<1> SUFFICES ASSUME CountsOK, [Next]_vars PROVE CountsOK'
  OBVIOUS
<1> USE Bounds DEF CountsOK, device, pumps, queues
<1>1. CASE OpenDevice
  BY <1>1 DEF OpenDevice
<1>2. CASE RegisterUsb
  BY <1>2 DEF RegisterUsb
<1>3. CASE RegistrationAdd
  BY <1>3 DEF RegistrationAdd
<1>4. CASE RegistrationRemove
  BY <1>4 DEF RegistrationRemove
<1>5. ASSUME NEW t \in T, Handle(t) PROVE CountsOK'
  BY <1>5 DEF Handle, HandleOnline, HandleOffline, HandleConnect, HandleOpen,
              HandleClose, Receive
<1>6. ASSUME NEW t \in T, ServiceCloses(t) PROVE CountsOK'
  BY <1>6 DEF ServiceCloses
<1>7. ASSUME NEW t \in T, OutSync(t) \/ OutEof(t) \/ OutFail(t) PROVE CountsOK'
  BY <1>7, Zenon DEF OutSync, OutEof, OutFail
<1>8. ASSUME NEW t \in T, NEW p \in Remote, OutPacket(t, p) PROVE CountsOK'
  <2>1. npkts < MaxPkts /\ npkts' = npkts + 1 /\ UNCHANGED <<usb, opened, opener>>
    BY <1>8, Zenon DEF OutPacket, UsbRead
  <2> QED BY <2>1
<1>9. ASSUME NEW t \in T, InRead(t) \/ InWrite(t) \/ CloseAllSockets(t) PROVE CountsOK'
  BY <1>9, Zenon DEF InRead, InWrite, CloseAllSockets
<1>10. ASSUME NEW t \in T, NEW th \in Threads, Ending(t, th) PROVE CountsOK'
  <2>1. CASE Kick(t, th) \/ KickLocked(t, th)
    BY <2>1, Zenon DEF Kick, KickLocked
  <2>2. CASE KickDevice(t, th)
    <3>1. usb' = 0 /\ UNCHANGED <<opened, opener, npkts>>
      BY <2>2, Zenon DEF KickDevice, UsbKick
    <3> QED BY <3>1
  <2>3. CASE Unref(t, th)
    <3>1. usb' \in {usb, 0} /\ UNCHANGED <<opened, opener, npkts>>
      BY <2>3, Zenon DEF Unref, UsbKick
    <3> QED BY <3>1
  <2> QED BY <1>10, <2>1, <2>2, <2>3 DEF Ending
<1>11. CASE UNCHANGED vars
  BY <1>11 DEF vars
<1> QED BY <1>1, <1>2, <1>3, <1>4, <1>5, <1>6, <1>7, <1>8, <1>9, <1>10, <1>11
        DEF Next, Opener, Registration, Output, Input, FromHost, Threads

LEMMA FlagsStep == FlagsOK /\ [Next]_vars => FlagsOK'
<1> SUFFICES ASSUME FlagsOK, [Next]_vars PROVE FlagsOK'
  OBVIOUS
<1> USE DEF FlagsOK, device, pumps, queues
<1>1. CASE Opener
  BY <1>1 DEF Opener, OpenDevice, RegisterUsb
<1>2. CASE Registration
  BY <1>2, Zenon DEF Registration, RegistrationAdd, RegistrationRemove, RunDisconnects
<1>3. ASSUME NEW t \in T, Handle(t) PROVE FlagsOK'
  BY <1>3, Zenon DEF Handle, HandleOnline, HandleOffline, HandleConnect, HandleOpen,
              HandleClose, Receive, SendConnect, SendPacket, RunDisconnects
<1>4. ASSUME NEW t \in T, ServiceCloses(t) PROVE FlagsOK'
  BY <1>4, Zenon DEF ServiceCloses, SendPacket
<1>5. ASSUME NEW t \in T, OutSync(t) \/ OutEof(t) \/ FromHost(t) PROVE FlagsOK'
  BY <1>5, Zenon DEF OutSync, OutEof, FromHost, OutFail, OutPacket
<1>6. ASSUME NEW t \in T, InRead(t) PROVE FlagsOK'
  BY <1>6, Zenon DEF InRead
<1>7. ASSUME NEW t \in T, InWrite(t) PROVE FlagsOK'
  BY <1>7, Zenon DEF InWrite
<1>8. ASSUME NEW t \in T, CloseAllSockets(t) PROVE FlagsOK'
  BY <1>8, Zenon DEF CloseAllSockets, SendPacket
<1>9. ASSUME NEW t \in T, NEW th \in Threads, Ending(t, th) PROVE FlagsOK'
  BY <1>9, Zenon DEF Ending, Kick, KickLocked, KickDevice, Unref
<1>10. CASE UNCHANGED vars
  BY <1>10 DEF vars
<1> QED BY <1>1, <1>2, <1>3, <1>4, <1>5, <1>6, <1>7, <1>8, <1>9, <1>10
        DEF Next, Output, Input, Threads

\* What the event loop takes from its registration socket.
LEMMA HeadOfRegq ==
    ASSUME QueuesOK, regq # <<>>
    PROVE  /\ Head(regq).t \in T /\ Head(regq).add \in BOOLEAN
           /\ Head(regq) = regq[1] /\ Len(regq) \in Nat \ {0}
           /\ Tail(regq) \in Seq([t : T, add : BOOLEAN])
           /\ Len(Tail(regq)) = Len(regq) - 1
           /\ \A i \in 1..Len(Tail(regq)) : Tail(regq)[i] = regq[i + 1]
<1> DEFINE M == [t : T, add : BOOLEAN]
<1>1. regq \in Seq(M)
  BY DEF QueuesOK
<1>2. Head(regq) \in M /\ Tail(regq) \in Seq(M)
  BY <1>1, HeadTailProperties, Zenon
<1>3. Head(regq).t \in T /\ Head(regq).add \in BOOLEAN
  BY <1>2
<1> HIDE DEF M
<1>4. /\ Head(regq) = regq[1] /\ Len(regq) \in Nat \ {0}
      /\ Len(Tail(regq)) = Len(regq) - 1
      /\ \A i \in 1..Len(Tail(regq)) : Tail(regq)[i] = regq[i + 1]
  BY <1>1, HeadTailProperties, LenProperties, EmptySeq
<1> QED BY <1>2, <1>3, <1>4 DEF M

\* A packet read from a queue of packets, or written to it.
LEMMA PacketMoves ==
    ASSUME NEW q \in [T -> Seq(Packets)], NEW t \in T
    PROVE  /\ \A p \in Packets : WritePacket(q, t, p) \in [T -> Seq(Packets)]
           /\ q[t] # <<>> => /\ ReadPacket(q, t) \in [T -> Seq(Packets)]
                             /\ Head(q[t]) \in Packets
<1>1. q[t] \in Seq(Packets)
  OBVIOUS
<1>2. \A p \in Packets : Append(q[t], p) \in Seq(Packets)
  BY <1>1, AppendProperties
<1>3. q[t] # <<>> => Tail(q[t]) \in Seq(Packets) /\ Head(q[t]) \in Packets
  BY <1>1, HeadTailProperties
<1> QED BY <1>2, <1>3 DEF WritePacket, ReadPacket

LEMMA PacketSent ==
    ASSUME QueuesOK, NEW t \in T, NEW p \in Packets, SendPacket(t, p)
    PROVE  toIn' \in [T -> Seq(Packets)]
<1>1. toIn \in [T -> Seq(Packets)]
  BY DEF QueuesOK
<1>2. WritePacket(toIn, t, p) \in [T -> Seq(Packets)]
  BY <1>1, PacketMoves
<1> QED BY <1>1, <1>2 DEF SendPacket

\* What register_transport and remove_transport send.
LEMMA EndOfRegq ==
    ASSUME QueuesOK, NEW t \in T, NEW add \in BOOLEAN
    PROVE  LET q == Append(regq, [t |-> t, add |-> add]) IN
           /\ q \in Seq([t : T, add : BOOLEAN])
           /\ Len(regq) \in Nat /\ Len(q) = Len(regq) + 1
           /\ \A i \in 1..Len(regq) : q[i] = regq[i]
           /\ q[Len(regq) + 1] = [t |-> t, add |-> add]
<1> DEFINE M == [t : T, add : BOOLEAN]  m == [t |-> t, add |-> add]
<1>1. regq \in Seq(M) /\ m \in M
  BY DEF QueuesOK
<1> HIDE DEF M, m
<1>2. /\ Append(regq, m) \in Seq(M)
      /\ Len(regq) \in Nat /\ Len(Append(regq, m)) = Len(regq) + 1
      /\ \A i \in 1..Len(regq) : Append(regq, m)[i] = regq[i]
      /\ Append(regq, m)[Len(regq) + 1] = m
  BY <1>1, AppendProperties, LenProperties
<1> QED BY <1>2 DEF M, m

LEMMA OpenedIsTransport == CountsOK /\ opener = "register" => opened \in T
BY Bounds DEF CountsOK, T

LEMMA QueuesStep == QueuesOK /\ CountsOK /\ [Next]_vars => QueuesOK'
<1> SUFFICES ASSUME QueuesOK, CountsOK, [Next]_vars PROVE QueuesOK'
  OBVIOUS
<1> USE DEF device, pumps, queues
<1> DEFINE Kept(q) == q \in [T -> Seq(Packets)]
<1>0. Kept(toLoop) /\ Kept(toIn) /\ regq \in Seq([t : T, add : BOOLEAN])
  BY DEF QueuesOK
<1>1. CASE OpenDevice
  BY <1>1 DEF OpenDevice, QueuesOK
<1>2. CASE RegisterUsb
  <2>1. regq' \in Seq([t : T, add : BOOLEAN])
    BY <1>2, EndOfRegq, OpenedIsTransport, Zenon DEF RegisterUsb, RegisterTransport
  <2> QED BY <1>0, <1>2, <2>1 DEF RegisterUsb, QueuesOK
<1>3. CASE Registration
  <2>1. regq # <<>> /\ regq' = Tail(regq) /\ UNCHANGED <<toLoop, toIn>>
    BY <1>3 DEF Registration, RegistrationAdd, RegistrationRemove
  <2> QED BY <1>0, <2>1, HeadOfRegq DEF QueuesOK
<1>4. ASSUME NEW t \in T, Handle(t) PROVE QueuesOK'
  <2>1. /\ toLoop[t] # <<>> /\ toLoop' = ReadPacket(toLoop, t) /\ regq' = regq
        /\ (\E p \in Packets : SendPacket(t, p)) \/ toIn' = toIn
    BY <1>4 DEF Handle, HandleOnline, HandleOffline, HandleConnect, HandleOpen,
                HandleClose, Receive, SendConnect, Packets, Remote
  <2>2. Kept(toLoop') /\ Kept(toIn')
    BY <1>0, <2>1, PacketMoves, PacketSent, Zenon
  <2> QED BY <1>0, <2>1, <2>2 DEF QueuesOK
<1>5. ASSUME NEW t \in T, ServiceCloses(t) \/ CloseAllSockets(t) PROVE QueuesOK'
  <2>1. /\ SendPacket(t, "CLSE") \/ toIn' = toIn
        /\ UNCHANGED <<toLoop, regq>>
    BY <1>5, Zenon DEF ServiceCloses, CloseAllSockets
  <2>2. Kept(toIn')
    BY <1>0, <2>1, PacketSent DEF Packets, Remote
  <2> QED BY <1>0, <2>1, <2>2 DEF QueuesOK
<1>6. ASSUME NEW t \in T, OutSync(t) \/ OutEof(t) PROVE QueuesOK'
  <2>1. /\ \E p \in Packets : toLoop' = WritePacket(toLoop, t, p)
        /\ UNCHANGED <<toIn, regq>>
    BY <1>6, Zenon DEF OutSync, OutEof, Packets
  <2>2. \A p \in Packets : Kept(WritePacket(toLoop, t, p))
    BY <1>0, PacketMoves, Zenon
  <2> QED BY <1>0, <2>1, <2>2 DEF QueuesOK
<1>7. ASSUME NEW t \in T, FromHost(t) PROVE QueuesOK'
  <2>1. /\ (\E p \in Packets : toLoop' = WritePacket(toLoop, t, p)) \/ toLoop' = toLoop
        /\ UNCHANGED <<toIn, regq>>
    BY <1>7, Zenon DEF FromHost, OutFail, OutPacket, Packets
  <2>2. \A p \in Packets : Kept(WritePacket(toLoop, t, p))
    BY <1>0, PacketMoves, Zenon
  <2> QED BY <1>0, <2>1, <2>2 DEF QueuesOK
<1>8. ASSUME NEW t \in T, InRead(t) PROVE QueuesOK'
  <2>1. toIn[t] # <<>> /\ toIn' = ReadPacket(toIn, t) /\ UNCHANGED <<toLoop, regq>>
    BY <1>8, Zenon DEF InRead
  <2> QED BY <1>0, <2>1, PacketMoves, Zenon DEF QueuesOK
<1>9. ASSUME NEW t \in T, InWrite(t) PROVE QueuesOK'
  BY <1>9, Zenon DEF InWrite, QueuesOK
<1>10. ASSUME NEW t \in T, NEW th \in Threads, Ending(t, th) PROVE QueuesOK'
  <2>1. /\ regq' = regq \/ regq' = Append(regq, [t |-> t, add |-> FALSE])
        /\ UNCHANGED <<toLoop, toIn>>
    BY <1>10, Zenon DEF Ending, Kick, KickLocked, KickDevice, Unref, RemoveTransport
  <2> QED BY <1>0, <2>1, EndOfRegq, Zenon DEF QueuesOK
<1>11. CASE UNCHANGED vars
  BY <1>11 DEF vars, QueuesOK
<1> QED BY <1>1, <1>2, <1>3, <1>4, <1>5, <1>6, <1>7, <1>8, <1>9, <1>10, <1>11
        DEF Next, Opener, Output, Input, Threads

LEMMA PlacesStep == PlacesOK /\ QueuesOK /\ [Next]_vars => PlacesOK'
<1> SUFFICES ASSUME PlacesOK, QueuesOK, [Next]_vars PROVE PlacesOK'
  OBVIOUS
<1> USE DEF PlacesOK, device, pumps, queues
<1>1. CASE Opener
  BY <1>1, Zenon DEF Opener, OpenDevice, RegisterUsb, RegisterTransport
<1>2. CASE RegistrationAdd
  <2>1. Head(regq).t \in T
    BY <1>2, HeadOfRegq DEF RegistrationAdd
  <2>2. pc' \in [T \X Threads -> PCs]
    BY <1>2, Zenon DEF RegistrationAdd, PCs
  <2>3. \E t \in T : refs' = [refs EXCEPT ![t] = 2]
    BY <1>2, <2>1, Zenon DEF RegistrationAdd
  <2>4. refs' \in [T -> Int]
    BY <2>3
  <2>5. st' \in [T -> {"none", "queued", "live", "leaving", "freed"}] /\ conn' = conn
    BY <1>2, Zenon DEF RegistrationAdd
  <2> QED BY <2>2, <2>4, <2>5
<1>3. CASE RegistrationRemove
  BY <1>3, Zenon DEF RegistrationRemove
<1>4. ASSUME NEW t \in T, Handle(t) PROVE PlacesOK'
  BY <1>4 DEF Handle, HandleOnline, HandleOffline, HandleConnect, HandleOpen,
              HandleClose, Receive, ParseBanner
<1>5. ASSUME NEW t \in T, ServiceCloses(t) PROVE PlacesOK'
  BY <1>5 DEF ServiceCloses
<1>6. ASSUME NEW t \in T, OutSync(t) \/ OutEof(t) \/ FromHost(t) PROVE PlacesOK'
  BY <1>6, Zenon DEF OutSync, OutEof, FromHost, OutFail, OutPacket, Goto, PCs
<1>7. ASSUME NEW t \in T, InRead(t) PROVE PlacesOK'
  <2>1. \E to \in PCs : Goto(t, "in", to)
    BY <1>7, Zenon DEF InRead, PCs
  <2> QED BY <1>7, <2>1, Zenon DEF InRead, Goto
<1>8. ASSUME NEW t \in T, InWrite(t) \/ CloseAllSockets(t) PROVE PlacesOK'
  BY <1>8, Zenon DEF InWrite, CloseAllSockets, Goto, PCs
<1>9. ASSUME NEW t \in T, NEW th \in Threads, Ending(t, th) PROVE PlacesOK'
  <2>1. CASE Kick(t, th) \/ KickLocked(t, th) \/ KickDevice(t, th)
    BY <2>1, Zenon DEF Kick, KickLocked, KickDevice, Goto, PCs
  <2>2. CASE Unref(t, th)
    <3>1. pc' \in [T \X Threads -> PCs]
      BY <2>2, Zenon DEF Unref, Goto, PCs
    <3>2. st' \in [T -> {"none", "queued", "live", "leaving", "freed"}]
      BY <2>2, Zenon DEF Unref, RemoveTransport
    <3>3. refs' \in [T -> Int]
      <4>1. refs' = [refs EXCEPT ![t] = refs[t] - 1]
        BY <2>2, Zenon DEF Unref
      <4> QED BY <4>1
    <3> QED BY <2>2, <3>1, <3>2, <3>3, Zenon DEF Unref
  <2> QED BY <1>9, <2>1, <2>2 DEF Ending
<1>10. CASE UNCHANGED vars
  BY <1>10 DEF vars
<1> QED BY <1>1, <1>2, <1>3, <1>4, <1>5, <1>6, <1>7, <1>8, <1>9, <1>10
        DEF Next, Registration, Output, Input, Threads

-----------------------------------------------------------------------------
(* The inductive invariant. *)
\* The output thread has given up the device; the input thread has read the notice
\* of it, SYNC(0, 0).
Past == {"kick", "lock", "close", "unref", "gone"}
InPast == {"closeall"} \cup Past

\* Where the notice may be in a queue.
NoOffline(q) == \A i \in 1..Len(q) : q[i] # "OFFLINE"
LastOnly(q) == \A i \in 1..Len(q) : q[i] = "OFFLINE" => i = Len(q)

\* A thread that runs holds a reference.
Holds(t, th) == pc[t, th] \notin {"none", "gone"}

\* The life of a transport: untouched before its threads run, referred to as long as
\* one runs, left by both in the end; a thread past its kick finds it kicked.
Life(t) ==
    /\ st[t] \in {"none", "queued"} =>
          /\ pc[t, "out"] = "none" /\ pc[t, "in"] = "none"
          /\ ~kicked[t] /\ ~socks[t] /\ toLoop[t] = <<>> /\ toIn[t] = <<>>
    /\ st[t] = "live" => /\ pc[t, "out"] # "none" /\ pc[t, "in"] # "none"
                         /\ pc[t, "out"] # "gone" \/ pc[t, "in"] # "gone"
    /\ st[t] \in {"leaving", "freed"} => pc[t, "out"] = "gone" /\ pc[t, "in"] = "gone"
    /\ Holds(t, "out") /\ Holds(t, "in") => refs[t] = 2
    /\ Holds(t, "out") /\ ~Holds(t, "in") => refs[t] = 1
    /\ ~Holds(t, "out") /\ Holds(t, "in") => refs[t] = 1
    /\ ~Holds(t, "out") /\ ~Holds(t, "in") => refs[t] = 0
    /\ \A th \in Threads : pc[t, th] \in {"close", "unref", "gone"} => kicked[t]

\* The notice goes from the output thread by way of the event loop to the input thread.
\* It is the last packet on either way, and once it is on the second there is nothing
\* left on the first and no socket, so that nothing can follow it.
Told(t) == ~NoOffline(toIn[t]) \/ pc[t, "in"] \in InPast
Notice(t) ==
    /\ LastOnly(toLoop[t]) /\ LastOnly(toIn[t])
    /\ pc[t, "out"] \notin Past => NoOffline(toLoop[t])
    /\ pc[t, "in"] \in {"none", "read", "write"} \cup InPast
    /\ Told(t) => pc[t, "out"] \in Past /\ toLoop[t] = <<>> /\ ~socks[t]
    /\ pc[t, "in"] \in InPast => toIn[t] = <<>>

\* The messages for the event loop are about transports that wait for them, one each.
Registered ==
    /\ \A i \in 1..Len(regq) :
          st[regq[i].t] = (IF regq[i].add THEN "queued" ELSE "leaving")
    /\ \A i, j \in 1..Len(regq) : i # j => regq[i].t # regq[j].t

\* A transport whose opening is gone is past its kick; the one that has the handle is
\* kicked by the one thread that is about to close it.
Owns(t) ==
    /\ st[t] = "none" <=> t > opened \/ (t = opened /\ opener = "register")
    /\ t <= opened /\ t # usb => /\ kicked[t] /\ pc[t, "out"] \in Past
                                 /\ pc[t, "out"] # "close" /\ pc[t, "in"] # "close"
    /\ t = usb => /\ kicked[t] <=> pc[t, "out"] = "close" \/ pc[t, "in"] = "close"
                  /\ pc[t, "out"] # "close" \/ pc[t, "in"] # "close"

\* The handle is closed or of the last opening.
Handled == usb \in {0, opened} /\ (opener = "register" => usb = opened)

Inv == Types /\ (\A t \in T : Life(t) /\ Notice(t) /\ Owns(t)) /\ Registered /\ Handled

-----------------------------------------------------------------------------
(* Queues of packets. *)
LEMMA EmptyQueue == NoOffline(<<>>) /\ LastOnly(<<>>)
BY EmptySeq DEF NoOffline, LastOnly

LEMMA AddedPacket ==
    ASSUME NEW q \in Seq(Packets), NEW p \in Packets, NoOffline(q)
    PROVE  /\ LastOnly(Append(q, p))
           /\ p # "OFFLINE" => NoOffline(Append(q, p))
<1>1. /\ Len(q) \in Nat /\ Len(Append(q, p)) = Len(q) + 1
      /\ \A i \in 1..Len(q) : Append(q, p)[i] = q[i]
      /\ Append(q, p)[Len(q) + 1] = p
  BY AppendProperties, LenProperties
<1> QED BY <1>1 DEF NoOffline, LastOnly

LEMMA TakenPacket ==
    ASSUME NEW q \in Seq(Packets), q # <<>>, LastOnly(q)
    PROVE  /\ LastOnly(Tail(q))
           /\ Head(q) = "OFFLINE" => Tail(q) = <<>> /\ ~NoOffline(q)
           /\ NoOffline(q) => NoOffline(Tail(q))
<1>1. /\ Len(q) \in Nat \ {0} /\ Head(q) = q[1] /\ Tail(q) \in Seq(Packets)
      /\ Len(Tail(q)) = Len(q) - 1
      /\ \A i \in 1..Len(Tail(q)) : Tail(q)[i] = q[i + 1]
  BY HeadTailProperties, LenProperties, EmptySeq
<1>2. LastOnly(Tail(q))
  <2> SUFFICES ASSUME NEW i \in 1..Len(Tail(q)), Tail(q)[i] = "OFFLINE"
               PROVE  i = Len(Tail(q))
    BY DEF LastOnly
  <2>1. q[i + 1] = "OFFLINE"
    BY <1>1
  <2>2. i + 1 \in 1..Len(q)
    BY <1>1
  <2>3. i + 1 = Len(q)
    BY <2>1, <2>2 DEF LastOnly
  <2>4. Len(q) \in Nat /\ Len(Tail(q)) = Len(q) - 1 /\ i \in Int
    BY <1>1
  <2> QED BY <2>3, <2>4
<1>3. NoOffline(q) => NoOffline(Tail(q))
  BY <1>1 DEF NoOffline
<1>4. ASSUME Head(q) = "OFFLINE" PROVE Tail(q) = <<>> /\ ~NoOffline(q)
  <2>1. Len(q) = 1
    <3>1. q[1] = "OFFLINE"
      BY <1>1, <1>4
    <3>2. 1 \in 1..Len(q)
      BY <1>1
    <3> QED BY <3>1, <3>2, Zenon DEF LastOnly
  <2>2. ~NoOffline(q)
    BY <1>1, <1>4 DEF NoOffline
  <2>3. Len(Tail(q)) = 0
    BY <2>1, <1>1
  <2> QED BY <1>1, <2>2, <2>3, EmptySeq, Zenon
<1> QED BY <1>2, <1>3, <1>4

-----------------------------------------------------------------------------
(* A step of one transport leaves the others alone. *)
Same(t) ==
    /\ st'[t] = st[t] /\ pc'[t, "out"] = pc[t, "out"] /\ pc'[t, "in"] = pc[t, "in"]
    /\ refs'[t] = refs[t] /\ kicked'[t] = kicked[t] /\ socks'[t] = socks[t]
    /\ toLoop'[t] = toLoop[t] /\ toIn'[t] = toIn[t]

LEMMA SameOwns ==
    ASSUME NEW t \in T, Same(t), UNCHANGED <<usb, opened, opener>>, Owns(t)
    PROVE  Owns(t)'
BY Zenon DEF Same, Owns

LEMMA SameKeeps ==
    ASSUME NEW t \in T, Same(t), Life(t), Notice(t)
    PROVE  Life(t)' /\ Notice(t)'
<1>1. Life(t)'
  BY Zenon DEF Same, Life, Holds, Threads
<1>2. Notice(t)'
  BY Zenon DEF Same, Notice, Told
<1> QED BY <1>1, <1>2

LEMMA GotoMoves ==
    ASSUME PlacesOK, NEW t \in T, NEW th \in Threads, NEW to, Goto(t, th, to)
    PROVE  /\ pc'[t, th] = to
           /\ \A u \in T, h \in Threads : u # t \/ h # th => pc'[u, h] = pc[u, h]
BY Zenon DEF PlacesOK, Goto

\* The event loop takes a packet and may send one on; it passes the notice on as the
\* last one, after the sockets are closed.
LEMMA HandleMoves ==
    ASSUME Types, NEW t \in T, Handle(t)
    PROVE  /\ UNCHANGED <<usb, opened, opener, regq, st, pc, refs, kicked>>
           /\ \A u \in T \ {t} : Same(u)
           /\ st[t] \in {"live", "leaving"}
           /\ toLoop[t] # <<>> /\ toLoop'[t] = Tail(toLoop[t])
           /\ Head(toLoop[t]) = "OFFLINE" => ~socks'[t]
           /\ \/ toIn'[t] = toIn[t]
              \/ \E p \in Packets : /\ toIn'[t] = Append(toIn[t], p)
                                    /\ p = "OFFLINE" => Head(toLoop[t]) = "OFFLINE"
<1> USE DEF device, pumps, queues
<1>1. /\ toLoop \in [T -> Seq(Packets)] /\ toIn \in [T -> Seq(Packets)]
      /\ socks \in [T -> BOOLEAN]
  BY DEF Types, QueuesOK, FlagsOK
<1>2. /\ UNCHANGED <<usb, opened, opener, regq, st, pc, refs, kicked>>
      /\ st[t] \in {"live", "leaving"} /\ toLoop[t] # <<>>
      /\ toLoop' = [toLoop EXCEPT ![t] = Tail(toLoop[t])]
  BY DEF Handle, HandleOnline, HandleOffline, HandleConnect, HandleOpen,
         HandleClose, Receive, ReadPacket
<1>3. socks' = socks \/ \E b \in BOOLEAN : socks' = [socks EXCEPT ![t] = b]
  BY Zenon DEF Handle, HandleOnline, HandleOffline, HandleConnect, HandleOpen,
         HandleClose, RunDisconnects
<1>4. Head(toLoop[t]) = "OFFLINE" => socks' = [socks EXCEPT ![t] = FALSE]
  BY DEF Handle, HandleOnline, HandleOffline, HandleConnect, HandleOpen,
         HandleClose, Receive, RunDisconnects
<1>5. \/ toIn' = toIn
      \/ \E p \in Packets : /\ toIn' = [toIn EXCEPT ![t] = Append(toIn[t], p)]
                            /\ p = "OFFLINE" => Head(toLoop[t]) = "OFFLINE"
  <2>1. ASSUME NEW p \in Packets, SendPacket(t, p)
        PROVE  toIn' = toIn \/ toIn' = [toIn EXCEPT ![t] = Append(toIn[t], p)]
    BY <2>1 DEF SendPacket, WritePacket
  <2>2. \/ toIn' = toIn
        \/ \E p \in {"ONLINE", "CNXN", "OKAY", "CLSE"} : SendPacket(t, p)
        \/ SendPacket(t, "OFFLINE") /\ Head(toLoop[t]) = "OFFLINE"
    BY DEF Handle, HandleOnline, HandleOffline, HandleConnect, HandleOpen, HandleClose,
           Receive, SendConnect
  <2>3. /\ \A p \in {"ONLINE", "CNXN", "OKAY", "CLSE"} : p \in Packets /\ p # "OFFLINE"
        /\ "OFFLINE" \in Packets
    BY DEF Packets, Remote
  <2> QED BY <2>1, <2>2, <2>3
<1>6. \A u \in T \ {t} : Same(u)
  BY <1>1, <1>2, <1>3, <1>5 DEF Same
<1> QED BY <1>1, <1>2, <1>3, <1>4, <1>5, <1>6

LEMMA HandleKeeps ==
    ASSUME Inv, NEW t \in T, Handle(t)
    PROVE  \A u \in T : Life(u)' /\ Notice(u)'
<1>0. Types /\ Life(t) /\ Notice(t) /\ toLoop[t] \in Seq(Packets) /\ toIn[t] \in Seq(Packets)
  BY DEF Inv, Types, QueuesOK
<1>1. Life(t)'
  BY <1>0, HandleMoves, Zenon DEF Life, Holds, Threads
<1>2. ~Told(t)
  BY <1>0, HandleMoves, Zenon DEF Notice
<1>3. LastOnly(toLoop'[t])
  BY <1>0, HandleMoves, TakenPacket, Zenon DEF Notice
<1>4. LastOnly(toIn'[t])
  BY <1>0, <1>2, HandleMoves, AddedPacket, Zenon DEF Notice, Told
<1>5. CASE Head(toLoop[t]) = "OFFLINE"
  <2>1. toLoop'[t] = <<>> /\ ~NoOffline(toLoop[t]) /\ ~socks'[t]
    BY <1>0, <1>5, HandleMoves, TakenPacket, Zenon DEF Notice
  <2>2. pc[t, "out"] \in Past
    BY <1>0, <2>1, Zenon DEF Notice
  <2> QED BY <1>0, <1>1, <1>2, <1>3, <1>4, <2>1, <2>2, HandleMoves, SameKeeps, Zenon
          DEF Notice, Told, Inv
<1>6. CASE Head(toLoop[t]) # "OFFLINE"
  <2>1. NoOffline(toIn'[t])
    BY <1>0, <1>2, <1>6, HandleMoves, AddedPacket, Zenon DEF Told
  <2>2. pc[t, "out"] \notin Past => NoOffline(toLoop'[t])
    BY <1>0, HandleMoves, TakenPacket, Zenon DEF Notice
  <2>3. Notice(t)'
    BY <1>0, <1>2, <1>3, <1>4, <2>1, <2>2, HandleMoves, Zenon DEF Notice, Told
  <2> QED BY <1>1, <2>3, HandleMoves, <1>0, SameKeeps DEF Inv
<1> QED BY <1>5, <1>6

LEMMA ServiceKeeps ==
    ASSUME Inv, NEW t \in T, ServiceCloses(t)
    PROVE  /\ UNCHANGED <<usb, opened, opener, regq, st, pc, refs, kicked>>
           /\ \A u \in T : Life(u)' /\ Notice(u)'
<1>0. /\ Life(t) /\ Notice(t) /\ toIn[t] \in Seq(Packets)
      /\ toIn \in [T -> Seq(Packets)] /\ socks \in [T -> BOOLEAN]
  BY DEF Inv, Types, QueuesOK, FlagsOK
<1>1. /\ socks[t] /\ UNCHANGED <<usb, opened, opener, regq, st, pc, refs, kicked, toLoop>>
      /\ toIn' = toIn \/ toIn' = [toIn EXCEPT ![t] = Append(toIn[t], "CLSE")]
      /\ socks' = [socks EXCEPT ![t] = FALSE]
  BY DEF ServiceCloses, SendPacket, WritePacket, device, pumps
<1>2. \A u \in T \ {t} : Same(u)
  BY <1>0, <1>1 DEF Same
<1>3. Life(t)'
  BY <1>0, <1>1, Zenon DEF Life, Holds, Threads
<1>4. ~Told(t)
  BY <1>0, <1>1, Zenon DEF Notice
<1>5. LastOnly(toIn'[t]) /\ NoOffline(toIn'[t])
  <2>1. NoOffline(toIn[t]) /\ LastOnly(toIn[t])
    BY <1>0, <1>4, Zenon DEF Notice, Told
  <2>2. "CLSE" \in Packets
    BY DEF Packets, Remote
  <2>3. toIn'[t] = toIn[t] \/ toIn'[t] = Append(toIn[t], "CLSE")
    BY <1>0, <1>1
  <2> QED BY <1>0, <2>1, <2>2, <2>3, AddedPacket, Zenon
<1>6. Notice(t)'
  BY <1>0, <1>1, <1>4, <1>5, Zenon DEF Notice, Told
<1> QED BY <1>1, <1>2, <1>3, <1>6, SameKeeps DEF Inv

\* The output thread, until it gives up.
LEMMA OutputKeeps ==
    ASSUME Inv, NEW t \in T, OutSync(t) \/ OutEof(t) \/ FromHost(t)
    PROVE  /\ UNCHANGED <<usb, opened, opener, regq, st, refs, kicked>>
           /\ \A u \in T \ {t} : Same(u)
           /\ pc[t, "out"] \in {"sync", "read", "eof"}
           /\ pc'[t, "out"] \in {"read", "eof", "kick"} /\ pc'[t, "in"] = pc[t, "in"]
           /\ \A u \in T : Life(u)' /\ Notice(u)'
<1>0. /\ PlacesOK /\ Life(t) /\ Notice(t) /\ toLoop[t] \in Seq(Packets)
      /\ toLoop \in [T -> Seq(Packets)]
  BY DEF Inv, Types, QueuesOK
<1>1. UNCHANGED <<usb, opened, opener, regq, st, refs, kicked, toIn, socks>>
  BY Zenon DEF OutSync, OutEof, FromHost, OutFail, OutPacket, device, pumps, queues
<1>2. /\ pc[t, "out"] \in {"sync", "read", "eof"}
      /\ \/ Goto(t, "out", "read") \/ Goto(t, "out", "eof") \/ Goto(t, "out", "kick")
         \/ (pc[t, "out"] = "read" /\ pc' = pc)
  BY Zenon DEF OutSync, OutEof, FromHost, OutFail, OutPacket, pumps
<1>3. /\ pc'[t, "out"] \in {"read", "eof", "kick"} /\ pc'[t, "in"] = pc[t, "in"]
      /\ \A u \in T \ {t} : pc'[u, "out"] = pc[u, "out"] /\ pc'[u, "in"] = pc[u, "in"]
  BY <1>0, <1>2, GotoMoves, Zenon DEF Threads
<1>4. \/ toLoop' = toLoop
      \/ \E p \in Packets : /\ toLoop' = [toLoop EXCEPT ![t] = Append(toLoop[t], p)]
                            /\ p = "OFFLINE" => Goto(t, "out", "kick")
  <2>0. "ONLINE" \in Packets /\ "OFFLINE" \in Packets
    BY DEF Packets
  <2>1. CASE OutSync(t) \/ OutEof(t)
    <3>1. \/ toLoop' = [toLoop EXCEPT ![t] = Append(toLoop[t], "ONLINE")]
          \/ /\ toLoop' = [toLoop EXCEPT ![t] = Append(toLoop[t], "OFFLINE")]
             /\ Goto(t, "out", "kick")
      BY <2>1, Zenon DEF OutSync, OutEof, WritePacket
    <3> QED BY <2>0, <3>1
  <2>2. CASE OutFail(t)
    BY <2>2, Zenon DEF OutFail, queues
  <2>3. ASSUME NEW p \in Remote, OutPacket(t, p)
        PROVE  toLoop' = [toLoop EXCEPT ![t] = Append(toLoop[t], p)]
    BY <2>3, Zenon DEF OutPacket, WritePacket
  <2>4. \A p \in Remote : p \in Packets /\ p # "OFFLINE"
    BY DEF Packets, Remote
  <2> QED BY <2>1, <2>2, <2>3, <2>4 DEF FromHost
<1>5. \A u \in T \ {t} : Same(u)
  BY <1>0, <1>1, <1>3, <1>4, Zenon DEF Same
<1>6. Life(t)'
  <2>1. st[t] = "live"
    BY <1>0, <1>2, Zenon DEF Life, PlacesOK
  <2> QED BY <1>0, <1>1, <1>2, <1>3, <2>1, Zenon DEF Life, Holds, Threads
<1>7. NoOffline(toLoop[t]) /\ ~Told(t)
  BY <1>0, <1>2, Zenon DEF Notice, Past
<1>8. LastOnly(toLoop'[t]) /\ (pc'[t, "out"] \notin Past => NoOffline(toLoop'[t]))
  <2>1. CASE toLoop' = toLoop
    BY <1>0, <1>7, <2>1, Zenon DEF Notice
  <2>2. ASSUME NEW p \in Packets, toLoop' = [toLoop EXCEPT ![t] = Append(toLoop[t], p)],
               p = "OFFLINE" => Goto(t, "out", "kick")
        PROVE  LastOnly(toLoop'[t]) /\ (pc'[t, "out"] \notin Past => NoOffline(toLoop'[t]))
    <3>1. p = "OFFLINE" => pc'[t, "out"] \in Past
      BY <1>0, <2>2, GotoMoves, Zenon DEF Threads, Past
    <3> QED BY <1>0, <1>7, <2>2, <3>1, AddedPacket, Zenon
  <2> QED BY <1>4, <2>1, <2>2, Zenon
<1>9. Notice(t)'
  BY <1>0, <1>1, <1>3, <1>7, <1>8, Zenon DEF Notice, Told
<1> QED BY <1>1, <1>2, <1>3, <1>5, <1>6, <1>9, SameKeeps, Zenon DEF Inv

\* The input thread, until it kicks the transport.
LEMMA InputKeeps ==
    ASSUME Inv, NEW t \in T, InRead(t) \/ InWrite(t) \/ CloseAllSockets(t)
    PROVE  /\ UNCHANGED <<usb, opened, opener, regq, st, refs, kicked>>
           /\ \A u \in T \ {t} : Same(u)
           /\ pc[t, "in"] \in {"read", "write", "closeall"}
           /\ pc'[t, "in"] \in {"read", "write", "closeall", "kick"}
           /\ pc'[t, "out"] = pc[t, "out"]
           /\ \A u \in T : Life(u)' /\ Notice(u)'
<1>0. /\ PlacesOK /\ Life(t) /\ Notice(t) /\ toIn[t] \in Seq(Packets)
      /\ toIn \in [T -> Seq(Packets)] /\ socks \in [T -> BOOLEAN]
  BY DEF Inv, Types, QueuesOK, FlagsOK
<1>1. UNCHANGED <<usb, opened, opener, regq, st, refs, kicked, toLoop>>
  BY Zenon DEF InRead, InWrite, CloseAllSockets, device, queues
<1>2. /\ pc[t, "in"] \in {"read", "write", "closeall"}
      /\ \E to \in {"read", "write", "closeall", "kick"} : Goto(t, "in", to)
  BY Zenon DEF InRead, InWrite, CloseAllSockets
<1>3. /\ pc'[t, "in"] \in {"read", "write", "closeall", "kick"}
      /\ pc'[t, "out"] = pc[t, "out"]
      /\ \A u \in T \ {t} : pc'[u, "out"] = pc[u, "out"] /\ pc'[u, "in"] = pc[u, "in"]
  BY <1>0, <1>2, GotoMoves, Zenon DEF Threads
<1>4. Life(t)' /\ st[t] = "live"
  <2>1. st[t] = "live"
    BY <1>0, <1>2, Zenon DEF Life, PlacesOK
  <2> QED BY <1>0, <1>1, <1>2, <1>3, <2>1, Zenon DEF Life, Holds, Threads
<1>5. ASSUME InRead(t) PROVE Notice(t)' /\ \A u \in T \ {t} : Same(u)
  <2>1. /\ pc[t, "in"] = "read" /\ toIn[t] # <<>> /\ socks' = socks
        /\ toIn' = [toIn EXCEPT ![t] = Tail(toIn[t])]
        /\ Head(toIn[t]) = "OFFLINE" => Goto(t, "in", "closeall")
        /\ Head(toIn[t]) # "OFFLINE" => Goto(t, "in", "write") \/ Goto(t, "in", "read")
    BY <1>5, Zenon DEF InRead, ReadPacket
  <2>2. \A u \in T \ {t} : Same(u)
    BY <1>0, <1>1, <1>3, <2>1, Zenon DEF Same
  <2>3. LastOnly(toIn'[t])
    BY <1>0, <2>1, TakenPacket, Zenon DEF Notice
  <2>4. CASE Head(toIn[t]) = "OFFLINE"
    <3>1. toIn'[t] = <<>> /\ Told(t)
      BY <1>0, <2>1, <2>4, TakenPacket, Zenon DEF Notice, Told
    <3>2. pc[t, "out"] \in Past /\ toLoop[t] = <<>> /\ ~socks[t]
      BY <1>0, <3>1, Zenon DEF Notice
    <3>3. pc'[t, "in"] = "closeall"
      BY <1>0, <2>1, <2>4, GotoMoves, Zenon DEF Threads
    <3> QED BY <1>0, <1>1, <1>3, <2>1, <2>2, <2>3, <3>1, <3>2, <3>3, Zenon
            DEF Notice, Told, InPast
  <2>5. CASE Head(toIn[t]) # "OFFLINE"
    <3>1. pc'[t, "in"] \in {"read", "write"}
      BY <1>0, <2>1, <2>5, GotoMoves, Zenon DEF Threads
    <3>2. ~NoOffline(toIn'[t]) => ~NoOffline(toIn[t])
      BY <1>0, <2>1, TakenPacket, Zenon DEF Notice
    <3> QED BY <1>0, <1>1, <1>3, <2>1, <2>2, <2>3, <3>1, <3>2, Zenon
            DEF Notice, Told, InPast, Past
  <2> QED BY <2>4, <2>5
<1>6. ASSUME InWrite(t) PROVE Notice(t)' /\ \A u \in T \ {t} : Same(u)
  <2>1. pc[t, "in"] = "write" /\ Goto(t, "in", "read") /\ UNCHANGED <<toIn, socks>>
    BY <1>6, Zenon DEF InWrite, queues
  <2>2. pc'[t, "in"] = "read"
    BY <1>0, <2>1, GotoMoves, Zenon DEF Threads
  <2>3. \A u \in T \ {t} : Same(u)
    BY <1>1, <1>3, <2>1, Zenon DEF Same
  <2> QED BY <1>0, <1>1, <1>3, <2>1, <2>2, <2>3, Zenon DEF Notice, Told, InPast, Past
<1>7. ASSUME CloseAllSockets(t) PROVE Notice(t)' /\ \A u \in T \ {t} : Same(u)
  <2>1. pc[t, "in"] \in InPast /\ Goto(t, "in", "kick")
    BY <1>7, Zenon DEF CloseAllSockets, InPast
  <2>2. ~socks[t]
    BY <1>0, <2>1, Zenon DEF Notice, Told
  <2>3. toIn' = toIn /\ socks' = [socks EXCEPT ![t] = FALSE]
    BY <1>7, <2>2, Zenon DEF CloseAllSockets
  <2>4. pc'[t, "in"] \in InPast
    BY <1>0, <2>1, GotoMoves, Zenon DEF Threads, InPast, Past
  <2>5. \A u \in T \ {t} : Same(u)
    BY <1>0, <1>1, <1>3, <2>3, Zenon DEF Same
  <2> QED BY <1>0, <1>1, <1>3, <2>1, <2>2, <2>3, <2>4, <2>5, Zenon DEF Notice, Told
<1> QED BY <1>1, <1>2, <1>3, <1>4, <1>5, <1>6, <1>7, SameKeeps, Zenon DEF Inv

\* The end of either thread.  It touches nothing of another transport, nor of the other
\* thread.
LEMMA EndingFrame ==
    ASSUME Inv, NEW t \in T, NEW th \in Threads, Ending(t, th)
    PROVE  /\ st[t] = "live" /\ UNCHANGED <<opened, opener, toLoop, toIn, socks>>
           /\ \A u \in T \ {t} : Same(u)
           /\ \A h \in Threads \ {th} : pc'[t, h] = pc[t, h]
<1>0. /\ PlacesOK /\ Life(t) /\ kicked \in [T -> BOOLEAN] /\ refs \in [T -> Int]
      /\ st \in [T -> {"none", "queued", "live", "leaving", "freed"}]
  BY DEF Inv, Types, FlagsOK, PlacesOK
<1>1. pc[t, th] \in {"kick", "lock", "close", "unref"}
  BY Zenon DEF Ending, Kick, KickLocked, KickDevice, Unref
<1>2. UNCHANGED <<opened, opener, toLoop, toIn, socks>>
  BY Zenon DEF Ending, Kick, KickLocked, KickDevice, Unref, device, queues
<1>3. \E to : Goto(t, th, to)
  BY Zenon DEF Ending, Kick, KickLocked, KickDevice, Unref
<1>4. st[t] = "live"
  BY <1>0, <1>1, Zenon DEF Life, Threads
<1>5. \A u \in T, h \in Threads : u # t \/ h # th => pc'[u, h] = pc[u, h]
  BY <1>0, <1>3, GotoMoves, Zenon
<1>6. \A h \in Threads \ {th} : pc'[t, h] = pc[t, h]
  BY <1>5, Zenon
<1>7. \A u \in T \ {t} : pc'[u, "out"] = pc[u, "out"] /\ pc'[u, "in"] = pc[u, "in"]
  BY <1>5, Zenon DEF Threads
<1>8. kicked' = kicked \/ kicked' = [kicked EXCEPT ![t] = TRUE]
  BY Zenon DEF Ending, Kick, KickLocked, KickDevice, Unref
<1>9. refs' = refs \/ refs' = [refs EXCEPT ![t] = refs[t] - 1]
  BY Zenon DEF Ending, Kick, KickLocked, KickDevice, Unref
<1>10. st' = st \/ st' = [st EXCEPT ![t] = "leaving"]
  BY Zenon DEF Ending, Kick, KickLocked, KickDevice, Unref, RemoveTransport
<1>11. \A u \in T \ {t} : /\ kicked'[u] = kicked[u] /\ refs'[u] = refs[u]
                          /\ st'[u] = st[u]
  BY <1>0, <1>8, <1>9, <1>10
<1>12. \A u \in T \ {t} : Same(u)
  BY <1>2, <1>7, <1>11, Zenon DEF Same
<1> QED BY <1>2, <1>4, <1>6, <1>12, Zenon

\* The one that drops the last reference finds the transport kicked, so the kick of
\* transport_unref is never needed.
LEMMA EndingMoves ==
    ASSUME Inv, NEW t \in T, NEW th \in Threads, Ending(t, th)
    PROVE  \/ /\ pc[t, th] = "kick" /\ pc'[t, th] = "lock"
              /\ ~kicked[t] /\ UNCHANGED <<usb, regq, st, refs, kicked>>
           \/ /\ pc[t, th] \in {"kick", "lock"} /\ pc'[t, th] = "unref"
              /\ kicked[t] /\ kicked'[t] /\ UNCHANGED <<usb, regq, st, refs>>
           \/ /\ pc[t, th] = "lock" /\ pc'[t, th] = "close"
              /\ ~kicked[t] /\ kicked'[t] /\ UNCHANGED <<usb, regq, st, refs>>
           \/ /\ pc[t, th] = "close" /\ pc'[t, th] = "unref"
              /\ usb' = 0 /\ UNCHANGED <<regq, st, refs, kicked>>
           \/ /\ pc[t, th] = "unref" /\ pc'[t, th] = "gone"
              /\ kicked[t] /\ kicked'[t] /\ usb' = usb /\ refs'[t] = refs[t] - 1
              /\ IF refs[t] = 1 THEN RemoveTransport(t) ELSE UNCHANGED <<st, regq>>
<1>0. PlacesOK /\ Life(t) /\ kicked \in [T -> BOOLEAN] /\ refs \in [T -> Int]
  BY DEF Inv, Types, FlagsOK, PlacesOK
<1>1. ASSUME NEW to, Goto(t, th, to) PROVE pc'[t, th] = to
  BY <1>0, <1>1, GotoMoves, Zenon
<1>2. CASE Kick(t, th)
  <2>1. /\ UNCHANGED <<usb, regq, st, refs, kicked>> /\ pc[t, th] = "kick"
        /\ pc'[t, th] = IF kicked[t] THEN "unref" ELSE "lock"
    BY <1>1, <1>2, Zenon DEF Kick, device
  <2> QED BY <2>1, Zenon
<1>3. CASE KickLocked(t, th)
  <2>1. /\ UNCHANGED <<usb, regq, st, refs>> /\ pc[t, th] = "lock"
        /\ pc'[t, th] = IF kicked[t] THEN "unref" ELSE "close"
    BY <1>1, <1>3, Zenon DEF KickLocked, device
  <2>2. kicked'[t]
    BY <1>0, <1>3, Zenon DEF KickLocked
  <2> QED BY <2>1, <2>2, Zenon
<1>4. CASE KickDevice(t, th)
  BY <1>1, <1>4, Zenon DEF KickDevice, UsbKick
<1>5. CASE Unref(t, th)
  <2>1. pc[t, th] = "unref" /\ pc'[t, th] = "gone"
    BY <1>1, <1>5, Zenon DEF Unref
  <2>2. kicked[t]
    BY <1>0, <2>1, Zenon DEF Life
  <2>3. /\ usb' = usb
        /\ kicked' = kicked \/ kicked' = [kicked EXCEPT ![t] = TRUE]
        /\ IF refs[t] = 1 THEN RemoveTransport(t) ELSE UNCHANGED <<st, regq>>
    BY <1>5, <2>2, Zenon DEF Unref
  <2>4. kicked'[t]
    BY <1>0, <2>2, <2>3
  <2>5. refs'[t] = refs[t] - 1
    BY <1>0, <1>5, Zenon DEF Unref
  <2> QED BY <2>1, <2>2, <2>3, <2>4, <2>5, Zenon
<1> QED BY <1>2, <1>3, <1>4, <1>5, Zenon DEF Ending

LEMMA EndingKeeps ==
    ASSUME Inv, NEW t \in T, NEW th \in Threads, Ending(t, th)
    PROVE  \A u \in T : Life(u)' /\ Notice(u)'
<1>0. PlacesOK /\ Life(t) /\ Notice(t) /\ \A u \in T \ {t} : Life(u)' /\ Notice(u)'
  <2>1. \A u \in T \ {t} : Same(u)
    BY EndingFrame, Zenon
  <2> QED BY <2>1, SameKeeps DEF Inv, Types
<1>1. PICK h \in Threads : (th = "out" /\ h = "in") \/ (th = "in" /\ h = "out")
  BY DEF Threads
<1>2. pc'[t, h] = pc[t, h] /\ st[t] = "live" /\ UNCHANGED <<toLoop, toIn, socks>>
  <2>1. \A x \in Threads \ {th} : pc'[t, x] = pc[t, x]
    BY EndingFrame, Zenon
  <2>2. st[t] = "live" /\ UNCHANGED <<toLoop, toIn, socks>>
    BY EndingFrame, Zenon
  <2> QED BY <1>1, <2>1, <2>2, Zenon
<1>3. pc[t, th] \in Past \ {"gone"} /\ pc'[t, th] \in Past
  BY EndingMoves, Zenon DEF Past
<1>4. Notice(t)'
  <2>1. CASE th = "out"
    BY <1>0, <1>1, <1>2, <1>3, <2>1, Zenon DEF Notice, Told
  <2>2. CASE th = "in"
    BY <1>0, <1>1, <1>2, <1>3, <2>2, Zenon DEF Notice, Told, InPast
  <2> QED BY <2>1, <2>2 DEF Threads
<1>5. /\ pc[t, h] # "none"
      /\ pc[t, h] = "gone" => refs[t] = 1
      /\ pc[t, h] # "gone" => refs[t] = 2
      /\ pc[t, h] \in {"close", "unref", "gone"} => kicked[t]
      /\ pc[t, th] \in {"close", "unref", "gone"} => kicked[t]
  BY <1>0, <1>1, <1>2, <1>3, Zenon DEF Life, Holds, Threads, Past
<1>6. /\ pc'[t, h] # "none" /\ pc'[t, th] # "none"
      /\ pc'[t, h] \in {"close", "unref", "gone"} => kicked'[t]
      /\ pc'[t, th] \in {"close", "unref", "gone"} => kicked'[t]
  <2>1. kicked[t] => kicked'[t]
    BY EndingMoves, Zenon
  <2>2. pc'[t, th] \in {"close", "unref", "gone"} => kicked'[t]
    BY <1>5, EndingMoves, Zenon
  <2> QED BY <1>2, <1>3, <1>5, <2>1, <2>2, Zenon DEF Past
<1>7. CASE pc[t, th] # "unref"
  <2>1. st'[t] = "live" /\ pc'[t, th] # "gone" /\ refs'[t] = refs[t]
    BY <1>2, <1>7, EndingMoves, Zenon
  <2>2. Life(t)'
    BY <1>1, <1>2, <1>5, <1>6, <2>1, Zenon DEF Life, Holds, Threads
  <2> QED BY <1>0, <1>4, <2>2
<1>8. CASE pc[t, th] = "unref"
  <2>1. /\ pc'[t, th] = "gone"
        /\ refs[t] = 1 => RemoveTransport(t)
        /\ refs[t] # 1 => UNCHANGED st
    BY <1>8, EndingMoves, Zenon
  <2>2. refs'[t] = refs[t] - 1
    BY <1>8, EndingMoves, Zenon
  <2>3. ASSUME pc[t, h] = "gone" PROVE Life(t)'
    <3>1. refs[t] = 1
      BY <1>5, <2>3, Zenon
    <3>2. refs'[t] = 0
      BY <2>2, <3>1
    <3>3. st'[t] = "leaving"
      BY <1>0, <2>1, <3>1, Zenon DEF PlacesOK, RemoveTransport
    <3> QED BY <1>1, <1>2, <1>6, <2>1, <2>3, <3>2, <3>3, Zenon DEF Life, Holds, Threads
  <2>4. ASSUME pc[t, h] # "gone" PROVE Life(t)'
    <3>1. refs[t] = 2
      BY <1>5, <2>4, Zenon
    <3>2. refs'[t] = 1 /\ refs[t] # 1
      BY <2>2, <3>1
    <3>3. st'[t] = "live"
      BY <1>2, <2>1, <3>2, Zenon
    <3> QED BY <1>1, <1>2, <1>6, <2>1, <2>4, <3>2, <3>3, Zenon DEF Life, Holds, Threads
  <2> QED BY <1>0, <1>4, <2>3, <2>4, Zenon
<1> QED BY <1>7, <1>8, Zenon

-----------------------------------------------------------------------------
(* The steps that begin and end a transport. *)
LEMMA AddMoves ==
    ASSUME Inv, RegistrationAdd
    PROVE  \E t \in T :
             /\ regq # <<>> /\ t = regq[1].t /\ regq' = Tail(regq)
             /\ st[t] = "queued" /\ st'[t] = "live" /\ refs'[t] = 2
             /\ pc'[t, "out"] = "sync" /\ pc'[t, "in"] = "read"
             /\ UNCHANGED <<usb, opened, opener, kicked, socks, toLoop, toIn>>
             /\ \A u \in T \ {t} : Same(u)
<1> DEFINE t == Head(regq).t
<1>0. PlacesOK /\ QueuesOK /\ regq # <<>> /\ regq[1].add /\ regq' = Tail(regq)
  BY HeadOfRegq DEF Inv, Types, RegistrationAdd
<1>1. t \in T /\ t = regq[1].t /\ 1 \in 1..Len(regq)
  <2>1. Head(regq).t \in T /\ Head(regq) = regq[1] /\ Len(regq) \in Nat \ {0}
    BY <1>0, HeadOfRegq
  <2> QED BY <2>1
<1>2. st[t] = "queued"
  BY <1>0, <1>1 DEF Inv, Registered
<1>3. /\ st' = [st EXCEPT ![t] = "live"] /\ refs' = [refs EXCEPT ![t] = 2]
      /\ pc' = [pc EXCEPT ![<<t, "out">>] = "sync", ![<<t, "in">>] = "read"]
      /\ UNCHANGED <<usb, opened, opener, kicked, socks, toLoop, toIn>>
  BY DEF RegistrationAdd, device, queues
<1> HIDE DEF t
<1>4. /\ pc'[t, "out"] = "sync" /\ pc'[t, "in"] = "read"
      /\ \A u \in T \ {t} : pc'[u, "out"] = pc[u, "out"] /\ pc'[u, "in"] = pc[u, "in"]
  BY <1>0, <1>1, <1>3, Zenon DEF PlacesOK, Threads
<1>5. /\ st'[t] = "live" /\ refs'[t] = 2
      /\ \A u \in T \ {t} : st'[u] = st[u] /\ refs'[u] = refs[u]
  BY <1>0, <1>1, <1>3 DEF PlacesOK
<1>6. \A u \in T \ {t} : Same(u)
  BY <1>3, <1>4, <1>5, Zenon DEF Same
<1> QED BY <1>0, <1>1, <1>2, <1>3, <1>4, <1>5, <1>6, Zenon

LEMMA RemoveMoves ==
    ASSUME Inv, RegistrationRemove
    PROVE  \E t \in T :
             /\ regq # <<>> /\ t = regq[1].t /\ regq' = Tail(regq)
             /\ st[t] = "leaving" /\ st'[t] = "freed" /\ ~socks'[t]
             /\ UNCHANGED <<usb, opened, opener, pc, refs, kicked, toLoop, toIn>>
             /\ \A u \in T \ {t} : Same(u)
<1> DEFINE t == Head(regq).t
<1>0. /\ PlacesOK /\ QueuesOK /\ regq # <<>> /\ ~regq[1].add /\ regq' = Tail(regq)
      /\ socks \in [T -> BOOLEAN]
  BY HeadOfRegq DEF Inv, Types, FlagsOK, RegistrationRemove
<1>1. t \in T /\ t = regq[1].t /\ 1 \in 1..Len(regq)
  <2>1. Head(regq).t \in T /\ Head(regq) = regq[1] /\ Len(regq) \in Nat \ {0}
    BY <1>0, HeadOfRegq
  <2> QED BY <2>1
<1>2. st[t] = "leaving"
  BY <1>0, <1>1 DEF Inv, Registered
<1>3. /\ st' = [st EXCEPT ![t] = "freed"] /\ socks' = [socks EXCEPT ![t] = FALSE]
      /\ UNCHANGED <<usb, opened, opener, pc, refs, kicked, toLoop, toIn>>
  BY DEF RegistrationRemove, RunDisconnects, device, pumps, queues
<1> HIDE DEF t
<1>4. st'[t] = "freed" /\ \A u \in T \ {t} : st'[u] = st[u]
  BY <1>0, <1>1, <1>3 DEF PlacesOK
<1>5. ~socks'[t] /\ \A u \in T \ {t} : socks'[u] = socks[u]
  BY <1>0, <1>1, <1>3, Zenon
<1>6. \A u \in T \ {t} : Same(u)
  BY <1>3, <1>4, <1>5 DEF Same
<1> QED BY <1>0, <1>1, <1>2, <1>3, <1>4, <1>5, <1>6

LEMMA RegisterMoves ==
    ASSUME Inv, RegisterUsb
    PROVE  /\ opened \in T /\ st[opened] = "none" /\ st'[opened] = "queued"
           /\ opener = "register" /\ opener' = "waiting" /\ usb = opened
           /\ regq' = Append(regq, [t |-> opened, add |-> TRUE])
           /\ UNCHANGED <<usb, opened, pc, refs, kicked, socks, toLoop, toIn>>
           /\ \A u \in T \ {opened} : Same(u)
<1>0. CountsOK /\ PlacesOK /\ Handled /\ \A u \in T : Owns(u)
  BY DEF Inv, Types
<1>1. /\ st' = [st EXCEPT ![opened] = "queued"]
      /\ opener = "register" /\ opener' = "waiting"
      /\ regq' = Append(regq, [t |-> opened, add |-> TRUE])
      /\ UNCHANGED <<usb, opened, pc, refs, kicked, socks, toLoop, toIn>>
  BY DEF RegisterUsb, RegisterTransport, pumps, queues
<1>2. opened \in T /\ usb = opened
  BY <1>0, <1>1, OpenedIsTransport DEF Handled
<1>3. st[opened] = "none"
  BY <1>0, <1>1, <1>2, Zenon DEF Owns
<1>4. st'[opened] = "queued" /\ \A u \in T \ {opened} : st'[u] = st[u]
  BY <1>0, <1>1, <1>2 DEF PlacesOK
<1>5. \A u \in T \ {opened} : Same(u)
  BY <1>1, <1>4 DEF Same
<1> QED BY <1>1, <1>2, <1>3, <1>4, <1>5

LEMMA OpenMoves ==
    ASSUME OpenDevice
    PROVE  /\ opener = "waiting" /\ opener' = "register" /\ usb = 0 /\ opened < MaxT
           /\ opened' = opened + 1 /\ usb' = opened + 1
           /\ UNCHANGED <<regq, st, pc, refs, kicked, socks, toLoop, toIn>>
           /\ \A u \in T : Same(u)
BY DEF OpenDevice, pumps, queues, Same

\* Every step keeps what is said of each transport.
LEMMA EachKeeps ==
    ASSUME Inv, [Next]_vars
    PROVE  \A u \in T : Life(u)' /\ Notice(u)'
<1> DEFINE G == \A u \in T : Life(u)' /\ Notice(u)'
<1>0. \A u \in T : Life(u) /\ Notice(u)
  BY DEF Inv
<1>1. CASE OpenDevice
  BY <1>0, <1>1, OpenMoves, SameKeeps
<1>2. CASE RegisterUsb
  <2>1. Life(opened)' /\ Notice(opened)'
    BY <1>0, <1>2, RegisterMoves, Zenon DEF Life, Notice, Told, Holds
  <2> QED BY <1>0, <1>2, <2>1, RegisterMoves, SameKeeps
<1>3. CASE RegistrationAdd
  <2>1. PICK t \in T :
             /\ st[t] = "queued" /\ st'[t] = "live" /\ refs'[t] = 2
             /\ pc'[t, "out"] = "sync" /\ pc'[t, "in"] = "read"
             /\ UNCHANGED <<usb, opened, opener, kicked, socks, toLoop, toIn>>
             /\ \A u \in T \ {t} : Same(u)
    BY <1>3, AddMoves, Zenon
  <2>2. Life(t)'
    BY <1>0, <2>1, Zenon DEF Life, Holds, Threads
  <2>3. ~socks[t] /\ toLoop[t] = <<>> /\ toIn[t] = <<>>
    BY <1>0, <2>1, Zenon DEF Life
  <2>4. Notice(t)'
    BY <2>1, <2>3, EmptyQueue, Zenon DEF Notice, Told, InPast, Past
  <2> QED BY <1>0, <2>1, <2>2, <2>4, SameKeeps, Zenon
<1>4. CASE RegistrationRemove
  <2>1. PICK t \in T :
             /\ st[t] = "leaving" /\ st'[t] = "freed" /\ ~socks'[t]
             /\ UNCHANGED <<usb, opened, opener, pc, refs, kicked, toLoop, toIn>>
             /\ \A u \in T \ {t} : Same(u)
    BY <1>4, RemoveMoves
  <2>2. Life(t)'
    BY <1>0, <2>1, Zenon DEF Life, Holds, Threads
  <2>3. Notice(t)'
    BY <1>0, <2>1, Zenon DEF Notice, Told
  <2> QED BY <1>0, <2>1, <2>2, <2>3, SameKeeps
<1>5. CASE UNCHANGED vars
  <2>1. \A u \in T : Same(u)
    BY <1>5 DEF vars, device, pumps, queues, Same
  <2> QED BY <1>0, <2>1, SameKeeps
<1>6. ASSUME NEW t \in T, Handle(t) \/ ServiceCloses(t) PROVE G
  BY <1>6, HandleKeeps, ServiceKeeps
<1>7. ASSUME NEW t \in T, OutSync(t) \/ OutEof(t) \/ FromHost(t) PROVE G
  BY <1>7, OutputKeeps, Zenon
<1>8. ASSUME NEW t \in T, InRead(t) \/ InWrite(t) \/ CloseAllSockets(t) PROVE G
  BY <1>8, InputKeeps, Zenon
<1>9. ASSUME NEW t \in T, NEW th \in Threads, Ending(t, th) PROVE G
  BY <1>9, EndingKeeps
<1> HIDE DEF G
<1>10. G
  BY <1>1, <1>2, <1>3, <1>4, <1>5, <1>6, <1>7, <1>8, <1>9
     DEF Next, Opener, Registration, Output, Input, Threads, G
<1> QED BY <1>10 DEF G

-----------------------------------------------------------------------------
(* The registration socket. *)
LEMMA RegqAbout == QueuesOK => \A i \in 1..Len(regq) : regq[i].t \in T
<1> DEFINE M == [t : T, add : BOOLEAN]
<1>1. \A m \in M : m.t \in T
  OBVIOUS
<1>2. QueuesOK => regq \in Seq(M)
  BY DEF QueuesOK
<1> HIDE DEF M
<1> QED BY <1>1, <1>2, ElementOfSeq

\* A message taken: the others are about other transports.
LEMMA RegisteredTail ==
    ASSUME Registered, \A i \in 1..Len(regq) : regq[i].t \in T,
           Len(regq) \in Nat, Len(regq') = Len(regq) - 1, 1 \in 1..Len(regq),
           \A i \in 1..Len(regq') : regq'[i] = regq[i + 1],
           NEW t \in T, t = regq[1].t, \A u \in T \ {t} : st'[u] = st[u]
    PROVE  Registered'
<1>1. ASSUME NEW i \in 1..Len(regq') PROVE i \in Int /\ i + 1 \in 1..Len(regq) /\ i + 1 # 1
  OBVIOUS
<1>2. ASSUME NEW i \in 1..Len(regq')
      PROVE  st'[regq'[i].t] = (IF regq'[i].add THEN "queued" ELSE "leaving")
  <2>1. regq'[i] = regq[i + 1] /\ i + 1 \in 1..Len(regq) /\ i + 1 # 1
    BY <1>1
  <2>2. regq[i + 1].t \in T \ {t}
    BY <2>1 DEF Registered
  <2>3. st[regq[i + 1].t] = (IF regq[i + 1].add THEN "queued" ELSE "leaving")
    BY <2>1 DEF Registered
  <2> QED BY <2>1, <2>2, <2>3
<1>3. ASSUME NEW i \in 1..Len(regq'), NEW j \in 1..Len(regq'), i # j
      PROVE  regq'[i].t # regq'[j].t
  <2>1. i + 1 \in 1..Len(regq) /\ j + 1 \in 1..Len(regq) /\ i + 1 # j + 1
    BY <1>1, <1>3
  <2>2. regq'[i] = regq[i + 1] /\ regq'[j] = regq[j + 1]
    OBVIOUS
  <2> QED BY <2>1, <2>2 DEF Registered
<1> QED BY <1>2, <1>3 DEF Registered

\* A message added, about a transport that none was about.
LEMMA RegisteredAppend ==
    ASSUME Registered, \A i \in 1..Len(regq) : regq[i].t \in T,
           Len(regq) \in Nat, Len(regq') = Len(regq) + 1,
           \A i \in 1..Len(regq) : regq'[i] = regq[i],
           NEW t \in T, regq'[Len(regq) + 1].t = t, st[t] \notin {"queued", "leaving"},
           st'[t] = (IF regq'[Len(regq) + 1].add THEN "queued" ELSE "leaving"),
           \A u \in T \ {t} : st'[u] = st[u]
    PROVE  Registered'
<1>1. \A i \in 1..Len(regq) : regq'[i] = regq[i] /\ regq[i].t \in T \ {t}
  <2>1. \A i \in 1..Len(regq) : regq[i].t # t
    BY DEF Registered
  <2> QED BY <2>1
<1>2. ASSUME NEW i \in 1..Len(regq') PROVE i \in 1..Len(regq) \/ i = Len(regq) + 1
  OBVIOUS
<1>3. ASSUME NEW i \in 1..Len(regq')
      PROVE  st'[regq'[i].t] = (IF regq'[i].add THEN "queued" ELSE "leaving")
  <2>1. CASE i \in 1..Len(regq)
    <3>1. st[regq[i].t] = (IF regq[i].add THEN "queued" ELSE "leaving")
      BY <2>1 DEF Registered
    <3> QED BY <1>1, <2>1, <3>1
  <2>2. CASE i = Len(regq) + 1
    BY <2>2
  <2> QED BY <1>2, <2>1, <2>2
<1>4. ASSUME NEW i \in 1..Len(regq'), NEW j \in 1..Len(regq'), i # j
      PROVE  regq'[i].t # regq'[j].t
  <2>1. CASE i \in 1..Len(regq) /\ j \in 1..Len(regq)
    <3>1. regq[i].t # regq[j].t
      BY <1>4, <2>1 DEF Registered
    <3> QED BY <1>1, <2>1, <3>1
  <2>2. CASE i \in 1..Len(regq) /\ j = Len(regq) + 1
    BY <1>1, <2>2
  <2>3. CASE i = Len(regq) + 1 /\ j \in 1..Len(regq)
    BY <1>1, <2>3
  <2> QED BY <1>2, <1>4, <2>1, <2>2, <2>3
<1> QED BY <1>3, <1>4 DEF Registered

LEMMA RegisteredKeeps ==
    ASSUME Inv, [Next]_vars
    PROVE  Registered'
<1>0. /\ QueuesOK /\ PlacesOK /\ Registered
      /\ \A i \in 1..Len(regq) : regq[i].t \in T
  BY RegqAbout DEF Inv, Types
<1>1. CASE UNCHANGED <<regq, st>>
  BY <1>0, <1>1 DEF Registered
<1>2. CASE RegisterUsb
  <2>1. /\ opened \in T /\ st[opened] = "none" /\ st'[opened] = "queued"
        /\ regq' = Append(regq, [t |-> opened, add |-> TRUE])
        /\ \A u \in T \ {opened} : st'[u] = st[u]
    BY <1>2, RegisterMoves DEF Same
  <2>2. /\ Len(regq) \in Nat /\ Len(regq') = Len(regq) + 1
        /\ \A i \in 1..Len(regq) : regq'[i] = regq[i]
        /\ regq'[Len(regq) + 1] = [t |-> opened, add |-> TRUE]
    BY <1>0, <2>1, EndOfRegq
  <2>3. regq'[Len(regq) + 1].t = opened /\ regq'[Len(regq) + 1].add
    BY <2>2
  <2> QED BY <1>0, <2>1, <2>2, <2>3, RegisteredAppend
<1>3. CASE Registration
  <2>1. PICK t \in T : /\ regq # <<>> /\ t = regq[1].t /\ regq' = Tail(regq)
                       /\ \A u \in T \ {t} : st'[u] = st[u]
    BY <1>3, AddMoves, RemoveMoves, Zenon DEF Registration, Same
  <2>2. /\ Len(regq) \in Nat /\ Len(regq') = Len(regq) - 1 /\ 1 \in 1..Len(regq)
        /\ \A i \in 1..Len(regq') : regq'[i] = regq[i + 1]
    BY <1>0, <2>1, HeadOfRegq
  <2> QED BY <1>0, <2>1, <2>2, RegisteredTail
<1>4. ASSUME NEW t \in T, NEW th \in Threads, Ending(t, th) PROVE Registered'
  <2>0. st[t] = "live"
    BY <1>4, EndingFrame, Zenon
  <2>1. UNCHANGED <<regq, st>> \/ RemoveTransport(t)
    BY <1>4, EndingMoves, Zenon
  <2>2. CASE RemoveTransport(t)
    <3>1. /\ st'[t] = "leaving" /\ \A u \in T \ {t} : st'[u] = st[u]
          /\ regq' = Append(regq, [t |-> t, add |-> FALSE])
      BY <1>0, <2>2 DEF PlacesOK, RemoveTransport
    <3>2. /\ Len(regq) \in Nat /\ Len(regq') = Len(regq) + 1
          /\ \A i \in 1..Len(regq) : regq'[i] = regq[i]
          /\ regq'[Len(regq) + 1] = [t |-> t, add |-> FALSE]
      BY <1>0, <3>1, EndOfRegq
    <3>3. regq'[Len(regq) + 1].t = t /\ ~regq'[Len(regq) + 1].add
      BY <3>2
    <3> QED BY <1>0, <2>0, <3>1, <3>2, <3>3, RegisteredAppend
  <2> QED BY <1>1, <2>1, <2>2
<1>5. ASSUME NEW t \in T, Handle(t) \/ ServiceCloses(t) PROVE UNCHANGED <<regq, st>>
  BY <1>5, HandleMoves, ServiceKeeps DEF Inv
<1>6. ASSUME NEW t \in T, \/ OutSync(t) \/ OutEof(t) \/ FromHost(t)
                          \/ InRead(t) \/ InWrite(t) \/ CloseAllSockets(t)
      PROVE  UNCHANGED <<regq, st>>
  BY <1>6, OutputKeeps, InputKeeps, Zenon
<1>7. OpenDevice \/ UNCHANGED vars => UNCHANGED <<regq, st>>
  BY OpenMoves DEF vars
<1> QED BY <1>1, <1>2, <1>3, <1>4, <1>5, <1>6, <1>7
        DEF Next, Opener, Output, Input, Threads

-----------------------------------------------------------------------------
(* The device. *)
LEMMA OwnsKeeps ==
    ASSUME Inv, [Next]_vars
    PROVE  Handled' /\ \A u \in T : Owns(u)'
<1> DEFINE G == Handled' /\ \A u \in T : Owns(u)'
<1>0. CountsOK /\ PlacesOK /\ Handled /\ \A u \in T : Owns(u) /\ Life(u) /\ Notice(u)
  BY DEF Inv, Types
<1>1. CASE OpenDevice
  <2>1. Handled'
    BY <1>1, OpenMoves DEF Handled
  <2>2. ASSUME NEW u \in T PROVE Owns(u)'
    <3>1. CASE u <= opened
      <4>0. u # usb /\ ~(u > opened) /\ opener # "register"
        BY <1>0, <1>1, <3>1, OpenMoves DEF T, CountsOK
      <4>1. /\ kicked[u] /\ pc[u, "out"] \in Past
            /\ pc[u, "out"] # "close" /\ pc[u, "in"] # "close"
        BY <1>0, <3>1, <4>0, Zenon DEF Owns
      <4>2. st[u] # "none"
        BY <1>0, <4>0, Zenon DEF Owns
      <4>3. ~(u > opened') /\ u # opened' /\ u # usb'
        BY <1>0, <1>1, <3>1, OpenMoves DEF T, CountsOK
      <4> QED BY <1>1, <4>1, <4>2, <4>3, OpenMoves, Zenon DEF Owns
    <3>2. CASE u > opened
      <4>1. st[u] = "none"
        BY <1>0, <3>2, Zenon DEF Owns
      <4>2. ~kicked[u] /\ pc[u, "out"] = "none" /\ pc[u, "in"] = "none"
        BY <1>0, <4>1, Zenon DEF Life
      <4>3. u > opened' \/ u = opened'
        BY <1>0, <1>1, <3>2, OpenMoves DEF T, CountsOK
      <4>4. u <= opened' => u = usb'
        BY <1>0, <1>1, <3>2, OpenMoves DEF T, CountsOK
      <4> QED BY <1>1, <4>1, <4>2, <4>3, <4>4, OpenMoves, Zenon DEF Owns
    <3> QED BY <1>0, <3>1, <3>2 DEF T, CountsOK
  <2> QED BY <2>1, <2>2
<1>2. CASE UNCHANGED <<usb, opened, opener, st, kicked, pc>>
  BY <1>0, <1>2, Zenon DEF Handled, Owns
<1>3. CASE RegisterUsb
  <2>1. Handled'
    BY <1>0, <1>3, RegisterMoves DEF Handled
  <2>2. ASSUME NEW u \in T, u = opened PROVE Owns(u)'
    <3>1. ~(u > opened)
      BY <1>0, <2>2 DEF CountsOK
    <3> QED BY <1>0, <1>3, <2>2, <3>1, RegisterMoves, Zenon DEF Owns
  <2>3. ASSUME NEW u \in T \ {opened} PROVE Owns(u)'
    <3>1. /\ Same(u) /\ UNCHANGED <<usb, opened>> /\ u # opened /\ u # usb
      BY <1>3, RegisterMoves
    <3> QED BY <1>0, <3>1, Zenon DEF Owns, Same
  <2> QED BY <2>1, <2>2, <2>3
<1>4. ASSUME NEW t \in T, UNCHANGED <<usb, opened, opener>>,
             \A u \in T \ {t} : Same(u), Owns(t)'
      PROVE  G
  <2>1. Handled'
    BY <1>0, <1>4 DEF Handled
  <2> QED BY <1>0, <1>4, <2>1, SameOwns
<1>5. CASE RegistrationAdd
  <2>1. PICK t \in T :
             /\ st[t] = "queued" /\ st'[t] = "live"
             /\ pc'[t, "out"] = "sync" /\ pc'[t, "in"] = "read"
             /\ UNCHANGED <<usb, opened, opener, kicked>>
             /\ \A u \in T \ {t} : Same(u)
    BY <1>5, AddMoves, Zenon
  <2>2. ~kicked[t]
    BY <1>0, <2>1, Zenon DEF Life
  <2>3. Owns(t)'
    BY <1>0, <2>1, <2>2, Zenon DEF Owns
  <2> QED BY <1>4, <2>1, <2>3, Zenon
<1>6. CASE RegistrationRemove
  <2>1. PICK t \in T :
             /\ st[t] = "leaving" /\ st'[t] = "freed"
             /\ UNCHANGED <<usb, opened, opener, pc, kicked>>
             /\ \A u \in T \ {t} : Same(u)
    BY <1>6, RemoveMoves
  <2>2. Owns(t)'
    BY <1>0, <2>1, Zenon DEF Owns
  <2> QED BY <1>4, <2>1, <2>2
<1>7. ASSUME NEW t \in T, Handle(t) \/ ServiceCloses(t) PROVE G
  BY <1>2, <1>7, HandleMoves, ServiceKeeps DEF Inv
<1>8. ASSUME NEW t \in T, OutSync(t) \/ OutEof(t) \/ FromHost(t) PROVE G
  <2>1. /\ UNCHANGED <<usb, opened, opener, st, kicked>> /\ \A u \in T \ {t} : Same(u)
        /\ pc[t, "out"] \in {"sync", "read", "eof"}
        /\ pc'[t, "out"] \in {"read", "eof", "kick"} /\ pc'[t, "in"] = pc[t, "in"]
    BY <1>8, OutputKeeps, Zenon
  <2>2. Owns(t)'
    BY <1>0, <2>1, Zenon DEF Owns, Past
  <2> QED BY <1>4, <2>1, <2>2, Zenon
<1>9. ASSUME NEW t \in T, InRead(t) \/ InWrite(t) \/ CloseAllSockets(t) PROVE G
  <2>1. /\ UNCHANGED <<usb, opened, opener, st, kicked>> /\ \A u \in T \ {t} : Same(u)
        /\ pc[t, "in"] \in {"read", "write", "closeall"}
        /\ pc'[t, "in"] \in {"read", "write", "closeall", "kick"}
        /\ pc'[t, "out"] = pc[t, "out"]
    BY <1>9, InputKeeps, Zenon
  <2>2. Owns(t)'
    BY <1>0, <2>1, Zenon DEF Owns
  <2> QED BY <1>4, <2>1, <2>2, Zenon
<1>10. ASSUME NEW t \in T, NEW th \in Threads, Ending(t, th) PROVE G
  <2>1. PICK h \in Threads : (th = "out" /\ h = "in") \/ (th = "in" /\ h = "out")
    BY DEF Threads
  <2>2. st[t] = "live" /\ UNCHANGED <<opened, opener>> /\ \A u \in T \ {t} : Same(u)
    BY <1>10, EndingFrame, Zenon
  <2>3. pc'[t, h] = pc[t, h]
    <3>1. \A x \in Threads \ {th} : pc'[t, x] = pc[t, x]
      BY <1>10, EndingFrame, Zenon
    <3> QED BY <2>1, <3>1, Zenon
  <2>4. t <= opened /\ ~(t = opened /\ opener = "register")
    <3>1. ~(t > opened) /\ ~(t = opened /\ opener = "register")
      BY <1>0, <2>2, Zenon DEF Owns
    <3> QED BY <1>0, <3>1 DEF CountsOK, T
  <2>5. st'[t] # "none"
    <3>1. st' = st \/ RemoveTransport(t)
      BY <1>10, EndingMoves, Zenon
    <3> QED BY <1>0, <2>2, <3>1 DEF RemoveTransport, PlacesOK
  <2>6. CASE pc[t, th] # "close" /\ pc'[t, th] # "close"
    <3>1. usb' = usb /\ (kicked'[t] <=> kicked[t])
      BY <1>10, <2>6, EndingMoves, Zenon
    <3>0. pc[t, th] \in Past /\ pc'[t, th] \in Past
      BY <1>10, <2>6, EndingMoves, Zenon DEF Past
    <3>2. Owns(t)'
      BY <1>0, <2>1, <2>2, <2>3, <2>4, <2>5, <2>6, <3>0, <3>1, Zenon DEF Owns
    <3> QED BY <1>4, <2>2, <3>1, <3>2
  <2>7. CASE pc'[t, th] = "close"
    <3>1. /\ usb' = usb /\ ~kicked[t] /\ kicked'[t]
      BY <1>10, <2>7, EndingMoves, Zenon
    <3>2. pc[t, h] # "close" /\ usb = t
      BY <1>0, <2>4, <3>1, Zenon DEF Life, Owns
    <3>3. Owns(t)'
      BY <1>0, <2>1, <2>2, <2>3, <2>4, <2>5, <2>7, <3>1, <3>2, Zenon DEF Owns
    <3> QED BY <1>4, <2>2, <3>1, <3>3
  <2>8. CASE pc[t, th] = "close"
    <3>1. usb' = 0 /\ kicked' = kicked /\ pc'[t, th] = "unref"
      BY <1>10, <2>8, EndingMoves, Zenon
    <3>2. usb = t /\ kicked[t] /\ pc[t, h] # "close"
      BY <1>0, <2>1, <2>4, <2>8, Zenon DEF Owns
    <3>3. pc'[t, "out"] \in Past
      <4>1. CASE th = "out"
        BY <3>1, <4>1, Zenon DEF Past
      <4>2. CASE th = "in"
        BY <1>0, <2>1, <2>3, <2>8, <4>2, Zenon DEF Notice, Told, InPast, Past
      <4> QED BY <2>1, <4>1, <4>2, Zenon
    <3>4. \A u \in T : u # 0
      BY DEF T
    <3>5. Owns(t)'
      BY <1>0, <2>1, <2>2, <2>3, <2>4, <2>5, <3>1, <3>2, <3>3, <3>4, Zenon DEF Owns
    <3>6. ASSUME NEW u \in T \ {t} PROVE Owns(u)'
      <4>1. Owns(u) /\ Same(u) /\ u # usb /\ u # usb'
        BY <1>0, <2>2, <3>1, <3>2, <3>4, Zenon
      <4> QED BY <2>2, <4>1, Zenon DEF Owns, Same
    <3>7. Handled'
      BY <1>0, <2>2, <2>4, <3>1, <3>2, Zenon DEF Handled
    <3> QED BY <3>5, <3>6, <3>7
  <2> QED BY <2>6, <2>7, <2>8, Zenon
<1> HIDE DEF G
<1>11. G
  <2>1. UNCHANGED vars => UNCHANGED <<usb, opened, opener, st, kicked, pc>>
    BY DEF vars, device, pumps
  <2> QED BY <1>1, <1>2, <1>3, <1>5, <1>6, <1>7, <1>8, <1>9, <1>10, <2>1
          DEF Next, Opener, Registration, Output, Input, Threads, G
<1> QED BY <1>11 DEF G

-----------------------------------------------------------------------------
(* The invariant, and what follows from it. *)
LEMMA InvInit == Init => Inv
<1> SUFFICES ASSUME Init PROVE Inv
  OBVIOUS
<1>1. CountsOK
  BY Bounds DEF Init, CountsOK
<1>2. FlagsOK
  BY Zenon DEF Init, FlagsOK
<1>3. QueuesOK
  BY EmptySeq DEF Init, QueuesOK
<1>4. PlacesOK
  BY DEF Init, PlacesOK, PCs
<1>5. Registered
  <2>1. Len(regq) = 0
    BY EmptySeq DEF Init
  <2>2. \A i \in 1..0 : FALSE
    OBVIOUS
  <2> QED BY <2>1, <2>2 DEF Registered
<1>6. Handled
  BY DEF Init, Handled
<1>7. ASSUME NEW t \in T PROVE Life(t) /\ Notice(t) /\ Owns(t)
  <2>1. /\ st[t] = "none" /\ refs[t] = 0 /\ ~kicked[t] /\ ~socks[t]
        /\ toLoop[t] = <<>> /\ toIn[t] = <<>>
    BY DEF Init
  <2>2. pc[t, "out"] = "none" /\ pc[t, "in"] = "none"
    BY Zenon DEF Init, Threads
  <2>3. t > opened /\ ~(t <= opened) /\ t # usb
    <3>1. opened = 0 /\ usb = 0
      BY DEF Init
    <3> QED BY <3>1, Bounds DEF T
  <2>4. Life(t)
    BY <2>1, <2>2, Zenon DEF Life, Holds, Threads
  <2>5. Notice(t)
    BY <2>1, <2>2, EmptyQueue, Zenon DEF Notice, Told, InPast, Past
  <2>6. Owns(t)
    BY <2>1, <2>3, Zenon DEF Owns
  <2> QED BY <2>4, <2>5, <2>6
<1> QED BY <1>1, <1>2, <1>3, <1>4, <1>5, <1>6, <1>7 DEF Inv, Types

LEMMA InvStep == Inv /\ [Next]_vars => Inv'
<1> SUFFICES ASSUME Inv, [Next]_vars PROVE Inv'
  OBVIOUS
<1>1. Types'
  BY CountsStep, FlagsStep, QueuesStep, PlacesStep DEF Inv, Types
<1>2. \A t \in T : Life(t)' /\ Notice(t)'
  BY EachKeeps
<1>3. Handled' /\ \A t \in T : Owns(t)'
  BY OwnsKeeps
<1>4. Registered'
  BY RegisteredKeeps
<1> QED BY <1>1, <1>2, <1>3, <1>4 DEF Inv

\* Every step of every thread of transport.c and usb_linux_client.c keeps the invariant.
THEOREM InvariantHolds == Spec => []Inv
BY InvInit, InvStep, PTL DEF Spec

LEMMA InvOwn == Inv => OwnDevice
<1> SUFFICES ASSUME Inv, NEW t \in T
             PROVE  /\ \A th \in Threads : pc[t, th] = "close" => usb = t
                    /\ pc[t, "out"] = "read" => usb = t
  BY Zenon DEF OwnDevice
<1>0. CountsOK /\ PlacesOK /\ Owns(t) /\ Life(t)
  BY DEF Inv, Types
<1>1. ASSUME pc[t, "out"] # "none" \/ pc[t, "in"] # "none" PROVE t <= opened
  <2>1. st[t] # "none"
    BY <1>0, <1>1, Zenon DEF Life
  <2>2. ~(t > opened)
    BY <1>0, <2>1, Zenon DEF Owns
  <2> QED BY <1>0, <2>2 DEF CountsOK, T
<1> QED BY <1>0, <1>1, Zenon DEF Owns, Past, Threads

LEMMA InvFreed == Inv => FreedUnused
<1> SUFFICES ASSUME Inv PROVE FreedUnused
  OBVIOUS
<1>0. Types /\ Registered /\ \A t \in T : Life(t) /\ Notice(t)
  BY DEF Inv
<1>1. TypeOK
  <2>0. \A t \in T : refs[t] = 0 \/ refs[t] = 1 \/ refs[t] = 2
    BY <1>0, Zenon DEF Life
  <2>1. \A t \in T : refs[t] \in 0..2
    BY <2>0
  <2>2. refs \in [T -> 0..2]
    BY <1>0, <2>1 DEF Types, PlacesOK
  <2> QED BY <1>0, <2>2 DEF Types, CountsOK, FlagsOK, QueuesOK, PlacesOK, TypeOK
<1>2. ASSUME NEW t \in T, st[t] \in {"leaving", "freed"}
      PROVE  /\ Running(t) = {} /\ refs[t] = 0
             /\ toLoop[t] = <<>> /\ toIn[t] = <<>>
             /\ st[t] = "freed" => \A i \in DOMAIN regq : regq[i].t # t
  <2>1. pc[t, "out"] = "gone" /\ pc[t, "in"] = "gone"
    BY <1>0, <1>2, Zenon DEF Life
  <2>2. Running(t) = {}
    BY <2>1, Zenon DEF Running, Threads
  <2>3. refs[t] = 0
    BY <1>0, <2>1, Zenon DEF Life, Holds
  <2>4. toLoop[t] = <<>> /\ toIn[t] = <<>>
    BY <1>0, <2>1, Zenon DEF Notice, Told, InPast, Past
  <2>5. DOMAIN regq = 1..Len(regq)
    BY <1>0, LenProperties DEF Types, QueuesOK
  <2>6. st[t] = "freed" => \A i \in DOMAIN regq : regq[i].t # t
    BY <1>0, <2>5 DEF Registered
  <2> QED BY <2>2, <2>3, <2>4, <2>6
<1> QED BY <1>1, <1>2 DEF FreedUnused

LEMMA InvSockets == Inv => NoSocketLeft
BY Zenon DEF Inv, Notice, Told, InPast, Past, NoSocketLeft

\* kick_transport, transport_unref, output_thread: a thread that is about to close the
\* device, or still reads it, has the opening of its own transport before it, in every
\* order of the steps of all threads.
THEOREM DeviceIsOwn == Spec => []OwnDevice
BY InvariantHolds, InvOwn, PTL

\* transport_registration_func: a transport is freed once, and by then both threads
\* have let it go and its sockets are empty.
THEOREM FreedIsUnused == Spec => []FreedUnused
BY InvariantHolds, InvFreed, PTL

\* input_thread, handle_offline: the event loop has closed every socket of a transport
\* before the input thread comes to close_all_sockets.
THEOREM SocketsAreClosed == Spec => []NoSocketLeft
BY InvariantHolds, InvSockets, PTL
=============================================================================
