--------------------------- MODULE WebsocketProofs ---------------------------
(***************************************************************************)
(* Proofs about WebsocketLibrary, for any set of sockets: the map never    *)
(* names a deleted socket; a worker that runs after its socket was deleted *)
(* has closed it itself; references name slots of the registry, and the    *)
(* slots of their own socket until some socket's are released twice; and   *)
(* only a reconnection leaves a connection open after close.               *)
(***************************************************************************)
EXTENDS WebsocketLibrary, TLAPS

\* The sockets that the map, the objects and the closing actors speak of.
ClosersTyped ==
    /\ DOMAIN closing = Actors
    /\ \A a \in Actors : closing[a] = NotClosing
                            \/ /\ closing[a].socket \in Sockets
                               /\ closing[a] = [at |-> closing[a].at,
                                                socket |-> closing[a].socket]

ObjectsTyped == websockets \subseteq Sockets /\ DOMAIN object = Sockets

MapInv == MapHoldsLiveSockets /\ ObjectsTyped /\ ClosersTyped

\* The steps that leave the map and the objects alone are all but two.
LEMMA CloserStepsTyped ==
    ASSUME ClosersTyped, NEW a \in Actors, NEW label,
           closing[a] # NotClosing, closing' = [closing EXCEPT ![a].at = label]
    PROVE  ClosersTyped'
  <1>1. DOMAIN closing' = Actors
    BY DEF ClosersTyped
  <1>2. ASSUME NEW b \in Actors
        PROVE  (closing[b] = NotClosing
                  \/ /\ closing[b].socket \in Sockets
                     /\ closing[b] = [at |-> closing[b].at, socket |-> closing[b].socket])'
    <2>1. CASE b = a
      <3>1. closing[a].socket \in Sockets
            /\ closing[a] = [at |-> closing[a].at, socket |-> closing[a].socket]
        BY DEF ClosersTyped
      <3>2. closing'[a] = [at |-> label, socket |-> closing[a].socket]
        BY <3>1 DEF ClosersTyped
      <3> QED
        BY <2>1, <3>1, <3>2
    <2>2. CASE b # a
      BY <2>2 DEF ClosersTyped
    <2> QED
      BY <2>1, <2>2
  <1> QED
    BY <1>1, <1>2 DEF ClosersTyped

LEMMA MapInvInit == WebsocketInit => MapInv
  BY DEF WebsocketInit, MapInv, MapHoldsLiveSockets, ObjectsTyped, ClosersTyped

LEMMA MapInvStep == MapInv /\ [WebsocketNext]_websocketVars => MapInv'
  <1> SUFFICES ASSUME MapInv, [WebsocketNext]_websocketVars
               PROVE  MapInv'
    OBVIOUS
  <1> USE DEF MapInv
  <1>1. ASSUME NEW s \in Sockets, initialize_socket(s)
        PROVE  MapInv'
    BY <1>1 DEF initialize_socket, MapHoldsLiveSockets, ObjectsTyped, ClosersTyped
  <1>2. ASSUME NEW a \in Actors, NEW s \in Sockets, close(a, s)
        PROVE  MapInv'
    <2>1. closing' = [closing EXCEPT ![a] = [at |-> "stop", socket |-> s]]
      BY <1>2 DEF close
    <2>2. ClosersTyped'
      BY <2>1 DEF ClosersTyped
    <2> QED
      BY <1>2, <2>2 DEF close, socketVars, MapHoldsLiveSockets, ObjectsTyped
  <1>3. ASSUME NEW a \in Actors, NEW label, CloseAt(a, label), label # "none",
               closing' = [closing EXCEPT ![a] = NotClosing]
                 \/ \E next : closing' = [closing EXCEPT ![a].at = next]
        PROVE  ClosersTyped' /\ closing[a].socket \in Sockets
    <2>1. closing[a] # NotClosing
      BY <1>3 DEF CloseAt, NotClosing
    <2>2. closing[a].socket \in Sockets
      BY <2>1 DEF ClosersTyped
    <2>3. CASE closing' = [closing EXCEPT ![a] = NotClosing]
      BY <2>2, <2>3 DEF ClosersTyped
    <2>4. CASE \E next : closing' = [closing EXCEPT ![a].at = next]
      <3>1. PICK next : closing' = [closing EXCEPT ![a].at = next]
        BY <2>4
      <3> QED
        BY <2>1, <2>2, <3>1, CloserStepsTyped
    <2> QED
      BY <1>3, <2>3, <2>4
  <1>4. ASSUME NEW a \in Actors, StopConnection(a) \/ StopWake(a) \/ StopFlag(a) \/ StopJoin(a)
        PROVE  MapInv'
    <2>1. UNCHANGED socketVars
      BY <1>4 DEF StopConnection, StopWake, StopFlag, StopJoin
    <2>2. ClosersTyped'
      <3>1. CASE StopConnection(a)
        BY <3>1, <1>3 DEF StopConnection, CloseGoto
      <3>2. CASE StopWake(a)
        BY <3>2, <1>3 DEF StopWake, CloseGoto
      <3>3. CASE StopFlag(a)
        BY <3>3, <1>3 DEF StopFlag, CloseGoto
      <3>4. CASE StopJoin(a)
        BY <3>4, <1>3 DEF StopJoin, CloseGoto
      <3> QED
        BY <1>4, <3>1, <3>2, <3>3, <3>4
    <2> QED
      BY <2>1, <2>2 DEF socketVars, MapHoldsLiveSockets, ObjectsTyped
  <1>5. ASSUME NEW a \in Actors, CloseRelease(a)
        PROVE  MapInv'
    <2>1. ClosersTyped' /\ closing[a].socket \in Sockets
      BY <1>3, <1>5 DEF CloseRelease
    <2> QED
      BY <1>5, <2>1 DEF CloseRelease, EntryErased, MapHoldsLiveSockets, ObjectsTyped
  <1>6. ASSUME UNCHANGED <<websockets, object, closing>>
        PROVE  MapInv'
    BY <1>6 DEF MapHoldsLiveSockets, ObjectsTyped, ClosersTyped
  <1>7. CASE Connected \/ ConnectFails
    BY <1>6, <1>7 DEF Connected, ConnectFails, socketVars
  <1>8. ASSUME NEW s \in Sockets, send(s) \/ WorkerAction(s) \/ WorkerUsesFreed(s)
        PROVE  MapInv'
    <2>1. UNCHANGED <<socketVars, closing>>
      BY <1>8 DEF send, WorkerAction, WorkerUsesFreed, Terminate, CheckConnection,
                  StartReconnect, Reconnect, ReconnectFails, Run, PollNothing, PollMessage,
                  Fire, HandlerReturns, PollClosed, CallbackReleases, SetClosed
    <2> QED
      BY <1>6, <2>1 DEF socketVars
  <1>9. ASSUME NEW a \in Actors, CloseUsesFreed(a)
        PROVE  MapInv'
    BY <1>6, <1>9 DEF CloseUsesFreed, Terminate, socketVars
  <1>10. CASE UNCHANGED websocketVars
    BY <1>6, <1>10 DEF websocketVars, socketVars
  <1> QED
    BY <1>1, <1>2, <1>4, <1>5, <1>7, <1>8, <1>9, <1>10
       DEF WebsocketNext, ConnectAction, CloseStep

\* Whoever looks a socket up in the map websockets finds one that close has not
\* deleted, however connects, closes and workers interleave.
THEOREM MapIsRight == WebsocketSpec => []MapHoldsLiveSockets
  <1>1. MapInv => MapHoldsLiveSockets
    BY DEF MapInv
  <1> QED
    BY <1>1, MapInvInit, MapInvStep, PTL DEF WebsocketSpec

-----------------------------------------------------------------------------
(* Whoever closes a socket, its worker or another, waits before deleting.  *)

\* What scripts can close was made.
KnownSocketsExist ==
    /\ \A s \in held : object[s] # "none"
    /\ \A a \in Actors : closing[a] # NotClosing => object[closing[a].socket] # "none"

\* The socket being connected was made, and nobody can close it yet.
CallerIsFresh ==
    caller # NoSocket => /\ caller \in Sockets /\ object[caller] = "live"
                         /\ caller \notin held
                         /\ \A a \in Actors : closing[a].socket # caller

\* Past the join, the worker is over, or the closing actor is that worker.
JoinedWorkerIsDone ==
    \A a \in Actors : closing[a].at = "release" =>
        closing[a].socket = a \/ worker[closing[a].socket] = "done"

WorkerInv ==
    /\ WorkerUsesLiveSocket
    /\ KnownSocketsExist /\ CallerIsFresh /\ JoinedWorkerIsDone
    /\ ObjectsTyped /\ ClosersTyped /\ DOMAIN worker = Sockets

LEMMA WorkerInvInit == WebsocketInit => WorkerInv
  BY DEF WebsocketInit, WorkerInv, WorkerUsesLiveSocket, KnownSocketsExist,
     CallerIsFresh, JoinedWorkerIsDone, ObjectsTyped, ClosersTyped, NotClosing

\* A worker that moves is neither over nor does it end what was not running.
LEMMA WorkerMoves ==
    ASSUME WorkerInv, NEW s \in Sockets, NEW label, worker[s] \notin {"none", "done"},
           worker' = [worker EXCEPT ![s] = label],
           UNCHANGED <<socketVars, caller, closing>>
    PROVE  WorkerInv'
  <1>1. WorkerUsesLiveSocket'
    BY DEF WorkerInv, WorkerUsesLiveSocket, socketVars
  <1>2. JoinedWorkerIsDone'
    BY DEF WorkerInv, JoinedWorkerIsDone
  <1> QED
    BY <1>1, <1>2 DEF WorkerInv, KnownSocketsExist, CallerIsFresh, ObjectsTyped,
                      ClosersTyped, socketVars

LEMMA WorkerInvStep == WorkerInv /\ [WebsocketNext]_websocketVars => WorkerInv'
  <1> SUFFICES ASSUME WorkerInv, [WebsocketNext]_websocketVars
               PROVE  WorkerInv'
    OBVIOUS
  <1>2. VM \in Actors /\ VM \notin Sockets /\ Sockets \subseteq Actors
    BY VMAssumption DEF Actors
  <1>3. ASSUME UNCHANGED <<socketVars, worker, caller, closing>>
        PROVE  WorkerInv'
    BY <1>3 DEF WorkerInv, WorkerUsesLiveSocket, KnownSocketsExist, CallerIsFresh,
                JoinedWorkerIsDone, ObjectsTyped, ClosersTyped, socketVars
  <1>4. ASSUME NEW s \in Sockets, initialize_socket(s)
        PROVE  WorkerInv'
    <2>1. /\ object[s] = "none" /\ s \notin held
          /\ \A a \in Actors : closing[a].socket # s \/ closing[a] = NotClosing
      BY <1>4 DEF initialize_socket, WorkerInv, KnownSocketsExist
    <2>2. CallerIsFresh'
      BY <1>4, <2>1 DEF initialize_socket, CallerIsFresh, WorkerInv, ObjectsTyped, NotClosing
    <2> QED
      BY <1>4, <2>1, <2>2 DEF initialize_socket, WorkerInv, WorkerUsesLiveSocket,
                KnownSocketsExist, JoinedWorkerIsDone, ObjectsTyped, ClosersTyped
  <1>5. CASE Connected
    <2>1. caller \in Sockets /\ object[caller] = "live"
          /\ \A a \in Actors : closing[a].socket # caller
      BY <1>5 DEF Connected, WorkerInv, CallerIsFresh
    <2>2. JoinedWorkerIsDone'
      BY <1>5, <2>1 DEF Connected, WorkerInv, JoinedWorkerIsDone
    <2> QED
      BY <1>5, <2>1, <2>2 DEF Connected, WorkerInv, WorkerUsesLiveSocket,
                KnownSocketsExist, CallerIsFresh, ObjectsTyped, ClosersTyped
  <1>6. CASE ConnectFails
    BY <1>6 DEF ConnectFails, socketVars, WorkerInv, WorkerUsesLiveSocket,
                KnownSocketsExist, CallerIsFresh, JoinedWorkerIsDone, ObjectsTyped, ClosersTyped
  <1>7. ASSUME NEW s \in Sockets, WorkerAction(s)
        PROVE  WorkerInv'
    <2>1. worker[s] \notin {"none", "done"}
      BY <1>7 DEF WorkerAction, WorkerAt, CheckConnection, StartReconnect, Reconnect,
                  ReconnectFails, Run, PollNothing, PollMessage, HandlerReturns, PollClosed,
                  CallbackReleases, SetClosed
    <2>2. /\ UNCHANGED <<socketVars, caller, closing>>
          /\ UNCHANGED worker \/ \E label : worker' = [worker EXCEPT ![s] = label]
      BY <1>7 DEF WorkerAction, WorkerGoto, Terminate, CheckConnection, StartReconnect,
                  Reconnect, ReconnectFails, Run, PollNothing, PollMessage, Fire,
                  HandlerReturns, PollClosed, CallbackReleases, SetClosed
    <2> QED
      BY <1>3, <2>1, <2>2, WorkerMoves
  <1>8. ASSUME NEW s \in Sockets, send(s) \/ WorkerUsesFreed(s)
        PROVE  WorkerInv'
    BY <1>3, <1>8 DEF send, WorkerUsesFreed, Terminate
  <1>9. ASSUME NEW a \in Actors, NEW s \in Sockets, close(a, s)
        PROVE  WorkerInv'
    <2>1. /\ s \in held /\ closing' = [closing EXCEPT ![a] = [at |-> "stop", socket |-> s]]
          /\ UNCHANGED <<socketVars, worker, caller>>
      BY <1>9 DEF close
    <2>2. ClosersTyped' /\ KnownSocketsExist'
      BY <2>1 DEF WorkerInv, ClosersTyped, KnownSocketsExist, socketVars
    <2>3. CallerIsFresh' /\ JoinedWorkerIsDone'
      BY <2>1 DEF WorkerInv, ClosersTyped, CallerIsFresh, JoinedWorkerIsDone, socketVars
    <2> QED
      BY <2>1, <2>2, <2>3 DEF socketVars, WorkerInv, WorkerUsesLiveSocket, ObjectsTyped
  <1>10. ASSUME NEW a \in Actors,
                StopConnection(a) \/ StopWake(a) \/ StopFlag(a) \/ StopJoin(a)
         PROVE  WorkerInv'
    <2>1. closing[a] # NotClosing /\ UNCHANGED <<socketVars, worker, caller>>
      BY <1>10 DEF StopConnection, StopWake, StopFlag, StopJoin, CloseAt, NotClosing
    <2>2. PICK label : /\ closing' = [closing EXCEPT ![a].at = label]
                       /\ label = "release" => \/ closing[a].socket = a
                                               \/ worker[closing[a].socket] = "done"
      BY <1>10 DEF StopConnection, StopWake, StopFlag, StopJoin, CloseGoto
    <2>3. ClosersTyped'
      BY <2>1, <2>2, CloserStepsTyped DEF WorkerInv
    <2>4. /\ closing'[a].at = label
          /\ \A b \in Actors : /\ closing'[b].socket = closing[b].socket
                               /\ b # a => closing'[b] = closing[b]
      BY <2>1, <2>2 DEF WorkerInv, ClosersTyped
    <2>5. JoinedWorkerIsDone'
      BY <2>1, <2>2, <2>4 DEF WorkerInv, JoinedWorkerIsDone
    <2>6. KnownSocketsExist' /\ CallerIsFresh'
      BY <2>1, <2>4 DEF WorkerInv, KnownSocketsExist, CallerIsFresh, socketVars
    <2> QED
      BY <2>1, <2>3, <2>5, <2>6 DEF socketVars, WorkerInv, WorkerUsesLiveSocket, ObjectsTyped
  <1>11. ASSUME NEW a \in Actors, CloseRelease(a)
         PROVE  WorkerInv'
    <2> DEFINE s == closing[a].socket
    <2>1. /\ closing[a] # NotClosing /\ s \in Sockets
          /\ s = a \/ worker[s] = "done"
      BY <1>11 DEF CloseRelease, CloseAt, NotClosing, WorkerInv, ClosersTyped,
                   JoinedWorkerIsDone
    <2>2. /\ websockets' = websockets \ {s} /\ object' = [object EXCEPT ![s] = "deleted"]
          /\ selfClosed' = IF a = s THEN selfClosed \cup {s} ELSE selfClosed
          /\ closing' = [closing EXCEPT ![a] = NotClosing]
          /\ UNCHANGED <<held, worker, caller>>
      BY <1>11 DEF CloseRelease, EntryErased
    <2>3. WorkerUsesLiveSocket'
      BY <2>1, <2>2 DEF WorkerInv, WorkerUsesLiveSocket, ObjectsTyped
    <2>4. KnownSocketsExist' /\ ObjectsTyped' /\ ClosersTyped'
      BY <2>1, <2>2 DEF WorkerInv, KnownSocketsExist, ObjectsTyped, ClosersTyped
    <2>5. CallerIsFresh'
      BY <2>1, <2>2 DEF WorkerInv, CallerIsFresh, ClosersTyped, ObjectsTyped, NotClosing
    <2>6. JoinedWorkerIsDone'
      BY <2>1, <2>2 DEF WorkerInv, JoinedWorkerIsDone, ClosersTyped, NotClosing
    <2> QED
      BY <2>2, <2>3, <2>4, <2>5, <2>6 DEF WorkerInv
  <1>12. ASSUME NEW a \in Actors, CloseUsesFreed(a)
         PROVE  WorkerInv'
    BY <1>3, <1>12 DEF CloseUsesFreed, Terminate
  <1>13. CASE UNCHANGED websocketVars
    BY <1>3, <1>13 DEF websocketVars
  <1> QED
    BY <1>4, <1>5, <1>6, <1>7, <1>8, <1>9, <1>10, <1>11, <1>12, <1>13
       DEF WebsocketNext, ConnectAction, CloseStep

\* The callback's plain pointer to its socket is good, whoever calls close: it
\* has waited for the worker's end before it deletes, or it is that worker.
THEOREM WorkersAreOutlived == WebsocketSpec => []WorkerUsesLiveSocket
  <1>1. WorkerInv => WorkerUsesLiveSocket
    BY DEF WorkerInv
  <1> QED
    BY <1>1, WorkerInvInit, WorkerInvStep, PTL DEF WebsocketSpec

-----------------------------------------------------------------------------
(* Every reference names a slot of the registry.                           *)

Held  == [socket : Sockets, kind : Kinds \cup {"caller"}]
Slots == [holds : SUBSET Held, next : Nat]

\* The free list, circle or not, stays in the array.
RegistryOK(reg) ==
    /\ reg \in [slots : Seq(Slots), free : Nat]
    /\ reg.free <= Len(reg.slots)
    /\ \A i \in 1..Len(reg.slots) : reg.slots[i].next <= Len(reg.slots)

LEMMA NextIsNat == \A slot \in Slots : slot.next \in Nat
  BY DEF Slots

LEMMA RefOK ==
    ASSUME NEW reg, RegistryOK(reg), NEW v \in Held
    PROVE  /\ RegistryOK(lua_ref(reg, v))
           /\ Len(reg.slots) <= Len(lua_ref(reg, v).slots)
           /\ NextRef(reg) \in 1..Len(lua_ref(reg, v).slots)
  <1>1. /\ reg.slots \in Seq(Slots) /\ reg.free \in Nat /\ Len(reg.slots) \in Nat
        /\ Value(v) \in Slots /\ Value(v).next = 0
    BY DEF RegistryOK, Value, Slots
  <1>2. CASE reg.free # 0
    <2> DEFINE slots == [reg.slots EXCEPT ![reg.free] = Value(v)]
               free  == reg.slots[reg.free].next
    <2>1. reg.free \in 1..Len(reg.slots)
      BY <1>1, <1>2 DEF RegistryOK
    <2>2. /\ slots \in Seq(Slots) /\ Len(slots) = Len(reg.slots)
          /\ \A i \in 1..Len(reg.slots) : slots[i] = IF i = reg.free THEN Value(v)
                                                     ELSE reg.slots[i]
      BY <1>1, <2>1
    <2>3. free \in Nat /\ free <= Len(reg.slots)
      <3>1. reg.slots[reg.free] \in Slots
        BY <1>1, <2>1
      <3> QED
        BY <2>1, <3>1, NextIsNat DEF RegistryOK
    <2>4. \A i \in 1..Len(slots) : slots[i].next <= Len(slots)
      BY <1>1, <2>2 DEF RegistryOK
    <2>5. lua_ref(reg, v) = [slots |-> slots, free |-> free] /\ NextRef(reg) = reg.free
      BY <1>2 DEF lua_ref, NextRef
    <2> HIDE DEF slots, free
    <2> QED
      BY <1>1, <2>1, <2>2, <2>3, <2>4, <2>5 DEF RegistryOK
  <1>3. CASE reg.free = 0
    <2> DEFINE slots == Append(reg.slots, Value(v))
    <2>1. /\ slots \in Seq(Slots) /\ Len(slots) = Len(reg.slots) + 1
          /\ \A i \in 1..Len(slots) : slots[i] = IF i = Len(slots) THEN Value(v)
                                                 ELSE reg.slots[i]
      BY <1>1
    <2>2. \A i \in 1..Len(slots) : slots[i].next <= Len(slots)
      <3> SUFFICES ASSUME NEW i \in 1..Len(slots) PROVE slots[i].next <= Len(slots)
        OBVIOUS
      <3>1. CASE i = Len(slots)
        BY <1>1, <2>1, <3>1
      <3>2. CASE i # Len(slots)
        <4>1. i \in 1..Len(reg.slots) /\ slots[i] = reg.slots[i]
          BY <1>1, <2>1, <3>2
        <4>2. reg.slots[i].next \in Nat
          <5>1. reg.slots[i] \in Slots
            BY <1>1, <4>1
          <5> QED
            BY <5>1, NextIsNat
        <4> QED
          BY <1>1, <2>1, <4>1, <4>2 DEF RegistryOK
      <3> QED
        BY <3>1, <3>2
    <2>3. lua_ref(reg, v) = [slots |-> slots, free |-> 0]
      BY <1>3 DEF lua_ref, RegistryOK
    <2>4. NextRef(reg) = Len(slots)
      BY <1>3, <2>1 DEF NextRef
    <2> HIDE DEF slots
    <2> QED
      BY <1>1, <2>1, <2>2, <2>3, <2>4 DEF RegistryOK
  <1> QED
    BY <1>2, <1>3

LEMMA UnrefOK ==
    ASSUME NEW reg, RegistryOK(reg), NEW ref \in {-1} \cup 1..Len(reg.slots)
    PROVE  RegistryOK(lua_unref(reg, ref)) /\ Len(lua_unref(reg, ref).slots) = Len(reg.slots)
  <1>1. /\ reg.slots \in Seq(Slots) /\ reg.free \in Nat /\ Len(reg.slots) \in Nat
        /\ reg.free <= Len(reg.slots)
        /\ Link(reg.free) \in Slots /\ Link(reg.free).next = reg.free
    BY DEF RegistryOK, Link, Slots
  <1>2. CASE ref \in 1..Len(reg.slots)
    <2> DEFINE slots == [reg.slots EXCEPT ![ref] = Link(reg.free)]
    <2>1. /\ slots \in Seq(Slots) /\ Len(slots) = Len(reg.slots)
          /\ \A i \in 1..Len(reg.slots) : slots[i] = IF i = ref THEN Link(reg.free)
                                                     ELSE reg.slots[i]
      BY <1>1, <1>2
    <2>2. \A i \in 1..Len(slots) : slots[i].next <= Len(slots)
      BY <1>1, <2>1 DEF RegistryOK
    <2>3. lua_unref(reg, ref) = [slots |-> slots, free |-> ref]
      BY <1>1, <1>2 DEF lua_unref, NoRef
    <2> HIDE DEF slots
    <2> QED
      BY <1>1, <1>2, <2>1, <2>2, <2>3 DEF RegistryOK
  <1>3. CASE ref = -1
    BY <1>3 DEF lua_unref, NoRef
  <1> QED
    BY <1>2, <1>3

\* How far each actor is with the socket it closes.
Closings == {NotClosing} \cup
            [at : {"stop", "wake", "flag", "join", "release"}, socket : Sockets]

Workers == {"none", "check", "connecting", "run", "poll", "handler", "last handler",
            "closed", "done"}

\* Everything but the references.
ControlTyped ==
    /\ websockets \subseteq Sockets /\ held \subseteq Sockets /\ selfClosed \subseteq Sockets
    /\ object \in [Sockets -> {"none", "live", "deleted"}]
    /\ ready \in [Sockets -> {"closed", "open", "closing"}]
    /\ stopping \in [Sockets -> BOOLEAN]
    /\ worker \in [Sockets -> Workers]
    /\ caller \in Sockets \cup {NoSocket}
    /\ closing \in [Actors -> Closings]
    /\ terminated \in BOOLEAN

RefsTyped ==
    /\ refs \in [Sockets -> [Kinds -> {-1} \cup 1..Len(registry.slots)]]
    /\ released \in [Sockets -> Nat]
    /\ RegistryOK(registry)

LEMMA ControlTypedStep ==
    ControlTyped /\ [WebsocketNext]_websocketVars => ControlTyped'
  <1> SUFFICES ASSUME ControlTyped, [WebsocketNext]_websocketVars
               PROVE  ControlTyped'
    OBVIOUS
  <1> USE DEF ControlTyped, socketVars, linkVars
  <1>1. ASSUME NEW s \in Sockets, initialize_socket(s) PROVE ControlTyped'
    BY <1>1 DEF initialize_socket
  <1>2. CASE Connected
    BY <1>2 DEF Connected, Workers
  <1>3. CASE ConnectFails
    BY <1>3 DEF ConnectFails
  <1>4. ASSUME NEW s \in Sockets, send(s) \/ WorkerUsesFreed(s) PROVE ControlTyped'
    BY <1>4 DEF send, WorkerUsesFreed, Terminate
  <1>5. ASSUME NEW s \in Sockets, WorkerAction(s) PROVE ControlTyped'
    BY <1>5 DEF WorkerAction, WorkerGoto, Terminate, CheckConnection, StartReconnect,
                Reconnect, ReconnectFails, Run, PollNothing, PollMessage, Fire,
                HandlerReturns, PollClosed, CallbackReleases, SetClosed, Workers
  <1>6. ASSUME NEW a \in Actors, NEW s \in Sockets, close(a, s) PROVE ControlTyped'
    <2>1. [at |-> "stop", socket |-> s] \in Closings
      BY DEF Closings
    <2>2. closing' = [closing EXCEPT ![a] = [at |-> "stop", socket |-> s]]
      BY <1>6 DEF close
    <2>3. closing' \in [Actors -> Closings]
      BY <2>1, <2>2
    <2> QED
      BY <1>6, <2>3 DEF close
  <1>7. ASSUME NEW a \in Actors, CloseStep(a) PROVE ControlTyped'
    <2> DEFINE s == closing[a].socket
    <2>1. closing[a].at # "none"
      BY <1>7 DEF CloseStep, StopConnection, StopWake, StopFlag, StopJoin, CloseRelease,
                  CloseAt
    <2>2. s \in Sockets /\ closing[a] \in Closings \ {NotClosing}
      BY <2>1 DEF Closings, NotClosing
    <2>3. ASSUME NEW label \in {"stop", "wake", "flag", "join", "release"},
                 CloseGoto(a, label)
          PROVE  closing' \in [Actors -> Closings]
      <3>1. [closing[a] EXCEPT !.at = label] \in Closings
        BY <2>2 DEF Closings
      <3>2. closing' = [closing EXCEPT ![a] = [closing[a] EXCEPT !.at = label]]
        BY <2>3 DEF CloseGoto
      <3> QED
        BY <3>1, <3>2
    <2>4. CASE StopConnection(a)
      <3>1. closing' \in [Actors -> Closings]
        BY <2>3, <2>4 DEF StopConnection
      <3> QED
        BY <2>2, <2>4, <3>1 DEF StopConnection
    <2>5. CASE StopWake(a)
      <3>1. closing' \in [Actors -> Closings]
        BY <2>3, <2>5 DEF StopWake
      <3> QED
        BY <2>5, <3>1 DEF StopWake
    <2>6. CASE StopFlag(a)
      <3>1. closing' \in [Actors -> Closings]
        BY <2>3, <2>6 DEF StopFlag
      <3> QED
        BY <2>2, <2>6, <3>1 DEF StopFlag
    <2>7. CASE StopJoin(a)
      <3>1. closing' \in [Actors -> Closings]
        BY <2>3, <2>7 DEF StopJoin
      <3> QED
        BY <2>2, <2>7, <3>1 DEF StopJoin
    <2>8. CASE CloseRelease(a)
      <3>1. closing' \in [Actors -> Closings]
        BY <2>8 DEF CloseRelease, Closings
      <3> QED
        BY <2>2, <2>8, <3>1 DEF CloseRelease, EntryErased
    <2> QED
      BY <1>7, <2>4, <2>5, <2>6, <2>7, <2>8 DEF CloseStep
  <1>8. ASSUME NEW a \in Actors, CloseUsesFreed(a) PROVE ControlTyped'
    BY <1>8 DEF CloseUsesFreed, Terminate
  <1>9. CASE UNCHANGED websocketVars
    BY <1>9 DEF websocketVars
  <1> QED
    BY <1>1, <1>2, <1>3, <1>4, <1>5, <1>6, <1>7, <1>8, <1>9 DEF WebsocketNext, ConnectAction

LEMMA RefsSame == RefsTyped /\ UNCHANGED refVars => RefsTyped'
  BY DEF RefsTyped, refVars, RegistryOK

\* A release, the first or a later one.
LEMMA ReleaseTyped ==
    ASSUME RefsTyped, NEW s \in Sockets, registry' = Unreferenced(s),
           released' = [released EXCEPT ![s] = @ + 1], refs' = refs
    PROVE  RefsTyped'
  <1> DEFINE Names(reg) == RegistryOK(reg) /\ Len(reg.slots) = Len(registry.slots)
             after(reg, k) == lua_unref(reg, refs[s][k])
  <1>1. ASSUME NEW reg, Names(reg), NEW k \in Kinds PROVE Names(after(reg, k))
    <2>1. refs[s][k] \in {-1} \cup 1..Len(reg.slots)
      BY <1>1 DEF RefsTyped
    <2> QED
      BY <1>1, <2>1, UnrefOK
  <1>2. Names(registry)
    BY DEF RefsTyped
  <1> HIDE DEF Names, after
  <1>3. {"thread", "message", "close", "error"} \subseteq Kinds
    BY DEF Kinds
  <1>4. Names(after(registry, "close"))
    BY <1>1, <1>2, <1>3
  <1>5. Names(after(after(registry, "close"), "error"))
    BY <1>1, <1>3, <1>4
  <1>6. Names(after(after(after(registry, "close"), "error"), "message"))
    BY <1>1, <1>3, <1>5
  <1>7. Names(after(after(after(after(registry, "close"), "error"), "message"), "thread"))
    BY <1>1, <1>3, <1>6
  <1>8. Names(registry')
    BY <1>7 DEF Unreferenced, after
  <1>9. RegistryOK(registry)' /\ Len(registry'.slots) = Len(registry.slots)
    BY <1>8 DEF Names, RegistryOK
  <1> QED
    BY <1>9 DEF RefsTyped

\* More slots leave every reference what it was.
LEMMA RefsGrow ==
    ASSUME RefsTyped, NEW r, RegistryOK(r), Len(registry.slots) <= Len(r.slots),
           registry' = r, refs' = refs, released' = released
    PROVE  RefsTyped'
  <1>1. Len(registry.slots) \in Nat /\ Len(r.slots) \in Nat
    BY DEF RefsTyped, RegistryOK
  <1>2. {-1} \cup 1..Len(registry.slots) \subseteq {-1} \cup 1..Len(r.slots)
    BY <1>1
  <1>3. refs \in [Sockets -> [Kinds -> {-1} \cup 1..Len(r.slots)]]
    BY <1>2 DEF RefsTyped
  <1> QED
    BY <1>3 DEF RefsTyped, RegistryOK

LEMMA ReferencedTyped ==
    ASSUME RefsTyped, NEW s \in Sockets
    PROVE  /\ RegistryOK(Referenced(s).registry)
           /\ Len(registry.slots) <= Len(Referenced(s).registry.slots)
           /\ Referenced(s).refs \in [Kinds -> 1..Len(Referenced(s).registry.slots)]
  <1> DEFINE thread  == lua_ref(registry, Object(s, "thread"))
             message == lua_ref(thread, Object(s, "message"))
             closed  == lua_ref(message, Object(s, "close"))
             error   == lua_ref(closed, Object(s, "error"))
             n(reg)  == Len(reg.slots)
  <1>1. \A k \in Kinds : Object(s, k) \in Held
    BY DEF Object, Held
  <1>2. {"thread", "message", "close", "error"} \subseteq Kinds
    BY DEF Kinds
  <1>3. \A reg : RegistryOK(reg) => n(reg) \in Nat
    BY DEF RegistryOK
  <1>4. RegistryOK(registry)
    BY DEF RefsTyped
  <1>5. RegistryOK(thread) /\ n(registry) <= n(thread) /\ NextRef(registry) \in 1..n(thread)
    BY <1>1, <1>2, <1>4, RefOK
  <1> HIDE DEF thread
  <1>6. RegistryOK(message) /\ n(thread) <= n(message) /\ NextRef(thread) \in 1..n(message)
    BY <1>1, <1>2, <1>5, RefOK
  <1> HIDE DEF message
  <1>7. RegistryOK(closed) /\ n(message) <= n(closed) /\ NextRef(message) \in 1..n(closed)
    BY <1>1, <1>2, <1>6, RefOK
  <1> HIDE DEF closed
  <1>8. RegistryOK(error) /\ n(closed) <= n(error) /\ NextRef(closed) \in 1..n(error)
    BY <1>1, <1>2, <1>7, RefOK
  <1> HIDE DEF error
  <1>9. /\ n(registry) \in Nat /\ n(thread) \in Nat /\ n(message) \in Nat
        /\ n(closed) \in Nat /\ n(error) \in Nat
    BY <1>3, <1>4, <1>5, <1>6, <1>7, <1>8
  <1> HIDE DEF n
  <1>10. /\ n(registry) <= n(error)
         /\ NextRef(registry) \in 1..n(error) /\ NextRef(thread) \in 1..n(error)
         /\ NextRef(message) \in 1..n(error) /\ NextRef(closed) \in 1..n(error)
    BY <1>5, <1>6, <1>7, <1>8, <1>9
  <1> DEFINE names == [k \in Kinds |-> CASE k = "thread"  -> NextRef(registry)
                                         [] k = "message" -> NextRef(thread)
                                         [] k = "close"   -> NextRef(message)
                                         [] k = "error"   -> NextRef(closed)]
  <1>11. names \in [Kinds -> 1..n(error)]
    BY <1>10 DEF Kinds
  <1>12. Referenced(s) = [registry |-> error, refs |-> names]
    BY DEF Referenced, thread, message, closed, error
  <1> HIDE DEF names
  <1>13. Referenced(s).registry = error /\ Referenced(s).refs = names
    BY <1>12
  <1> QED
    BY <1>8, <1>10, <1>11, <1>13 DEF n

LEMMA RefsTypedStep ==
    ControlTyped /\ RefsTyped /\ [WebsocketNext]_websocketVars => RefsTyped'
  <1> SUFFICES ASSUME ControlTyped, RefsTyped, [WebsocketNext]_websocketVars
               PROVE  RefsTyped'
    OBVIOUS
  <1>1. ASSUME NEW s \in Sockets, initialize_socket(s) PROVE RefsTyped'
    <2> DEFINE done == Referenced(s)
               wide == {-1} \cup 1..Len(done.registry.slots)
    <2>1. /\ registry' = done.registry /\ refs' = [refs EXCEPT ![s] = done.refs]
          /\ released' = released
      BY <1>1 DEF initialize_socket
    <2>2. /\ RegistryOK(done.registry)
          /\ Len(registry.slots) <= Len(done.registry.slots)
          /\ done.refs \in [Kinds -> 1..Len(done.registry.slots)]
      BY ReferencedTyped
    <2>3. Len(registry.slots) \in Nat /\ Len(done.registry.slots) \in Nat
      BY <2>2 DEF RefsTyped, RegistryOK
    <2> HIDE DEF done
    <2>4. {-1} \cup 1..Len(registry.slots) \subseteq wide
      BY <2>2, <2>3
    <2>5. refs \in [Sockets -> [Kinds -> wide]] /\ done.refs \in [Kinds -> wide]
      BY <2>2, <2>4 DEF RefsTyped
    <2>6. refs' \in [Sockets -> [Kinds -> wide]]
      BY <2>1, <2>5
    <2>7. released' \in [Sockets -> Nat]
      BY <2>1 DEF RefsTyped
    <2>8. refs' \in [Sockets -> [Kinds -> {-1} \cup 1..Len(registry'.slots)]]
      BY <2>1, <2>6
    <2>9. RegistryOK(registry)'
      BY <2>1, <2>2 DEF RegistryOK
    <2> QED
      BY <2>7, <2>8, <2>9 DEF RefsTyped
  <1>2. CASE Connected
    <2> DEFINE r == lua_ref(registry, Object(caller, "caller"))
    <2>1. Object(caller, "caller") \in Held
      BY <1>2 DEF Connected, ControlTyped, Object, Held
    <2>2. RegistryOK(r) /\ Len(registry.slots) <= Len(r.slots)
      BY <2>1, RefOK DEF RefsTyped
    <2>3. registry' = r /\ refs' = refs /\ released' = released
      BY <1>2 DEF Connected
    <2> HIDE DEF r
    <2> QED
      BY <2>2, <2>3, RefsGrow
  <1>3. CASE ConnectFails
    BY <1>3, RefsSame DEF ConnectFails
  <1>4. ASSUME NEW s \in Sockets, send(s) \/ WorkerUsesFreed(s) PROVE RefsTyped'
    BY <1>4, RefsSame DEF send, WorkerUsesFreed, Terminate
  <1>5. ASSUME NEW s \in Sockets, WorkerAction(s) PROVE RefsTyped'
    <2>1. CASE CallbackReleases(s)
      BY <2>1, ReleaseTyped DEF CallbackReleases
    <2> QED
      BY <1>5, <2>1, RefsSame
         DEF WorkerAction, Terminate, CheckConnection, StartReconnect, Reconnect,
             ReconnectFails, Run, PollNothing, PollMessage, Fire, HandlerReturns,
             PollClosed, SetClosed, refVars
  <1>6. ASSUME NEW a \in Actors, NEW s \in Sockets, close(a, s) PROVE RefsTyped'
    BY <1>6, RefsSame DEF close
  <1>7. ASSUME NEW a \in Actors, CloseStep(a) PROVE RefsTyped'
    <2>1. CASE CloseRelease(a)
      <3>1. closing[a].at # "none"
        BY <2>1 DEF CloseRelease, CloseAt
      <3>2. closing[a].socket \in Sockets
        BY <3>1 DEF ControlTyped, Closings, NotClosing
      <3> QED
        BY <2>1, <3>2, ReleaseTyped DEF CloseRelease
    <2> QED
      BY <1>7, <2>1, RefsSame DEF CloseStep, StopConnection, StopWake, StopFlag, StopJoin
  <1>8. ASSUME NEW a \in Actors, CloseUsesFreed(a) PROVE RefsTyped'
    BY <1>8, RefsSame DEF CloseUsesFreed, Terminate
  <1>9. CASE UNCHANGED websocketVars
    BY <1>9, RefsSame DEF websocketVars
  <1> QED
    BY <1>1, <1>2, <1>3, <1>4, <1>5, <1>6, <1>7, <1>8, <1>9 DEF WebsocketNext, ConnectAction

LEMMA ControlTypedInit == WebsocketInit => ControlTyped /\ RefsTyped
  <1> SUFFICES ASSUME WebsocketInit PROVE ControlTyped /\ RefsTyped
    OBVIOUS
  <1>1. RegistryOK(registry)
    BY DEF WebsocketInit, NoReferences, RegistryOK
  <1> QED
    BY <1>1 DEF WebsocketInit, ControlTyped, Workers, Closings, RefsTyped, NoRefs

\* However often the callback and close release the references of a socket, and
\* whatever circles that makes of the registry's free list, every reference
\* names a slot of the array, and so does its free list: lua_ref never writes
\* outside.  And every variable keeps to its values.
THEOREM WebsocketTypeCorrect == WebsocketSpec => []WebsocketTypeOK
  <1>1. ControlTyped /\ RefsTyped => WebsocketTypeOK
    <2> SUFFICES ASSUME ControlTyped, RefsTyped PROVE WebsocketTypeOK
      OBVIOUS
    <2>1. registry.free \in 0..Len(registry.slots)
      BY DEF RefsTyped, RegistryOK
    <2>2. \A a \in Actors : closing[a] = NotClosing
                \/ /\ closing[a].at \in {"stop", "wake", "flag", "join", "release"}
                   /\ closing[a].socket \in Sockets
      BY DEF ControlTyped, Closings
    <2> QED
      BY <2>1, <2>2 DEF ControlTyped, RefsTyped, Workers, WebsocketTypeOK
  <1> QED
    BY <1>1, ControlTypedInit, ControlTypedStep, RefsTypedStep, PTL DEF WebsocketSpec

-----------------------------------------------------------------------------
(* A connection that outlives its socket was made by a reconnection.       *)

\* The callback has reported an end of the connection of s: its release is there
\* besides the one of the close that deleted s.
Reported(s) == released[s] >= 1 /\ (object[s] = "deleted" => released[s] >= 2)

\* Past "stop", the connection that was open when close was called is not any
\* more; one that is open was made since.
ReportedInv ==
    /\ \A s \in Sockets :
         /\ object[s] = "deleted" => released[s] >= 1
         /\ worker[s] \in {"connecting", "closed"} => Reported(s)
         /\ worker[s] # "none" /\ ready[s] = "closed" => Reported(s)
         /\ object[s] = "deleted" /\ ready[s] = "open" => Reported(s)
    /\ \A a \in Actors :
         closing[a].at \notin {"none", "stop"} /\ ready[closing[a].socket] = "open"
           => Reported(closing[a].socket)

\* What the next lemma's steps use of the other invariants.
ControlInv == ControlTyped /\ released \in [Sockets -> Nat] /\ CallerIsFresh

LEMMA ReportedStep ==
    ControlInv /\ ReportedInv /\ [WebsocketNext]_websocketVars => ReportedInv'
  <1> SUFFICES ASSUME ControlInv, ReportedInv, [WebsocketNext]_websocketVars
               PROVE  ReportedInv'
    OBVIOUS
  <1> USE DEF ControlInv, ControlTyped
  <1>1. ASSUME NEW a \in Actors, closing[a].at # "none"
        PROVE  closing[a].socket \in Sockets /\ closing[a] # NotClosing
    BY <1>1 DEF Closings, NotClosing
  <1>2. NotClosing.at = "none"
    BY DEF NotClosing
  <1>3. ASSUME UNCHANGED <<object, released, ready, worker, closing>>
        PROVE  ReportedInv'
    BY <1>3 DEF ReportedInv, Reported
  <1>4. ASSUME NEW s \in Sockets, initialize_socket(s)
        PROVE  ReportedInv'
    <2>1. /\ object[s] = "none" /\ object' = [object EXCEPT ![s] = "live"]
          /\ UNCHANGED <<released, ready, worker, closing>>
      BY <1>4 DEF initialize_socket, linkVars
    <2>2. \A r \in Sockets : /\ object'[r] = "deleted" <=> object[r] = "deleted"
                             /\ Reported(r)' <=> Reported(r)
      BY <2>1 DEF Reported
    <2> QED
      BY <1>1, <2>1, <2>2 DEF ReportedInv
  <1>5. CASE Connected
    <2>1. /\ caller \in Sockets /\ object[caller] = "live"
          /\ \A a \in Actors : closing[a].socket # caller
          /\ ready' = [ready EXCEPT ![caller] = "open"]
          /\ worker' = [worker EXCEPT ![caller] = "check"]
          /\ UNCHANGED <<object, released, closing>>
      BY <1>5 DEF Connected, CallerIsFresh
    <2>2. \A r \in Sockets : Reported(r)' <=> Reported(r)
      BY <2>1 DEF Reported
    <2>3. \A r \in Sockets : r # caller => worker'[r] = worker[r] /\ ready'[r] = ready[r]
      BY <2>1
    <2>4. worker'[caller] = "check" /\ ready'[caller] = "open"
      BY <2>1
    <2>5. ASSUME NEW a \in Actors, closing'[a].at \notin {"none", "stop"},
                 ready'[closing'[a].socket] = "open"
          PROVE  Reported(closing[a].socket)
      BY <1>1, <2>1, <2>3, <2>5 DEF ReportedInv
    <2> QED
      BY <1>1, <2>1, <2>2, <2>3, <2>4, <2>5 DEF ReportedInv
  <1>6. CASE ConnectFails
    BY <1>3, <1>6 DEF ConnectFails, socketVars, refVars, linkVars
  <1>7. ASSUME NEW s \in Sockets, UNCHANGED <<object, released, closing>>,
               \A r \in Sockets \ {s} : ready'[r] = ready[r] /\ worker'[r] = worker[r],
               worker'[s] = "none" <=> worker[s] = "none",
               worker'[s] \in {"connecting", "closed"} => Reported(s),
               worker'[s] # "none" /\ ready'[s] = "closed" => Reported(s),
               ready'[s] = "open" => ready[s] = "open" \/ Reported(s)
        PROVE  ReportedInv'
    <2>1. \A r \in Sockets : Reported(r)' <=> Reported(r)
      BY <1>7 DEF Reported
    <2>2. ASSUME NEW a \in Actors, closing'[a].at \notin {"none", "stop"},
                 ready'[closing'[a].socket] = "open"
          PROVE  Reported(closing[a].socket)
      BY <1>1, <1>7, <2>2 DEF ReportedInv
    <2> QED
      BY <1>1, <1>7, <2>1, <2>2 DEF ReportedInv
  <1>8. ASSUME NEW s \in Sockets, send(s)
        PROVE  ReportedInv'
    <2>1. /\ ready' = [ready EXCEPT ![s] = "closing"]
          /\ UNCHANGED <<object, released, worker, closing>>
      BY <1>8 DEF send, socketVars, refVars
    <2> QED
      BY <1>7, <2>1 DEF ReportedInv
  <1>9. ASSUME NEW s \in Sockets, WorkerAction(s)
        PROVE  ReportedInv'
    <2>1. CASE CallbackReleases(s)
      <3>1. /\ worker[s] = "last handler" /\ worker' = [worker EXCEPT ![s] = "closed"]
            /\ released' = [released EXCEPT ![s] = @ + 1]
            /\ UNCHANGED <<object, ready, closing>>
        BY <2>1 DEF CallbackReleases, WorkerAt, WorkerGoto, socketVars, linkVars
      <3>2. released'[s] = released[s] + 1 /\ released[s] \in Nat
        BY <3>1
      <3>3. Reported(s)'
        <4>1. object[s] = "deleted" => released[s] >= 1
          BY DEF ReportedInv
        <4>2. object'[s] = object[s]
          BY <3>1
        <4>3. released'[s] >= 1 /\ (object'[s] = "deleted" => released'[s] >= 2)
          BY <3>2, <4>1, <4>2
        <4> QED
          BY <4>3 DEF Reported
      <3>4. \A r \in Sockets \ {s} : /\ worker'[r] = worker[r] /\ released'[r] = released[r]
                                     /\ Reported(r)' <=> Reported(r)
        BY <3>1 DEF Reported
      <3>5. released'[s] >= 1
        BY <3>2
      <3> QED
        BY <1>1, <3>1, <3>3, <3>4, <3>5 DEF ReportedInv
    <2>2. CASE ReconnectFails(s)
      BY <1>3, <2>2 DEF ReconnectFails, Terminate, socketVars, refVars, linkVars
    <2>3. CASE StartReconnect(s)
      <3>1. /\ worker[s] = "check" /\ ready[s] = "closed"
            /\ worker' = [worker EXCEPT ![s] = "connecting"]
            /\ UNCHANGED <<object, released, ready, closing>>
        BY <2>3 DEF StartReconnect, WorkerAt, WorkerGoto, socketVars, refVars, linkVars
      <3> QED
        BY <1>7, <3>1 DEF ReportedInv
    <2>4. CASE Reconnect(s)
      <3>1. /\ worker[s] = "connecting" /\ ready' = [ready EXCEPT ![s] = "open"]
            /\ worker' = [worker EXCEPT ![s] = "check"]
            /\ UNCHANGED <<object, released, closing>>
        BY <2>4 DEF Reconnect, WorkerAt, WorkerGoto, socketVars, refVars
      <3> QED
        BY <1>7, <3>1 DEF ReportedInv
    <2>5. CASE SetClosed(s)
      <3>1. /\ worker[s] = "closed" /\ ready' = [ready EXCEPT ![s] = "closed"]
            /\ worker' = [worker EXCEPT ![s] = "check"]
            /\ UNCHANGED <<object, released, closing>>
        BY <2>5 DEF SetClosed, WorkerAt, WorkerGoto, socketVars, refVars
      <3> QED
        BY <1>7, <3>1 DEF ReportedInv
    <2>6. CASE \/ CheckConnection(s) \/ Run(s) \/ PollNothing(s) \/ PollMessage(s)
               \/ HandlerReturns(s) \/ PollClosed(s)
      <3>1. /\ worker[s] \notin {"none", "connecting", "closed"}
            /\ UNCHANGED <<object, released, ready, closing>>
            /\ \/ UNCHANGED worker
               \/ \E label \in {"run", "done", "poll", "check", "handler", "last handler"} :
                    worker' = [worker EXCEPT ![s] = label]
        BY <2>6 DEF CheckConnection, Run, PollNothing, PollMessage, HandlerReturns,
                    PollClosed, Fire, Terminate, WorkerAt, WorkerGoto, socketVars, refVars,
                    linkVars
      <3>2. /\ \A r \in Sockets \ {s} : worker'[r] = worker[r]
            /\ worker'[s] \notin {"none", "connecting", "closed"}
        BY <3>1
      <3> QED
        BY <1>7, <3>1, <3>2 DEF ReportedInv
    <2> QED
      BY <1>9, <2>1, <2>2, <2>3, <2>4, <2>5, <2>6 DEF WorkerAction
  <1>10. ASSUME NEW s \in Sockets, WorkerUsesFreed(s)
         PROVE  ReportedInv'
    BY <1>3, <1>10 DEF WorkerUsesFreed, Terminate, socketVars, refVars, linkVars
  <1>11. ASSUME NEW a \in Actors, NEW s \in Sockets, close(a, s)
         PROVE  ReportedInv'
    <2>1. /\ closing' = [closing EXCEPT ![a] = [at |-> "stop", socket |-> s]]
          /\ UNCHANGED <<object, released, ready, worker>>
      BY <1>11 DEF close, socketVars, refVars, linkVars
    <2>2. /\ closing'[a].at = "stop" /\ \A b \in Actors \ {a} : closing'[b] = closing[b]
      BY <2>1
    <2> QED
      BY <2>1, <2>2 DEF ReportedInv, Reported
  <1>12. ASSUME NEW a \in Actors, NEW label, CloseGoto(a, label), closing[a].at # "none"
         PROVE  /\ closing'[a] = [at |-> label, socket |-> closing[a].socket]
                /\ \A b \in Actors \ {a} : closing'[b] = closing[b]
    <2>1. closing[a] \in [at : {"stop", "wake", "flag", "join", "release"}, socket : Sockets]
      BY <1>12 DEF Closings, NotClosing
    <2>2. [closing[a] EXCEPT !.at = label] = [at |-> label, socket |-> closing[a].socket]
      BY <2>1
    <2>3. closing' = [closing EXCEPT ![a] = [closing[a] EXCEPT !.at = label]]
      BY <1>12 DEF CloseGoto
    <2> QED
      BY <2>2, <2>3
  <1>13. ASSUME NEW a \in Actors, StopConnection(a)
         PROVE  ReportedInv'
    <2> DEFINE s == closing[a].socket
    <2>1. /\ closing[a].at = "stop" /\ s \in Sockets
          /\ ready' = [ready EXCEPT ![s] = IF @ = "open" THEN "closing" ELSE @]
          /\ UNCHANGED <<object, released, worker>>
          /\ \E label : CloseGoto(a, label)
      BY <1>1, <1>13 DEF StopConnection, CloseAt, socketVars, refVars
    <2>2. /\ closing'[a].socket = s /\ \A b \in Actors \ {a} : closing'[b] = closing[b]
      <3>1. PICK label : CloseGoto(a, label)
        BY <2>1
      <3>2. closing[a].at # "none"
        BY <2>1
      <3>3. closing'[a] = [at |-> label, socket |-> s]
            /\ \A b \in Actors \ {a} : closing'[b] = closing[b]
        BY <1>12, <3>1, <3>2
      <3> QED
        BY <3>3
    <2>3. /\ ready'[s] # "open" /\ \A r \in Sockets : ready'[r] \in {ready[r], "closing"}
      BY <2>1
    <2>4. \A r \in Sockets : Reported(r)' <=> Reported(r)
      BY <2>1 DEF Reported
    <2>5. ASSUME NEW b \in Actors, closing'[b].at \notin {"none", "stop"},
                 ready'[closing'[b].socket] = "open"
          PROVE  Reported(closing[b].socket)'
      <3>1. b # a
        BY <2>2, <2>3, <2>5
      <3>2. closing'[b] = closing[b] /\ closing[b].socket \in Sockets
        BY <1>1, <2>2, <2>5, <3>1
      <3>3. ready[closing[b].socket] = "open"
        BY <2>3, <2>5, <3>2
      <3>4. Reported(closing[b].socket)
        BY <2>5, <3>2, <3>3 DEF ReportedInv
      <3> QED
        BY <2>1, <3>2, <3>4 DEF Reported
    <2> QED
      BY <2>1, <2>3, <2>4, <2>5 DEF ReportedInv
  <1>14. ASSUME NEW a \in Actors, StopWake(a) \/ StopFlag(a) \/ StopJoin(a)
         PROVE  ReportedInv'
    <2>1. /\ closing[a].at \in {"wake", "flag", "join"}
          /\ UNCHANGED <<object, released, ready, worker>>
          /\ \E label : CloseGoto(a, label)
      BY <1>14 DEF StopWake, StopFlag, StopJoin, CloseAt, socketVars, refVars, linkVars
    <2>2. /\ closing'[a].socket = closing[a].socket
          /\ \A b \in Actors \ {a} : closing'[b] = closing[b]
      <3>1. PICK label : CloseGoto(a, label)
        BY <2>1
      <3>2. closing[a].at # "none"
        BY <2>1
      <3>3. closing'[a] = [at |-> label, socket |-> closing[a].socket]
            /\ \A b \in Actors \ {a} : closing'[b] = closing[b]
        BY <1>12, <3>1, <3>2
      <3> QED
        BY <3>3
    <2> QED
      BY <2>1, <2>2 DEF ReportedInv, Reported
  <1>15. ASSUME NEW a \in Actors, CloseRelease(a)
         PROVE  ReportedInv'
    <2> PICK s \in Sockets : s = closing[a].socket
      BY <1>1, <1>15 DEF CloseRelease, CloseAt
    <2>1. /\ closing[a].at = "release" /\ s = closing[a].socket
          /\ object' = [object EXCEPT ![s] = "deleted"]
          /\ released' = [released EXCEPT ![s] = @ + 1]
          /\ closing' = [closing EXCEPT ![a] = NotClosing]
          /\ UNCHANGED <<ready, worker>>
      BY <1>1, <1>15 DEF CloseRelease, CloseAt, linkVars
    <2>2. /\ released'[s] = released[s] + 1 /\ released[s] \in Nat
          /\ object'[s] = "deleted"
          /\ \A r \in Sockets \ {s} : released'[r] = released[r] /\ object'[r] = object[r]
      BY <2>1
    <2>3. Reported(s) => Reported(s)'
      BY <2>2 DEF Reported
    <2>4. \A r \in Sockets \ {s} : Reported(r)' <=> Reported(r)
      BY <2>2 DEF Reported
    <2>5. released'[s] >= 1
      BY <2>2
    <2>6. ready[s] = "open" => Reported(s)
      BY <2>1 DEF ReportedInv
    <2>7. closing'[a].at = "none" /\ \A b \in Actors \ {a} : closing'[b] = closing[b]
      BY <1>2, <2>1
    <2>8. \A r \in Sockets :
             /\ object'[r] = "deleted" => released'[r] >= 1
             /\ worker'[r] \in {"connecting", "closed"} => Reported(r)'
             /\ worker'[r] # "none" /\ ready'[r] = "closed" => Reported(r)'
             /\ object'[r] = "deleted" /\ ready'[r] = "open" => Reported(r)'
      BY <2>1, <2>2, <2>3, <2>4, <2>5, <2>6 DEF ReportedInv
    <2>9. ASSUME NEW b \in Actors, closing'[b].at \notin {"none", "stop"},
                 ready'[closing'[b].socket] = "open"
          PROVE  Reported(closing[b].socket)'
      <3>1. b # a /\ closing'[b] = closing[b]
        BY <2>7, <2>9
      <3>2. PICK r \in Sockets : r = closing[b].socket
        BY <1>1, <2>9, <3>1
      <3>3. Reported(r)
        BY <2>1, <2>9, <3>1, <3>2 DEF ReportedInv
      <3>4. Reported(r)'
        BY <2>3, <2>4, <3>3
      <3> QED
        BY <3>1, <3>2, <3>4 DEF Reported
    <2> QED
      BY <2>8, <2>9 DEF ReportedInv
  <1>16. ASSUME NEW a \in Actors, CloseUsesFreed(a)
         PROVE  ReportedInv'
    BY <1>3, <1>16 DEF CloseUsesFreed, Terminate, socketVars, refVars, linkVars
  <1>17. CASE UNCHANGED websocketVars
    BY <1>3, <1>17 DEF websocketVars, socketVars, refVars, linkVars
  <1> QED
    BY <1>4, <1>5, <1>6, <1>8, <1>9, <1>10, <1>11, <1>13, <1>14, <1>15, <1>16, <1>17
       DEF WebsocketNext, ConnectAction, CloseStep

\* After close, a connection that is still open has not been left by it: the
\* worker, told to stop too late, has made it after the callback reported the end
\* of the one before, which is why the references were released twice.
THEOREM CloseLeavesReconnected == WebsocketSpec => []LeftOpenIsReconnected
  <1>1. WebsocketInit => ReportedInv
    BY DEF WebsocketInit, ReportedInv, Reported, NotClosing
  <1>2. ReportedInv => LeftOpenIsReconnected
    BY DEF ReportedInv, Reported, LeftOpenIsReconnected
  <1>3. ControlTyped /\ RefsTyped /\ WorkerInv => ControlInv
    BY DEF ControlInv, RefsTyped, WorkerInv
  <1> QED
    BY <1>1, <1>2, <1>3, ControlTypedInit, ControlTypedStep, RefsTypedStep, WorkerInvInit,
       WorkerInvStep, ReportedStep, PTL DEF WebsocketSpec

-----------------------------------------------------------------------------
(* Until a second release, nobody takes the slot of another.               *)

\* What the free list needs to stay one: its head and its links name free slots,
\* no free slot comes after two others, and the head comes after none.
FreeSlots(reg) == {i \in 1..Len(reg.slots) : reg.slots[i].holds = {}}
ListOK(reg) ==
    /\ reg.free \in FreeSlots(reg) \cup {0}
    /\ \A i \in FreeSlots(reg) :
         LET next == reg.slots[i].next
         IN  /\ next \in FreeSlots(reg) \cup {0}
             /\ next # 0 => /\ next # reg.free
                            /\ \A j \in FreeSlots(reg) : reg.slots[j].next = next => j = i

\* Slot i of the registry is where v is.
Holds(reg, i, v) == i \in 1..Len(reg.slots) /\ lua_getref(reg, i) = {v}

\* lua_ref takes a slot that holds nothing, whoever asks for it.
LEMMA RefTakesFree ==
    ASSUME NEW reg, RegistryOK(reg), ListOK(reg), NEW v \in Held
    PROVE  /\ ListOK(lua_ref(reg, v))
           /\ Holds(lua_ref(reg, v), NextRef(reg), v)
           /\ \A i, w : Holds(reg, i, w) => Holds(lua_ref(reg, v), i, w)
  <1> DEFINE new == lua_ref(reg, v)
             n   == Len(reg.slots)
  <1>1. /\ reg.slots \in Seq(Slots) /\ reg.free \in Nat /\ n \in Nat
        /\ Value(v).holds = {v} /\ Value(v).next = 0
    BY DEF RegistryOK, Value
  <1>4. Value(v).holds # {}
    BY <1>1
  <1>2. CASE reg.free # 0
    <2> DEFINE slots == [reg.slots EXCEPT ![reg.free] = Value(v)]
    <2>1. reg.free \in FreeSlots(reg) /\ reg.free \in 1..n
      BY <1>2 DEF ListOK, FreeSlots
    <2>2. new = [slots |-> slots, free |-> reg.slots[reg.free].next]
      BY <1>2 DEF lua_ref
    <2>3. /\ Len(slots) = n
          /\ \A i \in 1..n : slots[i] = IF i = reg.free THEN Value(v) ELSE reg.slots[i]
      BY <1>1, <2>1
    <2> HIDE DEF slots
    <2>4. /\ new.slots = slots /\ new.free = reg.slots[reg.free].next
      BY <2>2
    <2> HIDE DEF new
    <2>5. FreeSlots(new) = FreeSlots(reg) \ {reg.free}
      <3>1. \A i \in 1..n : new.slots[i].holds = {} <=> i # reg.free /\ reg.slots[i].holds = {}
        BY <1>4, <2>3, <2>4
      <3>2. Len(new.slots) = n
        BY <2>3, <2>4
      <3> QED
        BY <3>1, <3>2 DEF FreeSlots
    <2>6. \A i \in FreeSlots(new) : i \in FreeSlots(reg) /\ new.slots[i] = reg.slots[i]
      BY <2>3, <2>4, <2>5 DEF FreeSlots
    <2>7. new.free \in FreeSlots(new) \cup {0}
      BY <1>2, <2>1, <2>4, <2>5 DEF ListOK
    <2>8. ASSUME NEW i \in FreeSlots(new)
          PROVE  /\ new.slots[i].next \in FreeSlots(new) \cup {0}
                 /\ new.slots[i].next # 0 =>
                      /\ new.slots[i].next # new.free
                      /\ \A j \in FreeSlots(new) : new.slots[j].next = new.slots[i].next
                                                     => j = i
      BY <2>1, <2>4, <2>5, <2>6 DEF ListOK
    <2>9. ListOK(new)
      BY <2>7, <2>8 DEF ListOK
    <2>10. Holds(new, NextRef(reg), v)
      BY <1>1, <1>2, <2>1, <2>3, <2>4 DEF Holds, NextRef, lua_getref
    <2>11. ASSUME NEW i, NEW w, Holds(reg, i, w) PROVE Holds(new, i, w)
      <3>1. i # reg.free
        BY <2>1, <2>11 DEF Holds, FreeSlots, lua_getref
      <3> QED
        BY <2>3, <2>4, <2>11, <3>1 DEF Holds, lua_getref
    <2> QED
      BY <2>9, <2>10, <2>11 DEF new
  <1>3. CASE reg.free = 0
    <2> DEFINE slots == Append(reg.slots, Value(v))
    <2>1. new.slots = slots /\ new.free = 0
      BY <1>3 DEF lua_ref, RegistryOK
    <2>2. Value(v) \in Slots
      BY DEF Value, Slots
    <2>3. /\ Len(slots) = n + 1 /\ slots[n + 1] = Value(v)
          /\ \A i \in 1..n : slots[i] = reg.slots[i]
      BY <1>1, <2>2
    <2> HIDE DEF slots, new
    <2>4. FreeSlots(new) = FreeSlots(reg)
      <3>1. /\ Len(new.slots) = n + 1 /\ new.slots[n + 1].holds # {}
            /\ \A i \in 1..n : new.slots[i] = reg.slots[i]
        BY <1>4, <2>1, <2>3
      <3>2. \A i \in 1..(n + 1) : i \in 1..n \/ i = n + 1
        BY <1>1
      <3>3. 1..n \subseteq 1..(n + 1)
        BY <1>1
      <3> QED
        BY <3>1, <3>2, <3>3 DEF FreeSlots
    <2>5. \A i \in FreeSlots(reg) : new.slots[i] = reg.slots[i]
      BY <2>1, <2>3 DEF FreeSlots
    <2>6. ListOK(new)
      BY <1>3, <2>1, <2>4, <2>5 DEF ListOK
    <2>7. Holds(new, NextRef(reg), v)
      BY <1>1, <1>3, <2>1, <2>3 DEF Holds, NextRef, lua_getref
    <2>8. \A i, w : Holds(reg, i, w) => Holds(new, i, w)
      BY <1>1, <2>1, <2>3 DEF Holds, lua_getref
    <2> QED
      BY <2>6, <2>7, <2>8 DEF new
  <1> QED
    BY <1>2, <1>3

\* lua_unref frees one slot, if it was used.
LEMMA UnrefFrees ==
    ASSUME NEW reg, RegistryOK(reg), ListOK(reg), NEW ref, NEW v, Holds(reg, ref, v)
    PROVE  /\ ListOK(lua_unref(reg, ref))
           /\ \A i, w : i # ref /\ Holds(reg, i, w) => Holds(lua_unref(reg, ref), i, w)
  <1> DEFINE new   == lua_unref(reg, ref)
             n     == Len(reg.slots)
             slots == [reg.slots EXCEPT ![ref] = Link(reg.free)]
  <1>1. /\ reg.slots \in Seq(Slots) /\ reg.free \in Nat /\ n \in Nat /\ ref \in 1..n
        /\ Link(reg.free).holds = {} /\ Link(reg.free).next = reg.free
    BY DEF RegistryOK, Link, Holds
  <1>2. new.slots = slots /\ new.free = ref
    BY <1>1 DEF lua_unref, NoRef
  <1>3. /\ Len(slots) = n
        /\ \A i \in 1..n : slots[i] = IF i = ref THEN Link(reg.free) ELSE reg.slots[i]
    BY <1>1
  <1> HIDE DEF slots, new
  <1>4. ref \notin FreeSlots(reg) /\ ref # 0
    <2>1. {v} # {}
      OBVIOUS
    <2>2. reg.slots[ref].holds = {v}
      BY DEF Holds, lua_getref
    <2>3. reg.slots[ref].holds # {}
      BY <2>1, <2>2
    <2>4. ref # 0
      BY <1>1
    <2> QED
      BY <2>3, <2>4 DEF FreeSlots
  <1>5. FreeSlots(new) = FreeSlots(reg) \cup {ref}
    BY <1>1, <1>2, <1>3 DEF FreeSlots
  <1>6. /\ new.slots[ref].next = reg.free
        /\ \A i \in FreeSlots(reg) : new.slots[i] = reg.slots[i]
    BY <1>1, <1>2, <1>3, <1>4 DEF FreeSlots
  <1>7. reg.free \in FreeSlots(reg) \cup {0}
    BY DEF ListOK
  <1>8. ASSUME NEW i \in FreeSlots(new)
        PROVE  /\ new.slots[i].next \in FreeSlots(new) \cup {0}
               /\ new.slots[i].next # 0 =>
                    /\ new.slots[i].next # ref
                    /\ \A j \in FreeSlots(new) : new.slots[j].next = new.slots[i].next
                                                   => j = i
    BY <1>4, <1>5, <1>6, <1>7 DEF ListOK
  <1>9. ListOK(new)
    BY <1>2, <1>5, <1>8 DEF ListOK
  <1>10. ASSUME NEW i, NEW w, i # ref, Holds(reg, i, w) PROVE Holds(new, i, w)
    BY <1>2, <1>3, <1>10 DEF Holds, lua_getref
  <1> QED
    BY <1>9, <1>10 DEF new

\* The slots named in names are those of the objects of s.
Owned(reg, names, s) == \A k \in Kinds : Holds(reg, names[k], Object(s, k))

OwnInv ==
    (\A s \in Sockets : released[s] <= 1)
       => /\ ListOK(registry)
          /\ \A s \in Sockets :
               released[s] = 0 /\ refs[s] # NoRefs => Owned(registry, refs[s], s)

\* The references of s are taken one after another.
LEMMA ReferencedOwn ==
    ASSUME RefsTyped, ListOK(registry), NEW s \in Sockets
    PROVE  /\ ListOK(Referenced(s).registry)
           /\ Owned(Referenced(s).registry, Referenced(s).refs, s)
           /\ \A i, w : Holds(registry, i, w) => Holds(Referenced(s).registry, i, w)
  <1> DEFINE thread  == lua_ref(registry, Object(s, "thread"))
             message == lua_ref(thread, Object(s, "message"))
             closed  == lua_ref(message, Object(s, "close"))
             error   == lua_ref(closed, Object(s, "error"))
             Kept(reg, new) == \A i, w : Holds(reg, i, w) => Holds(new, i, w)
             Fine(reg) == RegistryOK(reg) /\ ListOK(reg)
  <1>1. \A k \in Kinds : Object(s, k) \in Held
    BY DEF Object, Held
  <1>2. {"thread", "message", "close", "error"} \subseteq Kinds
    BY DEF Kinds
  <1>3. ASSUME NEW reg, NEW k \in Kinds, Fine(reg)
        PROVE  /\ Fine(lua_ref(reg, Object(s, k))) /\ Kept(reg, lua_ref(reg, Object(s, k)))
               /\ Holds(lua_ref(reg, Object(s, k)), NextRef(reg), Object(s, k))
    BY <1>1, <1>3, RefOK, RefTakesFree
  <1>4. Fine(registry)
    BY DEF RefsTyped
  <1> HIDE DEF Fine, Kept
  <1>5. /\ Fine(thread) /\ Kept(registry, thread)
        /\ Holds(thread, NextRef(registry), Object(s, "thread"))
    BY <1>2, <1>3, <1>4
  <1> HIDE DEF thread
  <1>6. /\ Fine(message) /\ Kept(thread, message)
        /\ Holds(message, NextRef(thread), Object(s, "message"))
    BY <1>2, <1>3, <1>5
  <1> HIDE DEF message
  <1>7. /\ Fine(closed) /\ Kept(message, closed)
        /\ Holds(closed, NextRef(message), Object(s, "close"))
    BY <1>2, <1>3, <1>6
  <1> HIDE DEF closed
  <1>8. /\ Fine(error) /\ Kept(closed, error)
        /\ Holds(error, NextRef(closed), Object(s, "error"))
    BY <1>2, <1>3, <1>7
  <1> HIDE DEF error
  <1> DEFINE names == [k \in Kinds |-> CASE k = "thread"  -> NextRef(registry)
                                         [] k = "message" -> NextRef(thread)
                                         [] k = "close"   -> NextRef(message)
                                         [] k = "error"   -> NextRef(closed)]
  <1>9. /\ names["thread"] = NextRef(registry) /\ names["message"] = NextRef(thread)
        /\ names["close"] = NextRef(message) /\ names["error"] = NextRef(closed)
    BY <1>2
  <1>10. Referenced(s) = [registry |-> error, refs |-> names]
    BY DEF Referenced, thread, message, closed, error
  <1> HIDE DEF names
  <1>11. Referenced(s).registry = error /\ Referenced(s).refs = names
    BY <1>10
  <1>12. /\ Holds(error, names["thread"], Object(s, "thread"))
         /\ Holds(error, names["message"], Object(s, "message"))
         /\ Holds(error, names["close"], Object(s, "close"))
         /\ Holds(error, names["error"], Object(s, "error"))
    BY <1>5, <1>6, <1>7, <1>8, <1>9 DEF Kept
  <1>13. Owned(error, names, s)
    BY <1>12 DEF Owned, Kinds
  <1>14. Kept(registry, error)
    BY <1>5, <1>6, <1>7, <1>8 DEF Kept
  <1> QED
    BY <1>8, <1>11, <1>13, <1>14 DEF Fine, Kept

\* The first release of a socket's references takes nothing from the others.
LEMMA FirstRelease ==
    ASSUME RefsTyped, ListOK(registry), NEW s \in Sockets,
           refs[s] = NoRefs \/ Owned(registry, refs[s], s)
    PROVE  /\ ListOK(Unreferenced(s))
           /\ \A i, r, k : r # s /\ Holds(registry, i, Object(r, k))
                             => Holds(Unreferenced(s), i, Object(r, k))
  <1>1. \A r, k, r2, k2 : {Object(r, k)} = {Object(r2, k2)} => r = r2 /\ k = k2
    <2>1. \A r, k, r2, k2 : Object(r, k) = Object(r2, k2) => r = r2 /\ k = k2
      BY DEF Object
    <2> QED
      BY <2>1
  <1>2. CASE refs[s] = NoRefs
    <2>1. \A reg, k : k \in Kinds => lua_unref(reg, refs[s][k]) = reg
      BY <1>2 DEF NoRefs, lua_unref, NoRef
    <2>2. Unreferenced(s) = registry
      BY <2>1 DEF Unreferenced, Kinds
    <2> QED
      BY <2>2
  <1>3. CASE Owned(registry, refs[s], s)
    <2> DEFINE after(reg, k) == lua_unref(reg, refs[s][k])
               Others(reg) == \A i, r, k : r # s /\ Holds(registry, i, Object(r, k))
                                             => Holds(reg, i, Object(r, k))
               Mine(reg, K) == \A k \in K : Holds(reg, refs[s][k], Object(s, k))
               Fine(reg, K) == RegistryOK(reg) /\ ListOK(reg) /\ Others(reg) /\ Mine(reg, K)
    <2>1. ASSUME NEW reg, NEW K, NEW k \in K, Fine(reg, K)
          PROVE  Fine(after(reg, k), K \ {k})
      <3>1. Holds(reg, refs[s][k], Object(s, k)) /\ RegistryOK(reg) /\ ListOK(reg)
        BY <2>1
      <3>2. refs[s][k] \in 1..Len(reg.slots)
        BY <3>1 DEF Holds
      <3>3. RegistryOK(after(reg, k)) /\ ListOK(after(reg, k))
        BY <3>1, <3>2, UnrefOK, UnrefFrees
      <3>4. \A i, w : i # refs[s][k] /\ Holds(reg, i, w) => Holds(after(reg, k), i, w)
        BY <3>1, UnrefFrees
      <3>5. ASSUME NEW i, NEW r, NEW j, Holds(reg, i, Object(r, j)), r # s \/ j # k
            PROVE  Holds(after(reg, k), i, Object(r, j))
        <4>1. i # refs[s][k]
          BY <1>1, <3>1, <3>5 DEF Holds
        <4> QED
          BY <3>4, <3>5, <4>1
      <3> HIDE DEF after
      <3>6. Others(after(reg, k))
        BY <2>1, <3>5
      <3>7. Mine(after(reg, k), K \ {k})
        BY <2>1, <3>5
      <3> QED
        BY <3>3, <3>6, <3>7
    <2>2. Fine(registry, {"thread", "message", "close", "error"})
      BY <1>3 DEF Owned, RefsTyped, Kinds
    <2> HIDE DEF Fine, after
    <2>3. Fine(after(registry, "close"), {"thread", "message", "error"})
      <3>1. {"thread", "message", "close", "error"} \ {"close"}
              = {"thread", "message", "error"}
        OBVIOUS
      <3> QED
        BY <2>1, <2>2, <3>1
    <2>4. Fine(after(after(registry, "close"), "error"), {"thread", "message"})
      <3>1. {"thread", "message", "error"} \ {"error"} = {"thread", "message"}
        OBVIOUS
      <3> QED
        BY <2>1, <2>3, <3>1
    <2>5. Fine(after(after(after(registry, "close"), "error"), "message"), {"thread"})
      <3>1. {"thread", "message"} \ {"message"} = {"thread"}
        OBVIOUS
      <3> QED
        BY <2>1, <2>4, <3>1
    <2>6. Fine(after(after(after(after(registry, "close"), "error"), "message"), "thread"),
               {"thread"} \ {"thread"})
      BY <2>1, <2>5
    <2>7. Fine(Unreferenced(s), {"thread"} \ {"thread"})
      BY <2>6 DEF Unreferenced, after
    <2> QED
      BY <2>7 DEF Fine
  <1> QED
    BY <1>2, <1>3

\* A release by the callback or by close.
LEMMA ReleaseOwn ==
    ASSUME RefsTyped, OwnInv, NEW s \in Sockets, registry' = Unreferenced(s),
           released' = [released EXCEPT ![s] = @ + 1], refs' = refs
    PROVE  OwnInv'
  <1> SUFFICES ASSUME \A r \in Sockets : released'[r] <= 1
               PROVE  /\ ListOK(registry')
                      /\ \A r \in Sockets :
                           released'[r] = 0 /\ refs[r] # NoRefs
                             => Owned(registry', refs[r], r)
    BY DEF OwnInv, ListOK, FreeSlots, Owned, Holds, lua_getref
  <1>1. /\ \A r \in Sockets : released[r] \in Nat
        /\ released'[s] = released[s] + 1
        /\ \A r \in Sockets \ {s} : released'[r] = released[r]
    BY DEF RefsTyped
  <1>2. released[s] = 0 /\ \A r \in Sockets : released[r] <= 1
    BY <1>1
  <1>3. ListOK(registry) /\ (refs[s] = NoRefs \/ Owned(registry, refs[s], s))
    BY <1>2 DEF OwnInv
  <1>4. /\ ListOK(registry')
        /\ \A i, r, k : r # s /\ Holds(registry, i, Object(r, k))
                          => Holds(registry', i, Object(r, k))
    BY <1>3, FirstRelease
  <1>5. ASSUME NEW r \in Sockets, released'[r] = 0, refs[r] # NoRefs
        PROVE  Owned(registry', refs[r], r)
    <2>1. r # s /\ released[r] = 0
      BY <1>1, <1>2, <1>5
    <2>2. Owned(registry, refs[r], r)
      BY <1>2, <1>5, <2>1 DEF OwnInv
    <2> QED
      BY <1>4, <2>1, <2>2 DEF Owned
  <1> QED
    BY <1>4, <1>5

LEMMA OwnStep ==
    ControlTyped /\ RefsTyped /\ OwnInv /\ [WebsocketNext]_websocketVars => OwnInv'
  <1> SUFFICES ASSUME ControlTyped, RefsTyped, OwnInv, [WebsocketNext]_websocketVars
               PROVE  OwnInv'
    OBVIOUS
  <1>1. UNCHANGED refVars => OwnInv'
    BY DEF refVars, OwnInv, ListOK, FreeSlots, Owned, Holds, lua_getref
  <1>2. ASSUME NEW s \in Sockets, initialize_socket(s) PROVE OwnInv'
    <2>1. /\ registry' = Referenced(s).registry
          /\ refs' = [refs EXCEPT ![s] = Referenced(s).refs] /\ released' = released
      BY <1>2 DEF initialize_socket
    <2>2. CASE \A r \in Sockets : released[r] <= 1
      <3>1. ListOK(registry)
        BY <2>2 DEF OwnInv
      <3>2. /\ ListOK(registry') /\ Owned(registry', Referenced(s).refs, s)
            /\ \A i, w : Holds(registry, i, w) => Holds(registry', i, w)
        BY <2>1, <3>1, ReferencedOwn
      <3>3. refs'[s] = Referenced(s).refs /\ \A r \in Sockets \ {s} : refs'[r] = refs[r]
        BY <2>1 DEF RefsTyped
      <3>4. ASSUME NEW r \in Sockets, released[r] = 0, refs'[r] # NoRefs
            PROVE  Owned(registry', refs'[r], r)
        <4>1. CASE r = s
          BY <3>2, <3>3, <4>1
        <4>2. CASE r # s
          <5>1. Owned(registry, refs[r], r)
            BY <2>2, <3>3, <3>4, <4>2 DEF OwnInv
          <5> QED
            BY <3>2, <3>3, <4>2, <5>1 DEF Owned
        <4> QED
          BY <4>1, <4>2
      <3> QED
        BY <2>1, <3>2, <3>4 DEF OwnInv, ListOK, FreeSlots, Owned, Holds, lua_getref
    <2> QED
      BY <2>1, <2>2 DEF OwnInv
  <1>3. CASE Connected
    <2>1. /\ registry' = lua_ref(registry, Object(caller, "caller"))
          /\ refs' = refs /\ released' = released /\ Object(caller, "caller") \in Held
      BY <1>3 DEF Connected, ControlTyped, Object, Held
    <2>2. CASE \A r \in Sockets : released[r] <= 1
      <3>1. ListOK(registry) /\ RegistryOK(registry)
        BY <2>2 DEF OwnInv, RefsTyped
      <3>2. /\ ListOK(registry')
            /\ \A i, w : Holds(registry, i, w) => Holds(registry', i, w)
        BY <2>1, <3>1, RefTakesFree
      <3>3. \A r \in Sockets : released[r] = 0 /\ refs[r] # NoRefs
                                 => Owned(registry', refs[r], r)
        BY <2>2, <3>2 DEF OwnInv, Owned
      <3> QED
        BY <2>1, <3>2, <3>3 DEF OwnInv, ListOK, FreeSlots, Owned, Holds, lua_getref
    <2> QED
      BY <2>1, <2>2 DEF OwnInv
  <1>4. ASSUME NEW s \in Sockets, send(s) \/ WorkerUsesFreed(s) PROVE OwnInv'
    BY <1>1, <1>4 DEF send, WorkerUsesFreed, Terminate
  <1>5. ASSUME NEW s \in Sockets, WorkerAction(s) PROVE OwnInv'
    <2>1. CASE CallbackReleases(s)
      BY <2>1, ReleaseOwn DEF CallbackReleases
    <2> QED
      BY <1>1, <1>5, <2>1
         DEF WorkerAction, Terminate, CheckConnection, StartReconnect, Reconnect,
             ReconnectFails, Run, PollNothing, PollMessage, Fire, HandlerReturns,
             PollClosed, SetClosed
  <1>6. ASSUME NEW a \in Actors, NEW s \in Sockets, close(a, s) PROVE OwnInv'
    BY <1>1, <1>6 DEF close
  <1>7. ASSUME NEW a \in Actors, CloseStep(a) PROVE OwnInv'
    <2>1. CASE CloseRelease(a)
      <3>1. closing[a].at # "none"
        BY <2>1 DEF CloseRelease, CloseAt
      <3>2. closing[a].socket \in Sockets
        BY <3>1 DEF ControlTyped, Closings, NotClosing
      <3> QED
        BY <2>1, <3>2, ReleaseOwn DEF CloseRelease
    <2> QED
      BY <1>1, <1>7, <2>1 DEF CloseStep, StopConnection, StopWake, StopFlag, StopJoin
  <1>8. ASSUME NEW a \in Actors, CloseUsesFreed(a) PROVE OwnInv'
    BY <1>1, <1>8 DEF CloseUsesFreed, Terminate
  <1>9. CASE ConnectFails \/ UNCHANGED websocketVars
    BY <1>1, <1>9 DEF ConnectFails, websocketVars
  <1> QED
    BY <1>2, <1>3, <1>4, <1>5, <1>6, <1>7, <1>8, <1>9 DEF WebsocketNext, ConnectAction

\* As long as no socket's references were released twice, each socket that still
\* has its references finds its own thread and events there: lua_ref hands out no
\* slot that is used, whatever order connects, ends of connections and closes
\* come in.
THEOREM ReferencesAreOwnBefore == WebsocketSpec => []ReferencesOwnUntilReleasedTwice
  <1>1. WebsocketInit => OwnInv
    <2> SUFFICES ASSUME WebsocketInit PROVE ListOK(registry) /\ \A s \in Sockets : refs[s] = NoRefs
      BY DEF OwnInv
    <2>1. FreeSlots(registry) = {} /\ registry.free = 0
      BY DEF WebsocketInit, NoReferences, FreeSlots
    <2> QED
      BY <2>1 DEF WebsocketInit, ListOK
  <1>2. OwnInv => ReferencesOwnUntilReleasedTwice
    BY DEF OwnInv, Owned, Holds, ReferencesOwnUntilReleasedTwice
  <1> QED
    BY <1>1, <1>2, ControlTypedInit, ControlTypedStep, RefsTypedStep, OwnStep, PTL
       DEF WebsocketSpec

=============================================================================
