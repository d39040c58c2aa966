-------------------------- MODULE WebsocketLibrary --------------------------
(***************************************************************************)
(* WebSocket.connect and the sockets it returns.  The VM's thread runs the *)
(* scripts, which connect, send and close; each socket has a worker, the   *)
(* thread of the websocket library, which reconnects, polls, and calls the *)
(* message callback.  Both use the same Lua registry.                      *)
(*                                                                         *)
(* One action is one call of a library, of Luau or of a lambda's event.    *)
(* That two threads run Luau at once is a data race of its own, left out.  *)
(***************************************************************************)
EXTENDS Integers, Sequences, References

CONSTANTS
    Sockets,      \* the sockets that scripts may create
    VM,           \* the VM's thread
    Closers,      \* the workers that run an event's handlers at once (a setting of
                  \* Studio's), and whose handlers call close
    Unreliable,   \* the sockets whose peer, or the network, ends connections
    SendsInvalid  \* whether scripts send text that is not UTF-8

ASSUME VMAssumption == VM \notin Sockets
ASSUME WebsocketFlagsAssumption ==
    Closers \subseteq Sockets /\ Unreliable \subseteq Sockets /\ SendsInvalid \in BOOLEAN

Actors == Sockets \cup {VM}    \* a socket also names its worker
Kinds  == {"thread", "message", "close", "error"}
NoSocket == "no socket"

VARIABLES
    websockets,  \* the sockets in the map websockets
    object,      \* per socket: is its Websocket not yet new'ed, live, deleted
    refs,        \* per socket, its EventReferences and ullLuaThreadRef
    released,    \* per socket, how often its references were released
    registry,    \* the VM's registry
    ready,       \* per socket, the readyState of its connection
    stopping,    \* per socket, ix::WebSocket::_stop
    worker,      \* per socket, where its worker is
    caller,      \* where the VM's thread is in connect, and for which socket
    closing,     \* per actor, the socket it closes and how far it is
    held,        \* the sockets whose userdata a script has
    selfClosed,  \* history: the sockets that their own worker closed
    terminated   \* an exception has left a worker: std::terminate

socketVars == <<websockets, object, held, selfClosed>>
refVars    == <<refs, released, registry>>
linkVars   == <<ready, stopping>>
websocketVars == <<socketVars, refVars, linkVars, worker, caller, closing, terminated>>

NotClosing == [at |-> "none", socket |-> NoSocket]
NoRefs     == [k \in Kinds |-> -1]

WebsocketInit ==
    /\ websockets = {} /\ object = [s \in Sockets |-> "none"]
    /\ held = {} /\ selfClosed = {}
    /\ refs = [s \in Sockets |-> NoRefs] /\ released = [s \in Sockets |-> 0]
    /\ registry = NoReferences
    /\ ready = [s \in Sockets |-> "closed"] /\ stopping = [s \in Sockets |-> FALSE]
    /\ worker = [s \in Sockets |-> "none"] /\ caller = NoSocket
    /\ closing = [a \in Actors |-> NotClosing] /\ terminated = FALSE

\* An actor runs its own code: it is not inside close, and the process lives.
Runs(a) == ~terminated /\ closing[a] = NotClosing

\* The VM's thread is free to run a script.
Scripts == Runs(VM) /\ caller = NoSocket

\* An exception that no frame of the worker's thread catches.
Terminate == /\ terminated' = TRUE
             /\ UNCHANGED <<socketVars, refVars, linkVars, worker, caller, closing>>

-----------------------------------------------------------------------------
(* connect.                                                                *)

Object(s, k) == [socket |-> s, kind |-> k]

\* One lua_ref after another, in the order of initialize_socket.
Referenced(s) ==
    LET thread  == lua_ref(registry, Object(s, "thread"))
        message == lua_ref(thread, Object(s, "message"))
        closed  == lua_ref(message, Object(s, "close"))
    IN  [registry |-> lua_ref(closed, Object(s, "error")),
         refs     |-> [k \in Kinds |-> CASE k = "thread"  -> NextRef(registry)
                                         [] k = "message" -> NextRef(thread)
                                         [] k = "close"   -> NextRef(message)
                                         [] k = "error"   -> NextRef(closed)]]

\* new Websocket, set_callback_and_url and initialize_socket.
initialize_socket(s) ==
    /\ Scripts /\ object[s] = "none"
    /\ object' = [object EXCEPT ![s] = "live"]
    /\ registry' = Referenced(s).registry
    /\ refs' = [refs EXCEPT ![s] = Referenced(s).refs]
    /\ websockets' = websockets \cup {s}
    /\ caller' = s
    /\ UNCHANGED <<held, selfClosed, released, linkVars, worker, closing, terminated>>

\* The connection is made, the worker started, the calling thread referenced
\* (for good), and the userdata returned.
Connected ==
    /\ Runs(VM) /\ caller # NoSocket
    /\ ready' = [ready EXCEPT ![caller] = "open"]
    /\ worker' = [worker EXCEPT ![caller] = "check"]
    /\ registry' = lua_ref(registry, Object(caller, "caller"))
    /\ held' = held \cup {caller}
    /\ caller' = NoSocket
    /\ UNCHANGED <<websockets, object, selfClosed, refs, released, stopping, closing,
                   terminated>>

\* A failed connection raises an error: the socket stays where it is.
ConnectFails ==
    /\ Runs(VM) /\ caller # NoSocket
    /\ caller' = NoSocket
    /\ UNCHANGED <<socketVars, refVars, linkVars, worker, closing, terminated>>

\* The library closes a connection over which it is asked to send a text that
\* is not UTF-8.  A valid text changes nothing here.
send(s) ==
    /\ SendsInvalid
    /\ Scripts /\ s \in held /\ s \in websockets /\ ready[s] = "open"
    /\ ready' = [ready EXCEPT ![s] = "closing"]
    /\ UNCHANGED <<socketVars, refVars, stopping, worker, caller, closing, terminated>>

-----------------------------------------------------------------------------
(* close, called by a script on the VM's thread, or by an event handler    *)
(* that a worker runs inside Fire.                                         *)

InHandler(a) == a \in Closers /\ worker[a] \in {"handler", "last handler"}

close(a, s) ==
    /\ (a = VM /\ Scripts) \/ (Runs(a) /\ InHandler(a))
    /\ s \in held /\ s \in websockets
    /\ closing' = [closing EXCEPT ![a] = [at |-> "stop", socket |-> s]]
    /\ UNCHANGED <<socketVars, refVars, linkVars, worker, caller, terminated>>

CloseAt(a, label) == ~terminated /\ closing[a].at = label
CloseGoto(a, label) == closing' = [closing EXCEPT ![a].at = label]

\* ix::WebSocket::stop first closes the connection ...
StopWithoutClosing(a) ==                                            \* mutant
    /\ CloseAt(a, "stop")
    /\ CloseGoto(a, "flag")
    /\ UNCHANGED <<socketVars, refVars, linkVars, worker, caller, terminated>>
StopConnection(a) ==
    LET s == closing[a].socket
    IN  /\ CloseAt(a, "stop")
        /\ ready' = [ready EXCEPT ![s] = IF @ = "open" THEN "closing" ELSE @]
        /\ CloseGoto(a, IF ready[s] = "open" THEN "flag" ELSE "wake")
        /\ UNCHANGED <<socketVars, refVars, stopping, worker, caller, terminated>>

\* (if it is not open, it wakes the worker, for which it needs the mutex that
\* the worker holds while it connects) ...
StopWake(a) ==
    /\ CloseAt(a, "wake") /\ worker[closing[a].socket] # "connecting"
    /\ CloseGoto(a, "flag")
    /\ UNCHANGED <<socketVars, refVars, linkVars, worker, caller, terminated>>

\* ... then tells the worker to end ...
FlagForgotten(a) ==                                                 \* mutant
    /\ CloseAt(a, "flag")
    /\ CloseGoto(a, "join")
    /\ UNCHANGED <<socketVars, refVars, linkVars, worker, caller, terminated>>
StopFlag(a) ==
    /\ CloseAt(a, "flag")
    /\ stopping' = [stopping EXCEPT ![closing[a].socket] = TRUE]
    /\ CloseGoto(a, "join")
    /\ UNCHANGED <<socketVars, refVars, ready, worker, caller, terminated>>

\* ... and waits for its end.  A thread that would wait for itself gets an
\* exception, which close swallows.
JoinNobody(a) ==                                                    \* mutant
    /\ CloseAt(a, "join")
    /\ CloseGoto(a, "release")
    /\ UNCHANGED <<socketVars, refVars, linkVars, worker, caller, terminated>>
StopJoin(a) ==
    LET s == closing[a].socket
    IN  /\ CloseAt(a, "join")
        /\ \/ worker[s] = "done" /\ stopping' = [stopping EXCEPT ![s] = FALSE]
           \/ s = a /\ UNCHANGED stopping
        /\ CloseGoto(a, "release")
        /\ UNCHANGED <<socketVars, refVars, ready, worker, caller, terminated>>

\* One lua_unref after another.
UnreferencedCloseTwice(s) ==                                        \* mutant
    LET after(reg, k) == lua_unref(reg, refs[s][k])
    IN  after(after(after(after(registry, "close"), "close"), "message"), "thread")
Unreferenced(s) ==
    LET after(reg, k) == lua_unref(reg, refs[s][k])
    IN  after(after(after(after(registry, "close"), "error"), "message"), "thread")

\* The rest of close: the map's entry, the references, the object.
EntryKept(s) == websockets                                          \* mutant
EntryErased(s) == websockets \ {s}
CloseRelease(a) ==
    LET s == closing[a].socket
    IN  /\ CloseAt(a, "release")
        /\ websockets' = EntryErased(s)
        /\ registry' = Unreferenced(s)
        /\ released' = [released EXCEPT ![s] = @ + 1]
        /\ object' = [object EXCEPT ![s] = "deleted"]
        /\ selfClosed' = IF a = s THEN selfClosed \cup {s} ELSE selfClosed
        /\ closing' = [closing EXCEPT ![a] = NotClosing]
        /\ UNCHANGED <<held, refs, linkVars, worker, caller, terminated>>

\* Two actors that close the same socket: the second uses what the first deleted.
CloseUsesFreed(a) ==
    /\ ~terminated /\ closing[a] # NotClosing /\ object[closing[a].socket] = "deleted"
    /\ Terminate

-----------------------------------------------------------------------------
(* The worker: ix::WebSocket::run, and the callback it calls.              *)

WorkerAt(s, label)   == Runs(s) /\ worker[s] = label
WorkerGoto(s, label) == worker' = [worker EXCEPT ![s] = label]

\* A worker that close has not waited for goes on with a deleted object: it may
\* find it as it was, or end the process.
WorkerUsesFreed(s) ==
    /\ Runs(s) /\ worker[s] \notin {"none", "done"} /\ object[s] = "deleted"
    /\ Terminate

\* checkConnection: connected, closing or stopping needs nothing ...
CheckConnection(s) ==
    /\ WorkerAt(s, "check")
    /\ ready[s] # "closed" \/ stopping[s]
    /\ WorkerGoto(s, "run")
    /\ UNCHANGED <<socketVars, refVars, linkVars, caller, closing, terminated>>

\* ... otherwise it connects again, for ever ...
StartReconnect(s) ==
    /\ WorkerAt(s, "check") /\ ready[s] = "closed" /\ ~stopping[s]
    /\ WorkerGoto(s, "connecting")
    /\ UNCHANGED <<socketVars, refVars, linkVars, caller, closing, terminated>>

Reconnect(s) ==
    /\ WorkerAt(s, "connecting")
    /\ ready' = [ready EXCEPT ![s] = "open"]
    /\ WorkerGoto(s, "check")
    /\ UNCHANGED <<socketVars, refVars, stopping, caller, closing, terminated>>

\* ... and reports each failure.  The callback fires OnError, releases, and
\* raises a Lua error, whichever of these throws first.
ReconnectFails(s) ==
    /\ WorkerAt(s, "connecting")
    /\ Terminate

Run(s) ==
    /\ WorkerAt(s, "run")
    /\ WorkerGoto(s, IF ready[s] = "closed" \/ (stopping[s] /\ ready[s] # "closing")
                     THEN "done" ELSE "poll")
    /\ UNCHANGED <<socketVars, refVars, linkVars, caller, closing, terminated>>

PollNothing(s) ==
    /\ WorkerAt(s, "poll")
    /\ WorkerGoto(s, "check")
    /\ UNCHANGED <<socketVars, refVars, linkVars, caller, closing, terminated>>

\* Fire needs an event in the slot: a free slot holds a number, and getting
\* "Fire" of a number or a thread throws.  An event fires, whoever's it is.
Event(objects) == \E o \in objects : o.kind \in {"message", "close", "error"}
Fire(s, kind, label) ==
    IF ~Event(lua_getref(registry, refs[s][kind]))
    THEN Terminate
    ELSE /\ WorkerGoto(s, label)
         /\ UNCHANGED <<socketVars, refVars, linkVars, caller, closing, terminated>>

PollMessage(s) ==
    /\ WorkerAt(s, "poll") /\ ready[s] # "closed"
    /\ Fire(s, "message", "handler")

HandlerReturns(s) ==
    /\ WorkerAt(s, "handler")
    /\ WorkerGoto(s, "check")
    /\ UNCHANGED <<socketVars, refVars, linkVars, caller, closing, terminated>>

\* The connection ends: its peer answered our close, or the time to do so is
\* up; or the peer or the network ended it.
PollClosed(s) ==
    /\ WorkerAt(s, "poll") /\ (ready[s] = "closing" \/ s \in Unreliable)
    /\ Fire(s, "close", "last handler")

\* The callback goes on to release the references, and forgets none of them.
CallbackReleases(s) ==
    /\ WorkerAt(s, "last handler")
    /\ registry' = Unreferenced(s)
    /\ released' = [released EXCEPT ![s] = @ + 1]
    /\ WorkerGoto(s, "closed")
    /\ UNCHANGED <<socketVars, refs, linkVars, caller, closing, terminated>>

\* Only after the callback does the library call the connection closed.
SetClosed(s) ==
    /\ WorkerAt(s, "closed")
    /\ ready' = [ready EXCEPT ![s] = "closed"]
    /\ WorkerGoto(s, "check")
    /\ UNCHANGED <<socketVars, refVars, stopping, caller, closing, terminated>>

-----------------------------------------------------------------------------
ConnectAction == (\E s \in Sockets : initialize_socket(s)) \/ Connected \/ ConnectFails

CloseStep(a) == StopConnection(a) \/ StopWake(a) \/ StopFlag(a) \/ StopJoin(a) \/ CloseRelease(a)

WorkerAction(s) == \/ CheckConnection(s) \/ StartReconnect(s) \/ Reconnect(s)
                   \/ ReconnectFails(s) \/ Run(s) \/ PollNothing(s) \/ PollMessage(s)
                   \/ HandlerReturns(s) \/ PollClosed(s) \/ CallbackReleases(s)
                   \/ SetClosed(s)

WebsocketNext ==
    \/ ConnectAction
    \/ \E s \in Sockets : send(s) \/ WorkerAction(s) \/ WorkerUsesFreed(s)
    \/ \E a \in Actors : \/ CloseStep(a) \/ CloseUsesFreed(a)
                        \/ \E s \in Sockets : close(a, s)

\* Threads run, and a connection that is being closed is closed in the end:
\* poll stops waiting for the peer's answer after a fixed delay.
WebsocketFairness ==
    /\ WF_websocketVars(ConnectAction)
    /\ \A a \in Actors : WF_websocketVars(CloseStep(a))
    /\ \A s \in Sockets :
         /\ WF_websocketVars(WorkerAction(s))
         /\ SF_websocketVars(ready[s] = "closing" /\ PollClosed(s))

WebsocketSpec == WebsocketInit /\ [][WebsocketNext]_websocketVars /\ WebsocketFairness

-----------------------------------------------------------------------------
(* Properties.                                                             *)

WebsocketTypeOK ==
    /\ websockets \subseteq Sockets /\ held \subseteq Sockets /\ selfClosed \subseteq Sockets
    /\ object \in [Sockets -> {"none", "live", "deleted"}]
    /\ refs \in [Sockets -> [Kinds -> {-1} \cup 1..Len(registry.slots)]]
    /\ released \in [Sockets -> Nat]
    /\ registry.free \in 0..Len(registry.slots)
    /\ ready \in [Sockets -> {"closed", "open", "closing"}]
    /\ stopping \in [Sockets -> BOOLEAN]
    /\ worker \in [Sockets -> {"none", "check", "connecting", "run", "poll",
                               "handler", "last handler", "closed", "done"}]
    /\ caller \in Sockets \cup {NoSocket}
    /\ \A a \in Actors : closing[a] = NotClosing
                            \/ /\ closing[a].at \in {"stop", "wake", "flag", "join", "release"}
                               /\ closing[a].socket \in Sockets
    /\ terminated \in BOOLEAN

\* close, Send and indexing look the socket up in the map and use what they
\* find: it is never a deleted object.
MapHoldsLiveSockets == \A s \in websockets : object[s] = "live"

\* The callback's lambda holds a plain pointer to the socket.  The worker never
\* runs after close has deleted the socket, because close waited for its end:
\* unless it was the worker itself, in a handler, that called close.
WorkerUsesLiveSocket ==
    \A s \in Sockets \ selfClosed : worker[s] \notin {"none", "done"} => object[s] = "live"

\* Workers whose handlers close each other's sockets wait for each other.
CloseEachOther ==
    \E s, r \in Sockets : s # r /\ closing[s].socket = r /\ closing[r].socket = s

\* close comes back to its caller: the wait for the worker ends, unless two
\* workers close each other's sockets (or an exception ended the process).
CloseReturns ==
    \A a \in Actors :
        closing[a] # NotClosing ~> closing[a] = NotClosing \/ terminated \/ CloseEachOther

\* A socket whose references were never released has its own objects in them.
ReferencesAreOwn ==
    \A s \in Sockets : refs[s] # NoRefs /\ released[s] = 0
        => \A k \in Kinds : lua_getref(registry, refs[s][k]) = {Object(s, k)}

\* The same holds of every live reference until some socket's references are
\* released for the second time: a first release, by the callback or by close,
\* while others connect, takes no slot from anybody.
ReferencesOwnUntilReleasedTwice ==
    (\A s \in Sockets : released[s] <= 1)
        => \A s \in Sockets : refs[s] # NoRefs /\ released[s] = 0
              => \A k \in Kinds : lua_getref(registry, refs[s][k]) = {Object(s, k)}

\* close leaves no connection that was open when it was called: the one a
\* deleted socket may still have was made by the library's worker later, after
\* the callback had reported the end of the first and released the events.
LeftOpenIsReconnected ==
    \A s \in Sockets : object[s] = "deleted" /\ ready[s] = "open" => released[s] >= 2

=============================================================================
