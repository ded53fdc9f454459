--------------------------- MODULE EventBroadcast ---------------------------
(***************************************************************************)
(* The sensor events of one process: what it publishes to a Redis channel, *)
(* the listener that reads the channel (demo/socket/redis.py) and sends    *)
(* each event to the web sockets connected here (ws_manager.py,            *)
(* websocket.py).  Events are numbered in the order of publication.        *)
(***************************************************************************)
EXTENDS Naturals, Sequences, FiniteSets

CONSTANTS
    Sockets,
    NoSocket,
    MaxEvents    \* bound: events published

EventsAssumption == NoSocket \notin Sockets /\ MaxEvents \in Nat

VARIABLES
    conns,       \* active_connections
    peer,        \* each socket's life
    listener,    \* start_event_listener
    published,   \* events published so far
    pending,     \* events sent to the subscription and not read yet
    at,          \* index of the iteration over active_connections
    target,      \* the connection of the send in progress
    inbox,       \* the events each socket was sent
    owed,        \* history: who was connected when the broadcast began
    shifted      \* history: a connection already served has left meanwhile

vars  == <<conns, peer, listener, published, pending, at, target, inbox, owed,
           shifted>>
loop  == <<at, target, owed, shifted>>

Members == {conns[i] : i \in DOMAIN conns}
IndexOf(s) == CHOOSE i \in DOMAIN conns : conns[i] = s
Without(s) == SubSeq(conns, 1, IndexOf(s) - 1)
              \o SubSeq(conns, IndexOf(s) + 1, Len(conns))

Init ==
    /\ conns     = <<>>
    /\ peer      = [s \in Sockets |-> "new"]
    /\ listener  = "off"
    /\ published = 0
    /\ pending   = <<>>
    /\ at        = 0
    /\ target    = NoSocket
    /\ inbox     = [s \in Sockets |-> <<>>]
    /\ owed      = {}
    /\ shifted   = FALSE

-----------------------------------------------------------------------------
\* manager.connect: accepted, then appended.
InFront(s)  == <<s>> \o conns                       \* bug: insert(0, ...)
Appended(s) == Append(conns, s)

Connect(s) ==
    /\ peer[s] = "new"
    /\ peer'  = [peer EXCEPT ![s] = "open"]
    /\ conns' = Appended(s)
    /\ UNCHANGED <<listener, published, pending, loop, inbox>>

\* The browser goes away; the endpoint learns of it from receive_text.
Leave(s) ==
    /\ peer[s] = "open"
    /\ peer' = [peer EXCEPT ![s] = "left"]
    /\ UNCHANGED <<conns, listener, published, pending, loop, inbox>>

\* WebSocketDisconnect: manager.disconnect removes it, under a broadcast too.
Disconnect(s) ==
    /\ peer[s] = "left"
    /\ peer'    = [peer EXCEPT ![s] = "closed"]
    /\ shifted' = (shifted \/ (listener = "sending" /\ IndexOf(s) < at))
    /\ conns'   = Without(s)
    /\ owed'    = owed \ {s}
    /\ UNCHANGED <<listener, published, pending, at, target, inbox>>

\* Any other error of the endpoint closes the socket and leaves it listed.
Break(s) ==
    /\ peer[s] \in {"open", "left"}
    /\ peer' = [peer EXCEPT ![s] = "broken"]
    /\ owed' = owed \ {s}
    /\ UNCHANGED <<conns, listener, published, pending, at, target, inbox, shifted>>

\* publish_event: who is not subscribed at that moment misses it.
Publish ==
    /\ published < MaxEvents
    /\ published' = published + 1
    /\ pending' = IF listener \in {"listening", "sending"}
                  THEN Append(pending, published') ELSE pending
    /\ UNCHANGED <<conns, peer, listener, loop, inbox>>

-----------------------------------------------------------------------------
Subscribe ==
    /\ listener = "off"
    /\ listener' = "listening"
    /\ UNCHANGED <<conns, peer, published, pending, loop, inbox>>

\* An event is read: the broadcast goes through the list as it is at each turn.
Receive ==
    /\ listener = "listening" /\ pending # <<>>
    /\ listener' = "sending"
    /\ at'      = 1
    /\ owed'    = {s \in Members : peer[s] # "broken"}
    /\ shifted' = FALSE
    /\ UNCHANGED <<conns, peer, published, pending, target, inbox>>

NextTurn ==                                         \* bug: one is passed over
    /\ listener = "sending" /\ target = NoSocket /\ at <= Len(conns)
    /\ target' = conns[at]
    /\ at'     = at + 2
    /\ UNCHANGED <<conns, peer, listener, published, pending, owed, shifted, inbox>>
Turn ==
    /\ listener = "sending" /\ target = NoSocket /\ at <= Len(conns)
    /\ target' = conns[at]
    /\ at'     = at + 1
    /\ UNCHANGED <<conns, peer, listener, published, pending, owed, shifted, inbox>>

\* send_text returns; a peer that has left may not have been noticed yet.
Sent ==
    /\ target # NoSocket /\ peer[target] \in {"open", "left"}
    /\ inbox'  = [inbox EXCEPT ![target] = Append(@, Head(pending))]
    /\ target' = NoSocket
    /\ UNCHANGED <<conns, peer, listener, published, pending, at, owed, shifted>>

Over == /\ pending' = <<>>
        /\ at'      = 0
        /\ target'  = NoSocket
        /\ owed'    = {}
        /\ shifted' = FALSE

\* It raises: the error leaves broadcast and listen, and the listener is over.
SendRaised ==
    /\ target # NoSocket /\ peer[target] # "open"
    /\ listener' = "ended"
    /\ Over
    /\ UNCHANGED <<conns, peer, published, inbox>>

\* So does an error of Redis.
ListenRaised ==
    /\ listener \in {"off", "listening"}
    /\ listener' = "ended"
    /\ Over
    /\ UNCHANGED <<conns, peer, published, inbox>>

\* The iteration is past the end of the list.
Broadcast ==
    /\ listener = "sending" /\ target = NoSocket /\ at > Len(conns)
    /\ listener' = "listening"
    /\ pending'  = Tail(pending)
    /\ at'       = 0
    /\ UNCHANGED <<conns, peer, published, target, owed, shifted, inbox>>

Next ==
    \/ \E s \in Sockets : Connect(s) \/ Leave(s) \/ Disconnect(s) \/ Break(s)
    \/ Publish \/ Subscribe \/ Receive \/ Turn \/ Sent \/ SendRaised
    \/ ListenRaised \/ Broadcast

Spec == Init /\ [][Next]_vars

-----------------------------------------------------------------------------
TypeOK ==
    /\ conns \in Seq(Sockets)
    /\ peer \in [Sockets -> {"new", "open", "left", "closed", "broken"}]
    /\ listener \in {"off", "listening", "sending", "ended"}
    /\ published \in 0 .. MaxEvents
    /\ pending \in Seq(1 .. MaxEvents)
    /\ at \in Nat
    /\ target \in Sockets \cup {NoSocket}
    /\ inbox \in [Sockets -> Seq(1 .. MaxEvents)]
    /\ owed \subseteq Sockets
    /\ shifted \in BOOLEAN

\* A socket is sent every event once at most and in the order of publication,
\* whoever connects or leaves while the list is iterated.
EventsInOrder ==
    \A s \in Sockets : \A i, j \in DOMAIN inbox[s] :
        i < j => inbox[s][i] < inbox[s][j]

\* A broadcast that comes to its end has reached everyone who was connected when
\* it began and still is, unless a connection it had served left meanwhile.
ReachesAll ==
    Broadcast /\ ~shifted =>
        \A s \in owed : \E i \in DOMAIN inbox[s] : inbox[s][i] = Head(pending)

NobodySkipped == [][ReachesAll]_vars

=============================================================================
