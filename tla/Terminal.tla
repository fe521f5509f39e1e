------------------------------ MODULE Terminal ------------------------------
(***************************************************************************)
(* The collaborative terminal of the management panel: the rooms of the    *)
(* server (server/index.ts) and the component that shows one               *)
(* (src/components/CollaborativeTerminal.tsx).  The server's handlers do   *)
(* not wait; a socket's messages come in order.  What is relayed like a    *)
(* line and not kept is left out: cursors, chat, who joined and who left.  *)
(***************************************************************************)
EXTENDS Naturals, Sequences, SequencesExt

CONSTANTS
    Session,        \* names of sessions
    Client,         \* components, each mounted in one browser: 1..n
    None,           \* not there
    MaxSockets,     \* bound: sockets ever opened
    MaxCommands,    \* bound: commands typed
    OutputCap,      \* lines a room keeps (1000)
    ScreenCap       \* lines a component keeps when another comes (500)

VARIABLES
    sockets,        \* number of sockets opened
    peer,           \* the component at the other end of each
    session,        \* the session each asked for
    state,          \* each one's readyState at the server
    room,           \* the room its connection handler took: `room` in the code
    terminalRooms,  \* the room under each session
    clients,        \* the members of each room
    output,         \* the lines of each room
    inbox,          \* messages on their way to each socket's component
    wsRef,          \* each component's socket
    shows,          \* what it shows: connected, lines
    commands,       \* number of commands typed
    doubled         \* history: the components that started a second session
                    \* before the first was there

server == <<state, room, terminalRooms, clients, output>>
component == <<wsRef, shows, doubled>>
vars == <<sockets, peer, session, server, inbox, component, commands>>

Socket == 1..MaxSockets
\* Rooms are named by the socket that made them.
Room == Socket
Opened == 1..sockets

\* Commands are told apart by their number; a component's own notes are left out.
Line == 1..MaxCommands
Message ==
    [type : {"close"}]
    \cup [type : {"history"}, lines : Seq(Line)]
    \cup [type : {"terminal-output"}, line : Line]

-----------------------------------------------------------------------------
\* client.send for the members whose socket is open.
Broadcast(mail, members, message) ==
    [s \in Socket |-> IF s \in members /\ state'[s] = "open"
                      THEN Append(mail[s], message) ELSE mail[s]]

Kept(s, max) == IF Len(s) <= max THEN s ELSE SubSeq(s, Len(s) - max + 1, Len(s))

\* wss.on('connection') with a sessionId: the room of the session or a new one,
\* and what there is so far to the new member (together with the opening of its
\* socket).
Connection(s) ==
    /\ state[s] = "connecting"
    /\ state' = [state EXCEPT ![s] = "open"]
    /\ LET found == terminalRooms[session[s]]
           r == IF found = None THEN s ELSE found
           members == clients[r] \cup {s}
       IN /\ terminalRooms' = [terminalRooms EXCEPT ![session[s]] = r]
          /\ room' = [room EXCEPT ![s] = r]
          /\ clients' = [clients EXCEPT ![r] = members]
          /\ inbox' = [inbox EXCEPT ![s] = <<[type |-> "history", lines |-> output[r]]>>]
    /\ UNCHANGED <<sockets, peer, session, output, component, commands>>

\* 'terminal-input' and 'exec': the line is kept and sent to all.
Exec(s) ==
    /\ state[s] = "open" /\ wsRef[peer[s]] = s /\ shows[peer[s]].connected
    /\ commands < MaxCommands /\ commands' = commands + 1
    /\ output' = [output EXCEPT ![room[s]] = Kept(Append(@, commands'), OutputCap)]
    /\ UNCHANGED state
    /\ inbox' = Broadcast(inbox, clients[room[s]], [type |-> "terminal-output", line |-> commands'])
    /\ UNCHANGED <<sockets, peer, session, room, terminalRooms, clients, component>>

\* A connection ends, by either side: readyState changes first, the close
\* handler runs later.
Closing(s) ==
    /\ state[s] = "open"
    /\ state' = [state EXCEPT ![s] = "closing"]
    /\ inbox' = [inbox EXCEPT ![s] = Append(@, [type |-> "close"])]
    /\ UNCHANGED <<sockets, peer, session, room, terminalRooms, clients, output, component, commands>>

\* ws.on('close'): a room nobody is in is forgotten.
DeletedWith(s, left) == terminalRooms' = [terminalRooms EXCEPT ![session[s]] = None]
Deleted(s, left) ==
    terminalRooms' = IF left = {} THEN [terminalRooms EXCEPT ![session[s]] = None] ELSE terminalRooms

Close(s) ==
    /\ state[s] = "closing"
    /\ state' = [state EXCEPT ![s] = "closed"]
    /\ LET left == clients[room[s]] \ {s} IN
          /\ clients' = [clients EXCEPT ![room[s]] = left]
          /\ Deleted(s, left)
    /\ UNCHANGED <<sockets, peer, session, room, output, inbox, component, commands>>

-----------------------------------------------------------------------------
\* connect, of the button that is there until the component is connected.
\* Without a sessionId the session has the app's name; a component that has one
\* never shows the button.  The components are names: the first one starts.
connect(c, asked) ==
    /\ ~shows[c].connected
    /\ \A other \in Client : other < c => wsRef[other] # None
    /\ sockets < MaxSockets /\ sockets' = sockets + 1
    /\ peer' = [peer EXCEPT ![sockets'] = c]
    /\ session' = [session EXCEPT ![sockets'] = asked]
    /\ state' = [state EXCEPT ![sockets'] = "connecting"]
    /\ wsRef' = [wsRef EXCEPT ![c] = sockets']
    /\ doubled' = IF \E s \in Opened : peer[s] = c /\ (state[s] # "closed" \/ inbox[s] # <<>>)
                  THEN doubled \cup {c} ELSE doubled
    /\ UNCHANGED <<room, terminalRooms, clients, output, inbox, shows, commands>>

\* ws.onopen, onmessage and onclose; each of a component's sockets has them.
View == [connected : BOOLEAN, lines : Seq(Line)]

Seen(view, message) ==
    [connected |-> message.type # "close" /\ (view.connected \/ message.type = "history"),
     lines |-> CASE message.type = "history" -> message.lines
                 [] message.type = "terminal-output" -> Append(Kept(view.lines, ScreenCap), message.line)
                 [] OTHER -> view.lines]

Receive(s) ==
    /\ inbox[s] # <<>>
    /\ inbox' = [inbox EXCEPT ![s] = Tail(@)]
    /\ shows' = [shows EXCEPT ![peer[s]] = Seen(@, Head(inbox[s]))]
    /\ UNCHANGED <<sockets, peer, session, server, wsRef, doubled, commands>>

-----------------------------------------------------------------------------
Init ==
    /\ sockets = 0
    /\ peer = [s \in Socket |-> None] /\ session = [s \in Socket |-> None]
    /\ state = [s \in Socket |-> "none"]
    /\ room = [s \in Socket |-> None]
    /\ terminalRooms = [n \in Session |-> None]
    /\ clients = [r \in Room |-> {}]
    /\ output = [r \in Room |-> <<>>]
    /\ inbox = [s \in Socket |-> <<>>]
    /\ wsRef = [c \in Client |-> None]
    /\ shows = [c \in Client |-> [connected |-> FALSE, lines |-> <<>>]]
    /\ commands = 0
    /\ doubled = {}

Next ==
    \/ \E c \in Client, asked \in Session : connect(c, asked)
    \/ \E s \in Opened : Connection(s) \/ Exec(s) \/ Closing(s) \/ Close(s) \/ Receive(s)

Spec == Init /\ [][Next]_vars

-----------------------------------------------------------------------------
\* The sockets, rooms and components have their types.
TypeOK ==
    /\ sockets \in 0..MaxSockets
    /\ peer \in [Socket -> Client \cup {None}]
    /\ session \in [Socket -> Session \cup {None}]
    /\ state \in [Socket -> {"none", "connecting", "open", "closing", "closed"}]
    /\ room \in [Socket -> Room \cup {None}]
    /\ terminalRooms \in [Session -> Room \cup {None}]
    /\ clients \in [Room -> SUBSET Socket]
    /\ output \in [Room -> Seq(Line)]
    /\ \A r \in Room : Len(output[r]) <= OutputCap
    /\ inbox \in [Socket -> Seq(Message)]
    /\ wsRef \in [Client -> Socket \cup {None}]
    /\ shows \in [Client -> View]
    /\ commands \in 0..MaxCommands
    /\ doubled \subseteq Client

\* The sockets that are in a session, until the close handler has run.
In(s) == state[s] \in {"open", "closing"}

\* All who are in a session are members of one room, the one the next to come
\* will find: a room is not forgotten while somebody is in it, and the close
\* of an earlier room's last socket does not take a later room away.
OneRoom == \A s \in Socket : In(s) => /\ terminalRooms[session[s]] = room[s]
                                      /\ s \in clients[room[s]]

\* A component that has received all that was sent to it shows the commands
\* typed in its session by anybody, in their order, as far as it and the room
\* keep them, and the users who are there.  Excepted are the components whose
\* button was pressed again before the connection was there: they have two
\* sockets and show every line twice.
ScreensAgree ==
    \A s \in Socket :
        LET c == peer[s]
            shown == shows[c].lines
            kept == output[room[s]]
        IN (state[s] = "open" /\ inbox[s] = <<>> /\ c \notin doubled) =>
              /\ \E other \in Room :
                    /\ terminalRooms[session[s]] = other
                    /\ IsSuffix(shown, output[other]) \/ IsSuffix(output[other], shown)
                    /\ output[other] # <<>> => shown # <<>>

=============================================================================
