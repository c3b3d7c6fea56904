------------------------------ MODULE ChatTab -------------------------------
(***************************************************************************)
(* A browser tab on the chat page, and the server it talks to: the socket  *)
(* context (frontend/src/context/SocketContexts.js), the chat list and the *)
(* chat window (frontend/src/pages/ChatPage.js), and the GET of a chat's   *)
(* messages (backend/controllers/chatController.js) that races what comes  *)
(* over the socket.                                                        *)
(*                                                                         *)
(* Events emitted while the socket is down wait in its buffer and are sent *)
(* when it is up again, before the re-join.                                *)
(***************************************************************************)
EXTENDS ChatServer

CONSTANTS
    MaxSelections   \* bound on the clicks on a chat of the list

ASSUME SelectionsAssumption == MaxSelections \in Nat

VARIABLES
    socket,   \* the context's `socket` is set
    early,    \* it was set when the page was mounted
    joined,   \* joinedChatsRef: rooms the client believes it is subscribed to
    listed,   \* chats of the list, empty until GET /chats has answered
    selected, \* the chat of the window
    shown,    \* the window's messages
    gets,     \* GETs of messages in flight: the chat, and the answer once read
    clicks    \* selections so far

tabVars == <<socket, early, joined, listed, selected, shown, gets, clicks>>
vars == <<serverVars, tabVars>>

Unread == <<"not read yet">>

Init ==
    /\ ServerInit
    /\ early \in BOOLEAN
    /\ socket = early
    /\ joined = {}
    /\ listed = {}
    /\ selected = None
    /\ shown = <<>>
    /\ gets = <<>>
    /\ clicks = 0

-----------------------------------------------------------------------------
(* The socket.                                                             *)

\* The effect of ChatWindow: GET the messages and join the room.
EnterChat(c) ==
    /\ gets' = Append(gets, [chat |-> c, answer |-> Unread])
    /\ joined' = (joined \ {selected}) \cup {c}

\* The context sets its socket, if the page was there before it; a chat that is
\* selected already is fetched and joined now.
SocketSet ==
    /\ ~socket
    /\ socket' = TRUE
    /\ IF selected = None
       THEN UNCHANGED <<joined, gets, wire>>
       ELSE EnterChat(selected) /\ wire' = Append(wire, Join({selected}))
    /\ UNCHANGED <<connected, down, rooms, authorized, joining, refused, messageVars, trouble,
                   early, listed, selected, shown, clicks>>

\* What the 'connect' handler sends after what was buffered.  Mutant: nothing.
NoRejoin == <<>>
Rejoin == IF joined = {} THEN <<>> ELSE <<Join(joined)>>

Connects ==
    /\ socket
    /\ ~connected
    /\ connected' = TRUE
    /\ wire' = wire \o Rejoin
    /\ UNCHANGED <<down, rooms, authorized, joining, refused, messageVars, trouble, tabVars>>

\* The connection is lost, with what is on its way; the server's socket is gone.
Drops ==
    /\ connected
    /\ Trouble
    /\ connected' = FALSE
    /\ wire' = <<>>
    /\ down' = <<>>
    /\ rooms' = {}
    /\ authorized' = {}
    /\ joining' = <<>>
    /\ refused' = {}
    /\ UNCHANGED <<messageVars, socket, early, joined, listed, selected,
                   shown, gets, clicks>>

-----------------------------------------------------------------------------
(* The page.                                                               *)

\* GET /chats answers: the list is filled, and joined through the helper of the
\* render the page was mounted in, which does nothing if there was no socket.
ListAnswered ==
    /\ listed = {}
    /\ Mine # {}
    /\ listed' = Mine
    /\ IF early
       THEN joined' = joined \cup Mine /\ wire' = Append(wire, Join(Mine))
       ELSE UNCHANGED <<joined, wire>>
    /\ UNCHANGED <<connected, down, rooms, authorized, joining, refused, messageVars, trouble,
                   socket, early, selected, shown, gets, clicks>>

\* A click on a chat of the list: the effect of the window leaves the chat it
\* showed, the same one even, and enters the new one.
Select(c) ==
    /\ c \in listed
    /\ clicks < MaxSelections
    /\ clicks' = clicks + 1
    /\ selected' = c
    /\ IF socket
       THEN /\ EnterChat(c)
            /\ wire' = wire \o (IF selected = None THEN <<>> ELSE <<LeaveOf(selected)>>)
                            \o <<Join({c})>>
       ELSE UNCHANGED <<joined, gets, wire>>
    /\ UNCHANGED <<connected, down, rooms, authorized, joining, refused, messageVars, trouble,
                   socket, early, listed, shown>>

\* The server reads a chat's messages for a GET ...
GetReads(n) ==
    /\ gets[n].answer = Unread
    /\ gets' = [gets EXCEPT ![n].answer = stored[gets[n].chat]]
    /\ UNCHANGED <<serverVars, socket, early, joined, listed, selected, shown, clicks>>

\* ... and the answer replaces the window's messages, whatever it shows by then.
GetAnswers(n) ==
    /\ gets[n].answer # Unread
    /\ shown' = gets[n].answer
    /\ gets' = RemoveAt(gets, n)
    /\ UNCHANGED <<serverVars, socket, early, joined, listed, selected, clicks>>

\* What the window's newMessage handler does to the messages: no message twice.
\* Mutant: without the comparison of ids.
ShowAgain(m) == IF ChatOf[m] = selected THEN Append(shown, m) ELSE shown
Show(m) == IF ChatOf[m] = selected /\ ~Contains(shown, m) THEN Append(shown, m)
                                                          ELSE shown

MessageHeard ==
    /\ down # <<>>
    /\ shown' = Show(Head(down))
    /\ down' = Tail(down)
    /\ UNCHANGED <<connected, wire, rooms, authorized, joining, refused, messageVars, trouble,
                   socket, early, joined, listed, selected, gets, clicks>>

\* handleSendMessage
Type(m) ==
    /\ m \in Own
    /\ sending[m] = "unsent"
    /\ ~Contains(wire, SendOf(m))
    /\ socket
    /\ selected = ChatOf[m]
    /\ wire' = Append(wire, SendOf(m))
    /\ UNCHANGED <<connected, down, rooms, authorized, joining, refused, messageVars, trouble,
                   tabVars>>

\* Any client may emit any ids: somebody else's chat, or all there are.
Stray(ids) ==
    /\ socket
    /\ Trouble
    /\ wire' = Append(wire, Join(ids))
    /\ UNCHANGED <<connected, down, rooms, authorized, joining, refused, messageVars,
                   socket, early, joined, listed, selected, shown, gets, clicks>>

-----------------------------------------------------------------------------
TabStep ==
    \/ SocketSet \/ Connects \/ Drops \/ ListAnswered \/ MessageHeard
    \/ \E c \in Mine : Select(c)
    \/ \E n \in DOMAIN gets : GetReads(n) \/ GetAnswers(n)
    \/ \E m \in Own : Type(m)
    \/ \E ids \in {Chats \ Mine, Chats} : Stray(ids)

Next == (ServerStep /\ UNCHANGED tabVars) \/ TabStep

Spec == Init /\ [][Next]_vars

-----------------------------------------------------------------------------
(* Properties.                                                             *)

TypeOK ==
    /\ ServerTypeOK
    /\ socket \in BOOLEAN /\ early \in BOOLEAN
    /\ joined \subseteq Chats /\ listed \subseteq Chats
    /\ selected \in Chats \cup {None}
    /\ shown \in Seq(Msgs)
    /\ \A n \in DOMAIN gets : gets[n].chat \in Chats
    /\ clicks \in 0 .. MaxSelections

\* Nothing is on its way between the tab and the server.
Settled == connected /\ wire = <<>> /\ joining = <<>>

\* "Rooms this client believes it is subscribed to": through re-joins, buffered
\* events, queries answered out of order and a leave that overtakes a join, a
\* connected client whose events have all been handled is in every room it
\* believes to be in, but for those whose join it was told had failed.
SubscribedAsBelieved == Settled => joined \ refused \subseteq rooms

\* "A message is never rendered twice", between the answers of GETs and the
\* messages heard, in whatever order they come.
NeverShownTwice == IsInjective(shown)

\* What the window shows would be there after a reload: each of its messages is
\* in the database, whichever of GET and socket brought it, though a sender may
\* have been told that the message failed.
ShownIsKept == \A m \in Range(shown) : Contains(stored[ChatOf[m]], m)

\* "To keep the sidebar's last message and unread badge up to date" the rooms of
\* the chats of the list stay joined, if the page joined them at all.
SidebarSubscribed == Settled /\ refused = {} /\ early => listed \subseteq rooms

=============================================================================
