----------------------------- MODULE ChatServer -----------------------------
(***************************************************************************)
(* The server's side of a chat socket: the handlers registerSocketHandlers *)
(* gives it (backend/socket/index.js), with the per-socket authorization   *)
(* cache (backend/utils/socketSecurity.js), and the messages of the chats  *)
(* (backend/models/Chat.js).                                               *)
(*                                                                         *)
(* One socket is followed, with the events its client has emitted on one   *)
(* wire and what the server has emitted to it on another.  The messages    *)
(* are sent by it or by any other socket.  A handler runs to its first     *)
(* await when its event arrives and goes on when the database answers, so  *)
(* a leaveChat, which awaits nothing, overtakes the joinChat before it,    *)
(* and two messages can be saved in one order and broadcast in the other.  *)
(*                                                                         *)
(* typing, which changes nothing but what others see for a second, is left *)
(* out; so are the contents of messages and malformed payloads.            *)
(***************************************************************************)
EXTENDS Integers, SequencesExt

CONSTANTS
    Chats,
    Mine,           \* the chats the socket's account takes part in
    Msgs,           \* messages that may be sent
    ChatOf,         \* the chat a message is sent to
    Own,            \* messages the followed socket sends
    MaxChatsPerJoin,\* MAX_CHATS_PER_JOIN
    MaxTrouble      \* bound on what goes wrong or is asked for out of turn

ASSUME ChatsAssumption ==
    /\ IsFiniteSet(Chats) /\ Mine \subseteq Chats
    /\ ChatOf \in [Msgs -> Chats]
ASSUME SendersAssumption == Own \subseteq Msgs
ASSUME JoinAssumption == MaxChatsPerJoin \in Nat \ {0}
ASSUME TroubleAssumption == MaxTrouble \in Nat

VARIABLES
    connected,  \* the socket is connected
    wire,       \* events from the client, not yet at the server
    down,       \* newMessage events, not yet at the client
    rooms,      \* the chat rooms the socket is in
    authorized, \* socket.data.authorizedChats
    joining,    \* joinChat(s) handlers awaiting their authorization query
    refused,    \* history: chats whose join was last answered with an error
    trouble,    \* throttled events, failed joins and sends, lost connections,
                \* strays
    sending,    \* where each message is in its sendMessage handler
    stored,     \* messages of each chat, as saved
    lastMessage \* lastMessage of each chat, as saved; None before the first

socketVars == <<connected, wire, down, rooms, authorized, joining, refused>>
messageVars == <<sending, stored, lastMessage>>
serverVars == <<socketVars, messageVars, trouble>>

None == "none"
Progress == {"unsent", "find", "save", "populate", "sent", "denied"}

\* Events of the client: a joinChat is a joinChats of one chat.
Join(ids) == [kind |-> "join", chats |-> ids]
LeaveOf(c) == [kind |-> "leave", chats |-> {c}]
SendOf(m) == [kind |-> "send", message |-> m]
Events == {Join(ids) : ids \in SUBSET Chats} \cup {LeaveOf(c) : c \in Chats}
          \cup {SendOf(m) : m \in Own}

ServerInit ==
    /\ connected = FALSE
    /\ wire = <<>>
    /\ down = <<>>
    /\ rooms = {}
    /\ authorized = {}
    /\ joining = <<>>
    /\ refused = {}
    /\ trouble = 0
    \* those of other sockets are at the server already
    /\ sending = [m \in Msgs |-> IF m \in Own THEN "unsent" ELSE "find"]
    /\ stored = [c \in Chats |-> <<>>]
    /\ lastMessage = [c \in Chats |-> None]

-----------------------------------------------------------------------------
(* Subscribing.                                                            *)

\* The next event of the wire is the socket's, and of this kind.
Arrives(kind) ==
    /\ connected
    /\ wire # <<>>
    /\ Head(wire).kind = kind
    /\ wire' = Tail(wire)

Trouble ==
    /\ trouble < MaxTrouble
    /\ trouble' = trouble + 1

\* The socket is told of an error, and joins none of these chats; it may be in
\* the rooms of some already.
JoinRefused(ids) == refused' = refused \cup (ids \ rooms)

\* throttle(): over its budget, the event is answered with an error.
Throttled(kind) ==
    /\ Arrives(kind)
    /\ Trouble
    /\ IF kind = "join" THEN JoinRefused(Head(wire).chats) ELSE UNCHANGED refused
    /\ UNCHANGED <<connected, down, rooms, authorized, joining, messageVars>>

\* joinChats, joinChat and authorizeChat(s): a longer list than the cap is
\* refused as a whole; chats already authorized are joined without a query,
\* but only with the others.
JoinArrives ==
    /\ Arrives("join")
    /\ LET ids == Head(wire).chats
       IN  \/ /\ Cardinality(ids) > MaxChatsPerJoin
              /\ JoinRefused(ids)
              /\ UNCHANGED <<rooms, joining>>
           \/ /\ Cardinality(ids) <= MaxChatsPerJoin
              /\ ids \subseteq authorized
              /\ rooms' = rooms \cup ids
              /\ refused' = refused \ ids
              /\ UNCHANGED joining
           \/ /\ Cardinality(ids) <= MaxChatsPerJoin
              /\ ~(ids \subseteq authorized)
              /\ joining' = Append(joining, [cached |-> ids \cap authorized,
                                             asked |-> ids \ authorized])
              /\ UNCHANGED <<rooms, refused>>
    /\ UNCHANGED <<connected, down, authorized, messageVars, trouble>>

\* The query's answer: the chats asked for that the account takes part in; a
\* mutant that believes the client.
GrantedAll(asked) == asked
Granted(asked) == asked \cap Mine

\* The rooms a handler whose query is answered joins.
Joined(j) == j.cached \cup Granted(j.asked)

\* A query is answered, not always in the order the queries were sent.
JoinAuthorized(n) ==
    /\ authorized' = authorized \cup Granted(joining[n].asked)
    /\ rooms' = rooms \cup Joined(joining[n])
    /\ refused' = refused \ Joined(joining[n])
    /\ joining' = RemoveAt(joining, n)
    /\ UNCHANGED <<connected, wire, down, messageVars, trouble>>

\* Or it is rejected: JOIN_FAILED, and not even the chats authorized before are
\* joined.  The client does nothing about it.
JoinFails(n) ==
    /\ Trouble
    /\ JoinRefused(joining[n].cached \cup joining[n].asked)
    /\ joining' = RemoveAt(joining, n)
    /\ UNCHANGED <<connected, wire, down, rooms, authorized, messageVars>>

\* leaveChat
LeaveArrives ==
    /\ Arrives("leave")
    /\ rooms' = rooms \ Head(wire).chats
    /\ authorized' = authorized \ Head(wire).chats
    /\ UNCHANGED <<connected, down, joining, refused, messageVars, trouble>>

-----------------------------------------------------------------------------
(* Sending.                                                                *)

\* sendMessage of the followed socket reaches its first await.
SendArrives ==
    /\ Arrives("send")
    /\ sending' = [sending EXCEPT ![Head(wire).message] = "find"]
    /\ UNCHANGED <<connected, down, rooms, authorized, joining, refused, stored,
                   lastMessage, trouble>>

\* await Chat.findById(chatId): the sender takes part in the chat.
ChatFound(m) ==
    /\ sending[m] = "find"
    /\ sending' = [sending EXCEPT ![m] = "save"]
    /\ UNCHANGED <<socketVars, stored, lastMessage, trouble>>

\* await chat.save(): one update that pushes the message and sets lastMessage.
Save(m) ==
    /\ sending[m] = "save"
    /\ stored' = [stored EXCEPT ![ChatOf[m]] = Append(@, m)]
    /\ lastMessage' = [lastMessage EXCEPT ![ChatOf[m]] = m]
    /\ sending' = [sending EXCEPT ![m] = "populate"]
    /\ UNCHANGED <<socketVars, trouble>>

\* A mutant that does not wait for the save.
BroadcastUnsaved(m) ==
    /\ sending[m] = "save"
    /\ sending' = [sending EXCEPT ![m] = "sent"]
    /\ down' = IF ChatOf[m] \in rooms THEN Append(down, m) ELSE down
    /\ UNCHANGED <<connected, wire, rooms, authorized, joining, refused, stored,
                   lastMessage, trouble>>

\* await chat.populate(...) and the broadcast to the room
Broadcast(m) ==
    /\ sending[m] = "populate"
    /\ sending' = [sending EXCEPT ![m] = "sent"]
    /\ down' = IF ChatOf[m] \in rooms THEN Append(down, m) ELSE down
    /\ UNCHANGED <<connected, wire, rooms, authorized, joining, refused, stored,
                   lastMessage, trouble>>

\* The sender takes no part in the chat, or an await is rejected: the sender is
\* told so, though the message may have been saved.
SendFails(m) ==
    /\ sending[m] \in {"find", "save", "populate"}
    /\ Trouble
    /\ sending' = [sending EXCEPT ![m] = "denied"]
    /\ UNCHANGED <<socketVars, stored, lastMessage>>

-----------------------------------------------------------------------------
\* The handlers' steps; they leave the client as it is.
ServerStep ==
    \/ \E kind \in {"join", "leave", "send"} : Throttled(kind)
    \/ JoinArrives \/ LeaveArrives \/ SendArrives
    \/ \E n \in DOMAIN joining : JoinAuthorized(n) \/ JoinFails(n)
    \/ \E m \in Msgs : ChatFound(m) \/ Save(m) \/ Broadcast(m) \/ SendFails(m)

-----------------------------------------------------------------------------
(* Properties.                                                             *)

ServerTypeOK ==
    /\ connected \in BOOLEAN /\ refused \subseteq Chats /\ trouble \in 0 .. MaxTrouble
    /\ wire \in Seq(Events)
    /\ down \in Seq(Msgs)
    /\ rooms \subseteq Chats /\ authorized \subseteq Chats
    /\ \A n \in DOMAIN joining : /\ joining[n].cached \subseteq Chats
                                 /\ joining[n].asked \subseteq Chats
    /\ sending \in [Msgs -> Progress]
    /\ stored \in [Chats -> Seq(Msgs)]
    /\ lastMessage \in [Chats -> Msgs \cup {None}]

\* A socket hears a chat, or is about to, only if its account takes part in it:
\* what the client asks for, what the cache holds and what a handler in flight
\* will join never go beyond that.
OnlyParticipants ==
    /\ rooms \cup authorized \subseteq Mine
    /\ \A n \in DOMAIN joining : joining[n].cached \subseteq Mine

=============================================================================
