------------------------------- MODULE Inbox --------------------------------
(***************************************************************************)
(* What a user has not read yet, as the server counts it and as the chat   *)
(* page shows it: getChats and markChatRead of backend/controllers/        *)
(* chatController.js, with the list, its badges and the window of          *)
(* frontend/src/pages/ChatPage.js.                                         *)
(*                                                                         *)
(* One account, Me, with the tab that is modelled and others that are not: *)
(* they send, read and start chats too.  The socket stays up and the       *)
(* server handles an event in one step; ChatServer and ChatTab have the    *)
(* drops and the awaits, StartChat the making of a chat.                   *)
(***************************************************************************)
EXTENDS Integers, Sequences, FiniteSets, SequencesExt

CONSTANTS
    Chats,     \* ids of the chats Me is in, now or later
    Messages,
    MaxOpens,  \* bound on the chats opened in the tab
    None

ASSUME InboxAssumption ==
    IsFiniteSet(Messages) /\ MaxOpens \in Nat /\ None \notin Chats

VARIABLES
    \* The database.
    existing, \* the chats that have been made
    home,     \* the chat of a message, None until it is stored
    mine,     \* messages sent by Me, from another tab
    receipts, \* how many entries of Me a message's readBy has
    \* Between the tab and the server.
    wire,     \* joins and leaves on their way to the server
    rooms,    \* the rooms of the tab's socket
    down,     \* newMessage events on their way to the tab
    asked,    \* GETs of the list not yet executed
    answers,  \* their answers on their way: what was stored, what unread
    puts,     \* PUTs of a chat's receipts in flight
    \* The tab.
    listed,   \* chats of the list
    badge,    \* unreadCount of each
    selected, \* the chat of the window
    opens,
    \* History.
    unmarked, \* messages the tab has not marked: stored while it was not in their
              \* room, or left unread by a PUT that failed
    lost      \* messages no badge need count: since its list was answered neither
              \* event told the tab, or a PUT that failed left them unread

serverVars == <<existing, home, mine, receipts>>
socketVars == <<wire, rooms, down>>
requestVars == <<asked, answers, puts>>
tabVars == <<listed, badge, selected, opens>>
historyVars == <<unmarked, lost>>
vars == <<serverVars, socketVars, requestVars, tabVars, historyVars>>

Stored == {m \in Messages : home[m] # None}

\* The filter of unreadCountExpr and the arrayFilters of markChatRead: what somebody
\* else sent and Me has no receipt for.  Mutant: without the receipts.
UnreadAgain(c) == {m \in Stored : home[m] = c /\ m \notin mine}
Unread(c) == {m \in Stored : home[m] = c /\ m \notin mine /\ receipts[m] = 0}

TypeOK ==
    /\ existing \subseteq Chats
    /\ home \in [Messages -> Chats \cup {None}]
    /\ mine \subseteq Stored
    /\ receipts \in [Messages -> Nat]
    /\ opens \in 0 .. MaxOpens
    /\ rooms \subseteq existing /\ ToSet(down) \subseteq Stored
    /\ asked \in Nat
    /\ puts \in [Chats -> Nat]
    /\ listed \subseteq existing
    /\ badge \in [Chats -> Nat]
    /\ selected \in existing \cup {None}
    /\ unmarked \subseteq Stored /\ lost \subseteq Stored

\* The page has been mounted and has asked for the list; there are chats already.
Init ==
    /\ existing \in SUBSET Chats
    /\ home = [m \in Messages |-> None]
    /\ mine = {}
    /\ receipts = [m \in Messages |-> 0]
    /\ wire = <<>> /\ rooms = {} /\ down = <<>>
    /\ asked = 1 /\ answers = {} /\ puts = [c \in Chats |-> 0]
    /\ listed = {} /\ badge = [c \in Chats |-> 0] /\ selected = None /\ opens = 0
    /\ unmarked = {} /\ lost = {}

-----------------------------------------------------------------------------
(* Messages.                                                               *)

\* sendMessage, by the other participant or by Me in another tab: stored, and
\* emitted to the sockets in the room.
Send(c, m) ==
    /\ c \in existing /\ m \notin Stored
    /\ home' = [home EXCEPT ![m] = c]
    /\ mine' \in {mine, mine \cup {m}}
    /\ IF c \in rooms
       THEN down' = Append(down, m) /\ UNCHANGED <<unmarked, lost>>
       ELSE unmarked' = unmarked \cup {m} /\ lost' = lost \cup {m} /\ UNCHANGED down
    /\ UNCHANGED <<existing, receipts, wire, rooms, requestVars, tabVars>>

\* The server handles a join or a leave of the tab.
WireHandled ==
    /\ wire # <<>>
    /\ rooms' = IF Head(wire).leave THEN rooms \ Head(wire).chats
                                    ELSE rooms \cup Head(wire).chats
    /\ wire' = Tail(wire)
    /\ UNCHANGED <<serverVars, down, requestVars, tabVars, historyVars>>

Join(cs) == [leave |-> FALSE, chats |-> cs]
LeaveOf(c) == [leave |-> TRUE, chats |-> {c}]

\* handleSidebarUpdate: one more, unless the chat is open.  Mutant: for the chats
\* that have a badge already.
CountedIfBadged(c) == IF c \in listed /\ c # selected /\ badge[c] > 0
                      THEN [badge EXCEPT ![c] = @ + 1] ELSE badge
Counted(c) == IF c \in listed /\ c # selected
              THEN [badge EXCEPT ![c] = @ + 1] ELSE badge

\* handleNewMessage marks the open chat as read.  Mutant: it only shows the message.
MarkedOnHearingNot(c) == puts
MarkedOnHearing(c) == IF c = selected THEN [puts EXCEPT ![c] = @ + 1] ELSE puts

MessageHeard ==
    /\ down # <<>>
    /\ badge' = Counted(home[Head(down)])
    /\ puts' = MarkedOnHearing(home[Head(down)])
    /\ down' = Tail(down)
    /\ UNCHANGED <<serverVars, wire, rooms, asked, answers, listed, selected,
                   opens, historyVars>>

-----------------------------------------------------------------------------
(* Receipts.                                                               *)

\* updateOne with arrayFilters: one more receipt for each message they select.
Mark(c) ==
    /\ receipts' = [m \in Messages |-> IF m \in Unread(c) THEN receipts[m] + 1 ELSE receipts[m]]
    /\ unmarked' = unmarked \ Unread(c)
    /\ lost' = lost \ Unread(c)

PutExecuted(c) ==
    /\ puts[c] > 0
    /\ Mark(c)
    /\ puts' = [puts EXCEPT ![c] = @ - 1]
    /\ UNCHANGED <<existing, home, mine, socketVars, asked, answers, tabVars>>

\* A PUT is refused or lost: markChatAsRead logs it, and nothing repeats it.
PutFails(c) ==
    /\ puts[c] > 0
    /\ puts' = [puts EXCEPT ![c] = @ - 1]
    /\ unmarked' = unmarked \cup Unread(c)
    /\ lost' = lost \cup Unread(c)
    /\ UNCHANGED <<serverVars, socketVars, asked, answers, tabVars>>

\* Me reads the chat in another tab.
ReadElsewhere(c) ==
    /\ Unread(c) # {}
    /\ Mark(c)
    /\ UNCHANGED <<existing, home, mine, socketVars, requestVars, tabVars>>

-----------------------------------------------------------------------------
(* The list.                                                               *)

\* getChats: the chats of Me, each with its number of unread messages.  (A GET that
\* fails leaves the list as it is: it is one that is not executed.)
ListRead ==
    /\ asked > 0
    /\ asked' = asked - 1
    /\ answers' = answers \cup
          {[chats |-> existing, stored |-> Stored,
            unread |-> [c \in Chats |-> Cardinality(Unread(c))]]}
    /\ UNCHANGED <<serverVars, socketVars, puts, tabVars, historyVars>>

\* fetchChats: the answer replaces the list, the badges counted meanwhile with it.
ListAnswered(a) ==
    /\ answers' = answers \ {a}
    /\ listed' = a.chats
    /\ badge' = a.unread
    /\ wire' = Append(wire, Join(a.chats))
    /\ lost' = Stored \ (a.stored \cup ToSet(down))
    /\ UNCHANGED <<serverVars, rooms, down, asked, puts, selected, opens,
                   unmarked>>

\* The window shows chat c: its effect leaves the room of the chat before, joins
\* that of c and marks c as read.
Open(c) ==
    /\ selected' = c
    /\ puts' = [puts EXCEPT ![c] = @ + 1]

OpenedRooms(c) == (IF selected = None THEN <<>> ELSE <<LeaveOf(selected)>>) \o <<Join({c})>>

Select(c) ==
    /\ c \in listed /\ opens < MaxOpens
    /\ opens' = opens + 1
    /\ badge' = [badge EXCEPT ![c] = 0]
    /\ Open(c)
    /\ wire' = wire \o OpenedRooms(c)
    /\ UNCHANGED <<serverVars, rooms, down, asked, answers, listed, historyVars>>

-----------------------------------------------------------------------------
(* Starting a chat.                                                        *)

\* The other participant, or Me in another tab, makes a chat: nobody is told.
MadeElsewhere(c) ==
    /\ c \notin existing
    /\ existing' = existing \cup {c}
    /\ UNCHANGED <<home, mine, receipts, socketVars, requestVars, tabVars, historyVars>>

\* handleStartChat and handleChatCreated: the POST has found the chat or made it; its
\* answer opens it in the tab and fetches the list again.
StartChat(c) ==
    /\ opens < MaxOpens /\ opens' = opens + 1
    /\ existing' = existing \cup {c}
    /\ asked' = asked + 1
    /\ Open(c)
    /\ wire' = wire \o OpenedRooms(c)
    /\ UNCHANGED <<home, mine, receipts, rooms, down, answers, listed, badge, historyVars>>

-----------------------------------------------------------------------------
Next ==
    \/ \E c \in Chats, m \in Messages : Send(c, m)
    \/ WireHandled \/ MessageHeard \/ ListRead
    \/ \E c \in Chats : PutExecuted(c) \/ PutFails(c) \/ ReadElsewhere(c) \/ Select(c)
    \/ \E a \in answers : ListAnswered(a)
    \/ \E c \in Chats : MadeElsewhere(c) \/ StartChat(c)

Spec == Init /\ [][Next]_vars

-----------------------------------------------------------------------------
(* Properties.                                                             *)

\* markChatRead "is idempotent: calling it twice does not append a second receipt",
\* from whatever tabs, and a sender has no receipt for a message of their own.
ReadOnce == \A m \in Messages : receipts[m] <= (IF m \in mine THEN 0 ELSE 1)

\* Nothing on its way can still change what is counted for chat c.
Quiet(c) == puts[c] = 0 /\ \A n \in DOMAIN down : home[down[n]] # c

\* The open chat is read: every message the tab was sent while it was in the room,
\* before the chat was opened or after, has its receipt once the PUTs are done
\* (the effect of ChatWindow and handleNewMessage), unless a PUT that failed left
\* it unread and none since has been executed.
OpenIsRead ==
    \A c \in Chats : selected = c /\ Quiet(c) => Unread(c) \subseteq unmarked

\* A badge never hides a message: a chat of the list has at least as many as the
\* server counts as unread, save messages that, since the list was answered, no
\* event told the tab of or a PUT that failed has left unread
\* (getChats, handleSidebarUpdate, handleSelectChat).
BadgeCoversUnread ==
    \A c \in listed : Quiet(c) => badge[c] >= Cardinality(Unread(c) \ lost)

=============================================================================
