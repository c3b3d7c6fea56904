------------------------------ MODULE StartChat ------------------------------
(***************************************************************************)
(* How a direct chat comes to be: the dialog of frontend/src/pages/        *)
(* ChatPage.js with its search, the Message button of ViewStory.js, and    *)
(* createDirectChat of backend/controllers/chatController.js, which looks  *)
(* for the chat of the two and, in a later step, saves one.                *)
(*                                                                         *)
(* One account, Me, has the dialog that is modelled; its other tabs and    *)
(* the other users ask too.  The list the new chat goes to is Inbox's.     *)
(***************************************************************************)
EXTENDS Naturals, FiniteSets

CONSTANTS
    Users,
    Me,
    Posts,     \* the POSTs of createDirectChat there can be
    Texts,     \* what can be typed
    MaxTyping, \* bound on the changes of the text
    NoText,    \* the empty text, and the list without a search
    None       \* not asked yet

ASSUME StartChatAssumption ==
    /\ Me \in Users /\ NoText \notin Texts /\ MaxTyping \in Nat
    /\ IsFiniteSet(Posts)

VARIABLES
    chats,      \* [owner, other, by]: the chats, with the POST that saved each
    posts,      \* the POSTs, by id
    raced,      \* pairs two POSTs of which were between look-up and save at once
    \* The dialog.
    open,       \* is it up
    text,       \* its text field
    found,      \* the text whose users are listed, NoText if none are
    searching,  \* its spinner
    searches,   \* searches in flight
    typed

dialogVars == <<open, text, found, searching, searches, typed>>
startChatVars == <<chats, posts, raced, dialogVars>>

Pair(a, b) == {a, b}

PostStates == {"sent", "missed", "answered", "done"}
Post == [from : Users, to : Users, state : PostStates, dialog : BOOLEAN]

StartChatTypeOK ==
    /\ chats \subseteq [owner : Users, other : Users, by : Posts]
    /\ posts \in [Posts -> Post \cup {None}]
    /\ raced \subseteq SUBSET Users
    /\ open \in BOOLEAN /\ searching \in BOOLEAN
    /\ text \in Texts \cup {NoText} /\ found \in Texts \cup {NoText}
    /\ searches \subseteq [n : 1 .. MaxTyping, text : Texts]
    /\ typed \in 0 .. MaxTyping

StartChatInit ==
    /\ chats = {} /\ raced = {}
    /\ posts = [p \in Posts |-> None]
    /\ open = FALSE /\ text = NoText /\ found = NoText
    /\ searching = FALSE /\ searches = {} /\ typed = 0

-----------------------------------------------------------------------------
(* The dialog.                                                             *)

\* The effect of the dialog on its text and on being opened or closed.
SearchFor(t, up) ==
    /\ typed < MaxTyping
    /\ typed' = typed + 1
    /\ open' = up /\ text' = t
    /\ IF up /\ t # NoText
       THEN /\ searches' = searches \cup {[n |-> typed + 1, text |-> t]}
            /\ searching' = TRUE
            /\ UNCHANGED found
       ELSE /\ found' = NoText
            /\ UNCHANGED <<searches, searching>>

OpenDialog == ~open /\ SearchFor(text, TRUE) /\ UNCHANGED <<chats, posts, raced>>
CloseDialog == open /\ SearchFor(text, FALSE) /\ UNCHANGED <<chats, posts, raced>>
Type(t) == open /\ t # text /\ SearchFor(t, TRUE) /\ UNCHANGED <<chats, posts, raced>>

\* Any answer replaces the list and ends the spinner.
SearchAnswered(s) ==
    /\ searches' = searches \ {s}
    /\ searching' = FALSE
    /\ found' \in {s.text, found}
    /\ UNCHANGED <<chats, posts, raced, open, text, typed>>

-----------------------------------------------------------------------------
(* createDirectChat.                                                       *)

Free(p) == posts[p] = None

Send(p, a, b, dialog) ==
    /\ Free(p) /\ a # b
    /\ posts' = [posts EXCEPT ![p] = [from |-> a, to |-> b, state |-> "sent", dialog |-> dialog]]
    /\ UNCHANGED <<chats, raced, dialogVars>>

\* handleStartChat: a user of the list is clicked, which a first answer has not
\* removed yet when it is a double click.
StartChatWith(p, u) ==
    /\ open /\ found # NoText /\ ~searching
    /\ Send(p, Me, u, TRUE)

\* handleMessage of a story's page, and everybody else.
AskElsewhere(p, a, b) == Send(p, a, b, FALSE)

\* findOne: both in the participants, in either order.  Mutant: in the order asked.
ChatsOfOrdered(a, b) == {c \in chats : c.owner = a /\ c.other = b}
ChatsOf(a, b) == {c \in chats : Pair(c.owner, c.other) = Pair(a, b)}

\* Others of the same two that have looked and not saved.
Rivals(p) ==
    {q \in Posts \ {p} : /\ posts[q] # None
                         /\ posts[q].state = "missed"
                         /\ Pair(posts[q].from, posts[q].to) = Pair(posts[p].from, posts[p].to)}

FindChat(p) ==
    /\ ~Free(p) /\ posts[p].state = "sent"
    /\ IF ChatsOf(posts[p].from, posts[p].to) # {}
       THEN /\ posts' = [posts EXCEPT ![p].state = "answered"]
            /\ UNCHANGED raced
       ELSE /\ posts' = [posts EXCEPT ![p].state = "missed"]
            /\ raced' = IF Rivals(p) # {} THEN raced \cup {Pair(posts[p].from, posts[p].to)}
                        ELSE raced
    /\ UNCHANGED <<chats, dialogVars>>

\* save() of the new chat; nothing in the schema keeps a second one out.
SaveChat(p) ==
    /\ ~Free(p) /\ posts[p].state = "missed"
    /\ chats' = chats \cup {[owner |-> posts[p].from, other |-> posts[p].to, by |-> p]}
    /\ posts' = [posts EXCEPT ![p].state = "answered"]
    /\ UNCHANGED <<raced, dialogVars>>

\* The request fails before or at the look-up or the save: nothing is written.
PostFails(p) ==
    /\ ~Free(p) /\ posts[p].state \in {"sent", "missed"}
    /\ posts' = [posts EXCEPT ![p].state = "done"]
    /\ UNCHANGED <<chats, raced, dialogVars>>

\* The dialog closes, its text and list are emptied; the list of chats takes the
\* chat.  The answer may get lost.
PostAnswered(p) ==
    /\ ~Free(p) /\ posts[p].state = "answered"
    /\ posts' = [posts EXCEPT ![p].state = "done"]
    /\ IF posts[p].dialog
       THEN open' = FALSE /\ text' = NoText /\ found' = NoText
       ELSE UNCHANGED <<open, text, found>>
    /\ UNCHANGED <<chats, raced, searching, searches, typed>>

PostAnswerLost(p) ==
    /\ ~Free(p) /\ posts[p].state = "answered"
    /\ posts' = [posts EXCEPT ![p].state = "done"]
    /\ UNCHANGED <<chats, raced, dialogVars>>

-----------------------------------------------------------------------------
StartChatNext ==
    \/ OpenDialog \/ CloseDialog
    \/ \E t \in Texts \cup {NoText} : Type(t)
    \/ \E s \in searches : SearchAnswered(s)
    \/ \E p \in Posts :
          \/ FindChat(p) \/ SaveChat(p) \/ PostFails(p) \/ PostAnswered(p) \/ PostAnswerLost(p)
          \/ \E u \in Users : StartChatWith(p, u)
          \/ \E a, b \in Users : AskElsewhere(p, a, b)

StartChatSpec == StartChatInit /\ [][StartChatNext]_startChatVars

-----------------------------------------------------------------------------
(* Properties.                                                             *)

\* Two people have one chat, whoever asks first and however often, until two requests
\* of theirs are between look-up and save at once, as those of a double click in the
\* dialog can be (createDirectChat, handleStartChat).
OneChatPerPair ==
    \A c, d \in chats :
        Pair(c.owner, c.other) = Pair(d.owner, d.other) /\ c # d => Pair(c.owner, c.other) \in raced

=============================================================================
