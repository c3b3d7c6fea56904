----------------------------- MODULE ChatProofs -----------------------------
(***************************************************************************)
(* Proofs about ChatTab: for every set of chats and messages, every cap    *)
(* and every bound, a socket hears only the chats its account takes part   *)
(* in.  The invariant speaks of the wire and of the page as well, because  *)
(* the rooms a handler will join come from there.                          *)
(***************************************************************************)
EXTENDS ChatTab, FiniteSetTheorems, TLAPS

\* A joinChat(s) handler that awaits its query.
Joins == [cached : SUBSET Mine, asked : SUBSET Chats]

\* What the page emits and what the server has made of it.
PageSafe ==
    /\ wire \in Seq(Events)
    /\ joined \subseteq Chats
    /\ listed \subseteq Chats
    /\ selected \in Chats \cup {None}

RoomsSafe ==
    /\ rooms \subseteq Mine
    /\ authorized \subseteq Mine
    /\ joining \in Seq(Joins)

ChatInv == PageSafe /\ RoomsSafe

-----------------------------------------------------------------------------
\* What the client emits are events.
LEMMA EventsEmitted ==
    /\ \A ids \in SUBSET Chats : Join(ids) \in Events
    /\ \A c \in Chats : LeaveOf(c) \in Events
    /\ \A m \in Own : SendOf(m) \in Events
  BY DEF Events

\* The event a handler takes off the wire, and what is left of it.
LEMMA EventArrives ==
    ASSUME wire \in Seq(Events), NEW kind, Arrives(kind)
    PROVE  /\ Head(wire) \in Events
           /\ wire' \in Seq(Events)
           /\ Head(wire).kind = kind
  BY DEF Arrives

\* A joinChat(s) event names chats.
LEMMA JoinNamesChats ==
    ASSUME NEW e \in Events, e.kind = "join"
    PROVE  e.chats \subseteq Chats
  <1>1. CASE e \in {Join(ids) : ids \in SUBSET Chats}
    BY <1>1 DEF Join
  <1>2. CASE e \in {LeaveOf(c) : c \in Chats}
    BY <1>2 DEF LeaveOf
  <1>3. CASE e \in {SendOf(m) : m \in Own}
    BY <1>3 DEF SendOf
  <1> QED
    BY <1>1, <1>2, <1>3 DEF Events

\* Sequences of events stay such as events are added.
LEMMA GrowsInSeq ==
    ASSUME NEW S, NEW s \in Seq(S)
    PROVE  /\ \A e \in S : Append(s, e) \in Seq(S)
           /\ \A t \in Seq(S) : \A e \in S : s \o t \o <<e>> \in Seq(S)
  OBVIOUS

\* A handler less among those that wait.
LEMMA OneLess ==
    ASSUME NEW S, NEW s \in Seq(S), NEW n \in DOMAIN s
    PROVE  RemoveAt(s, n) \in Seq(S)
  BY DEF RemoveAt

-----------------------------------------------------------------------------
\* Each step of the server keeps the rooms safe, and takes from the wire only.
LEMMA ServerKeeps ==
    ASSUME ChatInv, ServerStep
    PROVE  wire' \in Seq(Events) /\ RoomsSafe'
  <1> USE DEF ChatInv, PageSafe, RoomsSafe
  <1>1. ASSUME NEW kind \in {"join", "leave", "send"}, Throttled(kind)
        PROVE  wire' \in Seq(Events) /\ RoomsSafe'
    BY <1>1, EventArrives DEF Throttled
  <1>2. ASSUME JoinArrives PROVE wire' \in Seq(Events) /\ RoomsSafe'
    <2>1. wire' \in Seq(Events) /\ Head(wire).chats \subseteq Chats
      BY <1>2, EventArrives, JoinNamesChats DEF JoinArrives
    <2>2. authorized' = authorized
      BY <1>2 DEF JoinArrives
    <2>3. CASE Head(wire).chats \subseteq authorized /\ UNCHANGED joining
               /\ rooms' \subseteq rooms \cup Head(wire).chats
      BY <2>1, <2>2, <2>3
    <2>4. CASE UNCHANGED <<rooms, joining>>
      BY <2>1, <2>2, <2>4
    <2>5. CASE /\ joining' = Append(joining, [cached |-> Head(wire).chats \cap authorized,
                                              asked |-> Head(wire).chats \ authorized])
               /\ UNCHANGED rooms
      <3>1. [cached |-> Head(wire).chats \cap authorized,
             asked |-> Head(wire).chats \ authorized] \in Joins
        BY <2>1 DEF Joins
      <3> QED
        BY <2>1, <2>2, <2>5, <3>1
    <2> QED
      BY <1>2, <2>3, <2>4, <2>5 DEF JoinArrives
  <1>3. ASSUME LeaveArrives PROVE wire' \in Seq(Events) /\ RoomsSafe'
    BY <1>3, EventArrives DEF LeaveArrives
  <1>4. ASSUME SendArrives PROVE wire' \in Seq(Events) /\ RoomsSafe'
    BY <1>4, EventArrives DEF SendArrives
  <1>5. ASSUME NEW n \in DOMAIN joining, JoinAuthorized(n)
        PROVE  wire' \in Seq(Events) /\ RoomsSafe'
    <2>1. joining[n] \in Joins
      OBVIOUS
    <2>2. Granted(joining[n].asked) \subseteq Mine /\ Joined(joining[n]) \subseteq Mine
      BY <2>1 DEF Granted, Joined, Joins
    <2>3. joining' \in Seq(Joins)
      BY <1>5, OneLess DEF JoinAuthorized
    <2> QED
      BY <1>5, <2>2, <2>3 DEF JoinAuthorized
  <1>6. ASSUME NEW m \in Msgs, ChatFound(m) \/ Save(m) \/ Broadcast(m) \/ SendFails(m)
        PROVE  wire' \in Seq(Events) /\ RoomsSafe'
    BY <1>6 DEF ChatFound, Save, Broadcast, SendFails, socketVars
  <1>7. ASSUME NEW n \in DOMAIN joining, JoinFails(n)
        PROVE  wire' \in Seq(Events) /\ RoomsSafe'
    <2>1. joining' \in Seq(Joins)
      BY <1>7, OneLess DEF JoinFails
    <2> QED
      BY <1>7, <2>1 DEF JoinFails
  <1> QED
    BY <1>1, <1>2, <1>3, <1>4, <1>5, <1>6, <1>7 DEF ServerStep

\* Each step of the tab emits events about chats, and joins no room itself.
LEMMA TabKeeps ==
    ASSUME ChatInv, TabStep
    PROVE  ChatInv'
  <1> USE DEF ChatInv, PageSafe, RoomsSafe
  <1> USE ChatsAssumption, SendersAssumption, EventsEmitted
  <1>1. ASSUME SocketSet PROVE ChatInv'
    <2>1. CASE selected = None
      BY <1>1, <2>1 DEF SocketSet
    <2>2. CASE selected # None
      <3>1. Join({selected}) \in Events
        BY <2>2
      <3>2. wire' = Append(wire, Join({selected})) /\ joined' = (joined \ {selected}) \cup {selected}
        BY <1>1, <2>2 DEF SocketSet, EnterChat
      <3>3. wire' \in Seq(Events)
        BY <3>1, <3>2, GrowsInSeq
      <3>4. joined' \subseteq Chats
        BY <2>2, <3>2
      <3> QED
        BY <1>1, <3>3, <3>4 DEF SocketSet
    <2> QED
      BY <2>1, <2>2
  <1>2. ASSUME Connects PROVE ChatInv'
    <2>1. Rejoin \in Seq(Events)
      BY DEF Rejoin
    <2> QED
      BY <1>2, <2>1 DEF Connects, tabVars
  <1>3. ASSUME Drops PROVE ChatInv'
    BY <1>3 DEF Drops
  <1>4. ASSUME ListAnswered PROVE ChatInv'
    BY <1>4 DEF ListAnswered
  <1>5. ASSUME MessageHeard PROVE ChatInv'
    BY <1>5 DEF MessageHeard
  <1>6. ASSUME NEW c \in Mine, Select(c) PROVE ChatInv'
    <2>1. c \in Chats /\ Join({c}) \in Events
      OBVIOUS
    <2>2. (IF selected = None THEN <<>> ELSE <<LeaveOf(selected)>>) \in Seq(Events)
      OBVIOUS
    <2>3. ASSUME socket PROVE wire' \in Seq(Events) /\ joined' \subseteq Chats
      <3> DEFINE left == IF selected = None THEN <<>> ELSE <<LeaveOf(selected)>>
      <3>1. wire' = wire \o left \o <<Join({c})>> /\ joined' = (joined \ {selected}) \cup {c}
        BY <1>6, <2>3 DEF Select, EnterChat
      <3>2. left \in Seq(Events)
        BY <2>2
      <3>3. wire \o left \o <<Join({c})>> \in Seq(Events)
        <4> HIDE DEF left
        <4> QED
          BY <2>1, <3>2, GrowsInSeq
      <3>4. joined' \subseteq Chats
        BY <2>1, <3>1
      <3>5. wire' \in Seq(Events)
        <4> HIDE DEF left, ChatInv, PageSafe
        <4> QED
          BY <3>1, <3>3
      <3> QED
        BY <3>4, <3>5
    <2>4. ASSUME ~socket PROVE wire' \in Seq(Events) /\ joined' \subseteq Chats
      BY <1>6, <2>4 DEF Select
    <2>5. wire' \in Seq(Events) /\ joined' \subseteq Chats
      BY <2>3, <2>4
    <2> QED
      BY <1>6, <2>1, <2>5 DEF Select
  <1>7. ASSUME NEW n \in DOMAIN gets, GetReads(n) \/ GetAnswers(n) PROVE ChatInv'
    BY <1>7 DEF GetReads, GetAnswers, serverVars, socketVars
  <1>8. ASSUME NEW m \in Own, Type(m) PROVE ChatInv'
    BY <1>8 DEF Type, tabVars
  <1>9. ASSUME NEW ids \in {Chats \ Mine, Chats}, Stray(ids) PROVE ChatInv'
    BY <1>9 DEF Stray
  <1> QED
    BY <1>1, <1>2, <1>3, <1>4, <1>5, <1>6, <1>7, <1>8, <1>9 DEF TabStep

LEMMA ChatInvInit == Init => ChatInv
  BY DEF Init, ServerInit, ChatInv, PageSafe, RoomsSafe

LEMMA ChatInvStep == ChatInv /\ [Next]_vars => ChatInv'
  <1> SUFFICES ASSUME ChatInv, [Next]_vars PROVE ChatInv'
    OBVIOUS
  <1>1. CASE ServerStep /\ UNCHANGED tabVars
    BY <1>1, ServerKeeps DEF ChatInv, PageSafe, tabVars
  <1>2. CASE TabStep
    BY <1>2, TabKeeps
  <1>3. CASE UNCHANGED vars
    BY <1>3 DEF ChatInv, PageSafe, RoomsSafe, vars, serverVars, socketVars, tabVars
  <1> QED
    BY <1>1, <1>2, <1>3 DEF Next

LEMMA ChatInvGives == ChatInv => OnlyParticipants
  <1> SUFFICES ASSUME ChatInv PROVE OnlyParticipants
    OBVIOUS
  <1>1. ASSUME NEW n \in DOMAIN joining PROVE joining[n].cached \subseteq Mine
    <2>1. joining[n] \in Joins
      BY DEF ChatInv, RoomsSafe
    <2> QED
      BY <2>1 DEF Joins
  <1> QED
    BY <1>1 DEF ChatInv, RoomsSafe, OnlyParticipants

\* Whatever a client emits, and in whatever order queries are answered, a socket
\* is in the room of a chat, is authorized for it, or has a handler about to join
\* it, only if its account takes part in the chat: for all sets of chats.
THEOREM HeardByParticipants == Spec => []OnlyParticipants
  BY ChatInvInit, ChatInvStep, ChatInvGives, PTL DEF Spec

-----------------------------------------------------------------------------
(* Messages.  A message is saved once, because it is sent once: an event   *)
(* that sends it is on the wire only before its handler begins.  Whatever  *)
(* is on its way to the window has been saved, so the window shows what    *)
(* is kept, and each message once.                                         *)

Kept(st, m) == Contains(st[ChatOf[m]], m)

\* Messages the window may show, st being what is stored: all kept, none twice.
Showable(st, s) == s \in Seq(Msgs) /\ IsInjective(s) /\ \A i \in DOMAIN s : Kept(st, s[i])

MessagesTyped ==
    /\ sending \in [Msgs -> Progress]
    /\ stored \in [Chats -> Seq(Msgs)]
    /\ down \in Seq(Msgs)
    /\ gets \in Seq([chat : Chats, answer : Seq(Msgs) \cup {Unread}])

SentOnce ==
    \A m \in Own : \A i, j \in 1 .. Len(wire) :
        wire[i] = SendOf(m) /\ wire[j] = SendOf(m) => i = j /\ sending[m] = "unsent"

StoredOnce ==
    \A c \in Chats :
        /\ IsInjective(stored[c])
        /\ \A i \in DOMAIN stored[c] : /\ ChatOf[stored[c][i]] = c
                                       /\ sending[stored[c][i]] \in {"populate", "sent", "denied"}

OnTheirWayKept ==
    /\ \A m \in Msgs : sending[m] = "populate" => Kept(stored, m)
    /\ \A i \in DOMAIN down : Kept(stored, down[i])
    /\ \A n \in DOMAIN gets : gets[n].answer # Unread => Showable(stored, gets[n].answer)

MessageInv == MessagesTyped /\ SentOnce /\ StoredOnce /\ OnTheirWayKept /\ Showable(stored, shown)

-----------------------------------------------------------------------------
LEMMA Member == ASSUME NEW S, NEW s \in Seq(S), NEW n \in DOMAIN s PROVE s[n] \in S
OBVIOUS

\* What is left of a sequence, and what is in a longer one.
LEMMA Shorter ==
    ASSUME NEW S, NEW s \in Seq(S), NEW n \in DOMAIN s
    PROVE  /\ RemoveAt(s, n) \in Seq(S)
           /\ \A i \in DOMAIN RemoveAt(s, n) : \E j \in DOMAIN s : RemoveAt(s, n)[i] = s[j]
           /\ \A j \in DOMAIN s : j # n =>
                 \E i \in DOMAIN RemoveAt(s, n) : RemoveAt(s, n)[i] = s[j]
<1>1. /\ n \in 1 .. Len(s) /\ Len(s) \in Nat /\ DOMAIN s = 1 .. Len(s)
  OBVIOUS
<1>2. PICK t \in Seq(S) : /\ t = RemoveAt(s, n) /\ Len(t) = Len(s) - 1
                          /\ \A i \in 1 .. Len(t) : t[i] = IF i < n THEN s[i] ELSE s[i + 1]
  <2>1. PICK a : a = SubSeq(s, 1, n - 1)
    OBVIOUS
  <2>2. PICK b : b = SubSeq(s, n + 1, Len(s))
    OBVIOUS
  <2>3. /\ a \in Seq(S) /\ Len(a) = n - 1 /\ \A i \in 1 .. n - 1 : a[i] = s[i]
    BY <1>1, <2>1
  <2>4. /\ b \in Seq(S) /\ Len(b) = Len(s) - n /\ \A i \in 1 .. Len(s) - n : b[i] = s[i + n]
    <3>1. SubSeq(s, n + 1, Len(s)) \in Seq(S)
      BY <1>1
    <3>2. Len(SubSeq(s, n + 1, Len(s))) = Len(s) - n
      BY <1>1
    <3>3. \A i \in 1 .. Len(s) - n : SubSeq(s, n + 1, Len(s))[i] = s[i + n]
      BY <1>1
    <3> QED
      BY <2>2, <3>1, <3>2, <3>3
  <2>5. a \o b \in Seq(S) /\ Len(a \o b) = Len(s) - 1
    <3>0. a \in Seq(S) /\ b \in Seq(S)
      BY <2>3, <2>4
    <3>1. a \o b \in Seq(S) /\ Len(a \o b) = Len(a) + Len(b)
      BY <3>0
    <3>2. (n - 1) + (Len(s) - n) = Len(s) - 1
      BY <1>1
    <3> QED
      BY <2>3, <2>4, <3>1, <3>2
  <2>6. \A i \in 1 .. Len(s) - 1 : (a \o b)[i] = IF i < n THEN s[i] ELSE s[i + 1]
    <3> SUFFICES ASSUME NEW i \in 1 .. Len(s) - 1
                 PROVE  (a \o b)[i] = IF i < n THEN s[i] ELSE s[i + 1]
      OBVIOUS
    <3>1. CASE i < n
      BY <1>1, <2>3, <2>4, <3>1
    <3>2. CASE ~(i < n)
      <4>1. i - (n - 1) \in 1 .. Len(s) - n /\ i - (n - 1) + n = i + 1
        BY <1>1, <3>2
      <4>2. (a \o b)[i] = b[i - (n - 1)]
        BY <1>1, <2>3, <2>4, <3>2
      <4>3. b[i - (n - 1)] = s[i + 1]
        BY <2>4, <4>1
      <4> QED
        BY <3>2, <4>2, <4>3
    <3> QED
      BY <3>1, <3>2
  <2> QED
    BY <2>1, <2>2, <2>5, <2>6 DEF RemoveAt
<1>3. DOMAIN t = 1 .. Len(t)
  OBVIOUS
<1>4. \A i \in DOMAIN t : \E j \in DOMAIN s : t[i] = s[j]
  BY <1>1, <1>2, <1>3
<1>5. ASSUME NEW j \in DOMAIN s, j # n PROVE \E i \in DOMAIN t : t[i] = s[j]
  <2>1. CASE j < n
    BY <1>1, <1>2, <1>3, <2>1
  <2>2. CASE j > n
    <3>1. j - 1 \in 1 .. Len(t) /\ ~(j - 1 < n) /\ (j - 1) + 1 = j
      BY <1>1, <1>2, <2>2
    <3>2. t[j - 1] = s[j]
      BY <1>2, <3>1
    <3> QED
      BY <1>3, <3>1, <3>2
  <2> QED
    BY <1>1, <1>5, <2>1, <2>2
<1> QED
  BY <1>2, <1>4, <1>5

LEMMA Longer ==
    ASSUME NEW S, NEW s \in Seq(S), NEW e \in S
    PROVE  /\ Append(s, e) \in Seq(S) /\ Len(Append(s, e)) = Len(s) + 1
           /\ DOMAIN Append(s, e) = 1 .. Len(s) + 1 /\ DOMAIN s = 1 .. Len(s)
           /\ \A i \in 1 .. Len(s) : Append(s, e)[i] = s[i]
           /\ Append(s, e)[Len(s) + 1] = e
           /\ \A f : Contains(Append(s, e), f) <=> Contains(s, f) \/ f = e
           /\ IsInjective(s) /\ ~Contains(s, e) => IsInjective(Append(s, e))
<1>1. /\ Append(s, e) \in Seq(S) /\ Len(Append(s, e)) = Len(s) + 1 /\ Len(s) \in Nat
      /\ DOMAIN Append(s, e) = 1 .. Len(s) + 1 /\ DOMAIN s = 1 .. Len(s)
      /\ \A i \in 1 .. Len(s) : Append(s, e)[i] = s[i]
      /\ Append(s, e)[Len(s) + 1] = e
  OBVIOUS
<1>2. PICK t : t = Append(s, e)
  OBVIOUS
<1>3. \A f : Contains(t, f) <=> Contains(s, f) \/ f = e
  BY <1>1, <1>2 DEF Contains
<1>4. ASSUME IsInjective(s), ~Contains(s, e) PROVE IsInjective(t)
  BY <1>1, <1>2, <1>4 DEF IsInjective, Contains
<1> QED
  BY <1>1, <1>2, <1>3, <1>4

\* As long as nothing is saved away, what may be shown may be shown.
LEMMA StaysShowable ==
    ASSUME NEW st, NEW later, \A m \in Msgs : Kept(st, m) => Kept(later, m),
           NEW s, Showable(st, s)
    PROVE  Showable(later, s)
BY DEF Showable

LEMMA SendsDiffer ==
    /\ \A m, p : SendOf(m) = SendOf(p) => m = p
    /\ \A m, c : SendOf(m) # LeaveOf(c) /\ SendOf(m) # Join(c)
<1>1. \A m, p : SendOf(m).message = m /\ SendOf(m).kind = "send"
  BY DEF SendOf
<1>2. \A c : LeaveOf(c).kind = "leave" /\ Join(c).kind = "join"
  BY DEF LeaveOf, Join
<1> QED
  BY <1>1, <1>2

-----------------------------------------------------------------------------
\* The wire: an event is taken from it ...
LEMMA WireTail ==
    ASSUME wire \in Seq(Events), wire # <<>>, SentOnce, wire' = Tail(wire),
           \A m \in Own : Head(wire) # SendOf(m) => sending'[m] = sending[m]
    PROVE  SentOnce'
<1>1. /\ Len(wire) \in Nat /\ Len(wire') = Len(wire) - 1
      /\ 1 \in 1 .. Len(wire) /\ wire[1] = Head(wire)
      /\ \A i \in 1 .. Len(wire') : i + 1 \in 1 .. Len(wire) /\ wire'[i] = wire[i + 1]
  OBVIOUS
<1> SUFFICES ASSUME NEW m \in Own, NEW i \in 1 .. Len(wire'), NEW j \in 1 .. Len(wire'),
                    wire'[i] = SendOf(m), wire'[j] = SendOf(m)
             PROVE  i = j /\ sending'[m] = "unsent"
  BY DEF SentOnce
<1>2. wire[i + 1] = SendOf(m) /\ wire[j + 1] = SendOf(m)
  BY <1>1
<1>3. i + 1 = j + 1 /\ sending[m] = "unsent"
  BY <1>1, <1>2 DEF SentOnce
<1>4. Head(wire) # SendOf(m)
  <2> SUFFICES ASSUME wire[1] = SendOf(m) PROVE FALSE
    BY <1>1
  <2>1. 1 = i + 1
    BY <1>1, <1>2 DEF SentOnce
  <2> QED
    BY <1>1, <2>1
<1> QED
  BY <1>3, <1>4

\* ... or added to it.
LEMMA WireAppend ==
    ASSUME NEW w \in Seq(Events), NEW e \in Events, NEW s,
           \A m \in Own : \A i, j \in 1 .. Len(w) :
                 w[i] = SendOf(m) /\ w[j] = SendOf(m) => i = j /\ s[m] = "unsent",
           \A m \in Own : e = SendOf(m) => s[m] = "unsent" /\ ~Contains(w, e)
    PROVE  \A m \in Own : \A i, j \in 1 .. Len(Append(w, e)) :
                 Append(w, e)[i] = SendOf(m) /\ Append(w, e)[j] = SendOf(m)
                     => i = j /\ s[m] = "unsent"
<1>1. PICK v : v = Append(w, e)
  OBVIOUS
<1>2. /\ Len(w) \in Nat /\ Len(v) = Len(w) + 1 /\ \A i \in 1 .. Len(w) : v[i] = w[i]
      /\ v[Len(w) + 1] = e
  BY <1>1
<1>3. ASSUME NEW m \in Own, NEW i \in 1 .. Len(v), NEW j \in 1 .. Len(v), v[i] = SendOf(m),
             v[j] = SendOf(m)
      PROVE  i = j /\ s[m] = "unsent"
  <2>1. CASE e = SendOf(m)
    <3>1. \A k \in 1 .. Len(w) : w[k] # SendOf(m)
      BY <2>1 DEF Contains
    <3>2. i = Len(w) + 1 /\ j = Len(w) + 1
      BY <1>2, <1>3, <3>1
    <3> QED
      BY <2>1, <3>2
  <2>2. CASE e # SendOf(m)
    <3>1. i \in 1 .. Len(w) /\ j \in 1 .. Len(w)
      BY <1>2, <1>3, <2>2
    <3> QED
      BY <1>2, <1>3, <3>1
  <2> QED
    BY <2>1, <2>2
<1> QED
  BY <1>1, <1>3

\* The same for what the tab adds to the wire: one event, or two, or none.
LEMMA WireGrows ==
    ASSUME wire \in Seq(Events), SentOnce, NEW e \in Events, UNCHANGED sending,
           \A m \in Own : e = SendOf(m) => sending[m] = "unsent" /\ ~Contains(wire, e),
           wire' = Append(wire, e)
    PROVE  SentOnce'
<1> HIDE DEF Events
<1>1. \A m \in Own : \A i, j \in 1 .. Len(wire) :
          wire[i] = SendOf(m) /\ wire[j] = SendOf(m) => i = j /\ sending[m] = "unsent"
  BY DEF SentOnce
<1>2. \A m \in Own : \A i, j \in 1 .. Len(Append(wire, e)) :
          Append(wire, e)[i] = SendOf(m) /\ Append(wire, e)[j] = SendOf(m)
              => i = j /\ sending[m] = "unsent"
  BY <1>1, WireAppend
<1> QED
  BY <1>2 DEF SentOnce

LEMMA WireGrowsTwice ==
    ASSUME wire \in Seq(Events), SentOnce, NEW e \in Events, NEW f \in Events,
           UNCHANGED sending, \A m \in Own : e # SendOf(m) /\ f # SendOf(m),
           wire' = Append(Append(wire, e), f)
    PROVE  SentOnce'
<1>1. \A m \in Own : \A i, j \in 1 .. Len(wire) :
          wire[i] = SendOf(m) /\ wire[j] = SendOf(m) => i = j /\ sending[m] = "unsent"
  BY DEF SentOnce
<1>2. PICK v : v = Append(wire, e)
  OBVIOUS
<1>3. v \in Seq(Events)
  BY <1>2
<1>4. \A m \in Own : \A i, j \in 1 .. Len(v) :
          v[i] = SendOf(m) /\ v[j] = SendOf(m) => i = j /\ sending[m] = "unsent"
  BY <1>1, <1>2, WireAppend
<1>5. \A m \in Own : \A i, j \in 1 .. Len(Append(v, f)) :
          Append(v, f)[i] = SendOf(m) /\ Append(v, f)[j] = SendOf(m)
              => i = j /\ sending[m] = "unsent"
  BY <1>3, <1>4, WireAppend
<1> QED
  BY <1>2, <1>5 DEF SentOnce

LEMMA ConcatOne ==
    ASSUME NEW w \in Seq(Events), NEW e \in Events, NEW f \in Events
    PROVE  w \o <<e>> = Append(w, e) /\ w \o <<>> = w
           /\ (w \o <<e>>) \o <<f>> = Append(Append(w, e), f)
<1>1. \A v \in Seq(Events), g \in Events : v \o <<g>> = Append(v, g)
  OBVIOUS
<1>2. w \o <<>> = w /\ Append(w, e) \in Seq(Events)
  OBVIOUS
<1> QED
  BY <1>1, <1>2

\* A step that leaves messages, answers and window alone.
LEMMA MessagesStay ==
    ASSUME MessageInv, UNCHANGED <<sending, stored, down, gets, shown>>, SentOnce'
    PROVE  MessageInv'
BY DEF MessageInv, MessagesTyped, StoredOnce, OnTheirWayKept, Showable, Kept

\* A handler goes on without saving: its message was sent, and if it is broadcast it was
\* saved.
LEMMA HandlerGoesOn ==
    ASSUME ChatInv, MessageInv, NEW m \in Msgs, NEW p \in Progress \ {"unsent", "populate"},
           sending' = [sending EXCEPT ![m] = p],
           p = "find" \/ p = "save" => sending[m] \notin {"populate", "sent", "denied"},
           UNCHANGED <<stored, gets, shown>>,
           down' = down \/ (down' = Append(down, m) /\ sending[m] = "populate"),
           SentOnce'
    PROVE  MessageInv'
<1>1. MessagesTyped'
  <2>1. sending' \in [Msgs -> Progress]
    BY DEF MessageInv, MessagesTyped
  <2>2. down' \in Seq(Msgs)
    BY DEF MessageInv, MessagesTyped
  <2> QED
    BY <2>1, <2>2 DEF MessageInv, MessagesTyped
<1>2. StoredOnce'
  BY ChatsAssumption DEF MessageInv, MessagesTyped, StoredOnce, Progress
<1>3. \A q \in Msgs : Kept(stored', q) <=> Kept(stored, q)
  BY DEF Kept
<1>4. \A q \in Msgs : sending'[q] = "populate" => Kept(stored', q)
  BY <1>3 DEF MessageInv, MessagesTyped, OnTheirWayKept
<1>5. \A i \in DOMAIN down' : Kept(stored', down'[i])
  <2>1. CASE down' = down
    BY <2>1 DEF MessageInv, MessagesTyped, OnTheirWayKept, Kept
  <2>2. CASE down' = Append(down, m) /\ sending[m] = "populate"
    <3>1. Kept(stored', m)
      BY <1>3, <2>2 DEF MessageInv, OnTheirWayKept
    <3>2. \A i \in 1 .. Len(down) : Kept(stored', down[i])
      BY DEF MessageInv, MessagesTyped, OnTheirWayKept, Kept
    <3>3. DOMAIN down' = 1 .. Len(down) + 1 /\ Len(down) \in Nat
          /\ \A i \in 1 .. Len(down) : down'[i] = down[i]
          /\ down'[Len(down) + 1] = m
      BY <2>2 DEF MessageInv, MessagesTyped
    <3> QED
      BY <3>1, <3>2, <3>3
  <2> QED
    BY <2>1, <2>2
<1>6. \A n \in DOMAIN gets' : gets'[n].answer # Unread => Showable(stored', gets'[n].answer)
  BY DEF MessageInv, OnTheirWayKept, Showable, Kept
<1>7. Showable(stored', shown')
  BY DEF MessageInv, Showable, Kept
<1>8. OnTheirWayKept'
  BY <1>4, <1>5, <1>6 DEF OnTheirWayKept
<1> QED
  BY <1>1, <1>2, <1>7, <1>8 DEF MessageInv

\* A message is saved, for the first time.
LEMMA SaveKeeps ==
    ASSUME MessageInv, NEW m \in Msgs, Save(m), UNCHANGED <<gets, shown>>
    PROVE  MessageInv'
<1>1. /\ sending[m] = "save" /\ sending' = [sending EXCEPT ![m] = "populate"]
      /\ stored' = [stored EXCEPT ![ChatOf[m]] = Append(stored[ChatOf[m]], m)]
      /\ UNCHANGED <<wire, down>>
  BY DEF Save, socketVars
<1>2. ChatOf[m] \in Chats /\ stored \in [Chats -> Seq(Msgs)] /\ sending \in [Msgs -> Progress]
  BY ChatsAssumption DEF MessageInv, MessagesTyped
<1>3. PICK s : s = stored[ChatOf[m]]
  OBVIOUS
<1>4. s \in Seq(Msgs) /\ IsInjective(s)
  BY <1>2, <1>3 DEF MessageInv, StoredOnce
<1>5. ~Contains(s, m)
  <2> SUFFICES ASSUME Contains(s, m) PROVE FALSE
    OBVIOUS
  <2>1. PICK i \in 1 .. Len(s) : s[i] = m
    BY DEF Contains
  <2>2. i \in DOMAIN s
    BY <1>4, <2>1
  <2>3. sending[s[i]] \in {"populate", "sent", "denied"}
    BY <1>2, <1>3, <2>2 DEF MessageInv, StoredOnce
  <2> QED
    BY <1>1, <2>1, <2>3
<1>6. /\ Append(s, m) \in Seq(Msgs) /\ IsInjective(Append(s, m))
      /\ DOMAIN Append(s, m) = 1 .. Len(s) + 1 /\ DOMAIN s = 1 .. Len(s)
      /\ \A i \in 1 .. Len(s) : Append(s, m)[i] = s[i]
      /\ Append(s, m)[Len(s) + 1] = m
      /\ \A f : Contains(Append(s, m), f) <=> Contains(s, f) \/ f = m
  BY <1>4, <1>5, Longer
<1>7. /\ stored' \in [Chats -> Seq(Msgs)] /\ stored'[ChatOf[m]] = Append(s, m)
      /\ \A c \in Chats : c # ChatOf[m] => stored'[c] = stored[c]
  BY <1>1, <1>2, <1>3, <1>6
<1>8. MessagesTyped'
  BY <1>1, <1>2, <1>7 DEF MessageInv, MessagesTyped, Progress
<1>9. SentOnce'
  BY <1>1, <1>2 DEF MessageInv, SentOnce
<1>10. \A p \in Msgs : Kept(stored, p) => Kept(stored', p)
  <2> SUFFICES ASSUME NEW p \in Msgs, Contains(stored[ChatOf[p]], p)
               PROVE  Contains(stored'[ChatOf[p]], p)
    BY DEF Kept
  <2>1. ChatOf[p] \in Chats
    BY ChatsAssumption
  <2> QED
    BY <1>3, <1>6, <1>7, <2>1
<1>11. StoredOnce'
  <2> SUFFICES ASSUME NEW c \in Chats
               PROVE  /\ IsInjective(stored'[c])
                      /\ \A i \in DOMAIN stored'[c] :
                            /\ ChatOf[stored'[c][i]] = c
                            /\ sending'[stored'[c][i]] \in {"populate", "sent", "denied"}
    BY DEF StoredOnce
  <2>1. IsInjective(stored'[c])
    BY <1>6, <1>7 DEF MessageInv, StoredOnce
  <2>2. \A i \in DOMAIN stored[c] :
            /\ stored[c][i] \in Msgs /\ ChatOf[stored[c][i]] = c
            /\ sending[stored[c][i]] \in {"populate", "sent", "denied"}
    BY <1>2 DEF MessageInv, StoredOnce
  <2>3. \A p \in Msgs : sending[p] \in {"populate", "sent", "denied"} =>
                        sending'[p] \in {"populate", "sent", "denied"}
    BY <1>1, <1>2
  <2>4. sending'[m] = "populate"
    BY <1>1, <1>2
  <2>5. CASE c # ChatOf[m]
    BY <1>7, <2>1, <2>2, <2>3, <2>5
  <2>6. CASE c = ChatOf[m]
    <3> SUFFICES ASSUME NEW i \in 1 .. Len(s) + 1
                 PROVE  /\ ChatOf[Append(s, m)[i]] = c
                        /\ sending'[Append(s, m)[i]] \in {"populate", "sent", "denied"}
      BY <1>6, <1>7, <2>1, <2>6
    <3>1. CASE i \in 1 .. Len(s)
      BY <1>3, <1>6, <2>2, <2>3, <2>6, <3>1
    <3>2. CASE i = Len(s) + 1
      BY <1>6, <2>4, <2>6, <3>2
    <3>3. Len(s) \in Nat
      BY <1>4
    <3> QED
      BY <3>1, <3>2, <3>3
  <2> QED
    BY <2>5, <2>6
<1>12. Kept(stored', m)
  BY <1>6, <1>7 DEF Kept
<1>13. OnTheirWayKept'
  <2>1. \A p \in Msgs : sending'[p] = "populate" => Kept(stored', p)
    BY <1>1, <1>2, <1>10, <1>12 DEF MessageInv, OnTheirWayKept
  <2>2. \A i \in DOMAIN down : Kept(stored', down[i])
    BY <1>10 DEF MessageInv, MessagesTyped, OnTheirWayKept
  <2>3. \A n \in DOMAIN gets : gets[n].answer # Unread =>
            Showable(stored', gets[n].answer)
    BY <1>10, StaysShowable DEF MessageInv, OnTheirWayKept
  <2> QED
    BY <1>1, <2>1, <2>2, <2>3 DEF OnTheirWayKept
<1>14. Showable(stored', shown')
  BY <1>10, StaysShowable DEF MessageInv
<1> QED
  BY <1>8, <1>9, <1>11, <1>13, <1>14 DEF MessageInv

-----------------------------------------------------------------------------
\* Each step of the server keeps it ...
LEMMA MessageServer ==
    ASSUME ChatInv, MessageInv, ServerStep, UNCHANGED tabVars
    PROVE  MessageInv'
<1>0. UNCHANGED <<gets, shown>> /\ wire \in Seq(Events) /\ SentOnce /\ sending \in [Msgs -> Progress]
  BY DEF tabVars, ChatInv, PageSafe, MessageInv, MessagesTyped
<1>1. ASSUME NEW kind \in {"join", "leave", "send"}, Throttled(kind) PROVE MessageInv'
  <2>1. /\ wire # <<>> /\ wire' = Tail(wire) /\ UNCHANGED <<sending, stored, down>>
    BY <1>1 DEF Throttled, Arrives, messageVars
  <2> QED
    BY <1>0, <2>1, WireTail, MessagesStay
<1>2. ASSUME JoinArrives \/ LeaveArrives PROVE MessageInv'
  <2>1. /\ wire # <<>> /\ wire' = Tail(wire) /\ UNCHANGED <<sending, stored, down>>
    BY <1>2 DEF JoinArrives, LeaveArrives, Arrives, messageVars
  <2> QED
    BY <1>0, <2>1, WireTail, MessagesStay
<1>3. ASSUME SendArrives PROVE MessageInv'
  <2>1. /\ Head(wire) \in Events /\ Head(wire).kind = "send"
    BY <1>0, <1>3, EventArrives DEF SendArrives
  <2>2. PICK m \in Own : Head(wire) = SendOf(m)
    BY <2>1 DEF Events, Join, LeaveOf
  <2>3. /\ wire # <<>> /\ wire' = Tail(wire) /\ UNCHANGED <<stored, down>>
        /\ sending' = [sending EXCEPT ![m] = "find"] /\ m \in Msgs
    <3>1. Head(wire).message = m
      BY <2>2 DEF SendOf
    <3> QED
      BY <1>3, <3>1, SendersAssumption DEF SendArrives, Arrives
  <2>4. SentOnce'
    <3>1. \A p \in Own : Head(wire) # SendOf(p) => sending'[p] = sending[p]
      BY <1>0, <2>2, <2>3, SendersAssumption
    <3> QED
      BY <1>0, <2>3, <3>1, WireTail
  <2>5. sending[m] = "unsent"
    <3>1. 1 \in 1 .. Len(wire) /\ wire[1] = SendOf(m)
      BY <1>0, <2>2, <2>3
    <3> QED
      BY <1>0, <3>1 DEF SentOnce
  <2> QED
    BY <1>0, <2>3, <2>4, <2>5, HandlerGoesOn DEF Progress
<1>4. ASSUME NEW n \in DOMAIN joining, JoinAuthorized(n) \/ JoinFails(n) PROVE MessageInv'
  <2>1. UNCHANGED <<wire, sending, stored, down>>
    BY <1>4 DEF JoinAuthorized, JoinFails, messageVars
  <2> QED
    BY <1>0, <2>1, MessagesStay DEF SentOnce
<1>5. ASSUME NEW m \in Msgs, NEW p \in Progress, UNCHANGED wire, sending[m] # "unsent",
             sending' = [sending EXCEPT ![m] = p]
      PROVE  SentOnce'
  BY <1>0, <1>5, SendersAssumption DEF SentOnce
<1>6. ASSUME NEW m \in Msgs, ChatFound(m) PROVE MessageInv'
  <2>1. /\ sending[m] = "find" /\ sending' = [sending EXCEPT ![m] = "save"]
        /\ UNCHANGED <<wire, down, stored>>
    BY <1>6 DEF ChatFound, socketVars
  <2>2. SentOnce'
    BY <1>5, <2>1 DEF Progress
  <2> QED
    BY <1>0, <2>1, <2>2, HandlerGoesOn DEF Progress
<1>7. ASSUME NEW m \in Msgs, Save(m) PROVE MessageInv'
  BY <1>0, <1>7, SaveKeeps
<1>8. ASSUME NEW m \in Msgs, Broadcast(m) PROVE MessageInv'
  <2>1. /\ sending[m] = "populate" /\ sending' = [sending EXCEPT ![m] = "sent"]
        /\ down' = down \/ down' = Append(down, m)
        /\ UNCHANGED <<wire, stored>>
    BY <1>8 DEF Broadcast
  <2>2. SentOnce'
    BY <1>5, <2>1 DEF Progress
  <2> QED
    BY <1>0, <2>1, <2>2, HandlerGoesOn DEF Progress
<1>9. ASSUME NEW m \in Msgs, SendFails(m) PROVE MessageInv'
  <2>1. /\ sending[m] \in {"find", "save", "populate"}
        /\ sending' = [sending EXCEPT ![m] = "denied"]
        /\ UNCHANGED <<wire, down, stored>>
    BY <1>9 DEF SendFails, socketVars
  <2>2. SentOnce'
    BY <1>5, <2>1 DEF Progress
  <2> QED
    BY <1>0, <2>1, <2>2, HandlerGoesOn DEF Progress
<1> QED
  BY <1>1, <1>2, <1>3, <1>4, <1>6, <1>7, <1>8, <1>9 DEF ServerStep

\* ... and each step of the tab.  Of those that only add to the wire:
LEMMA OnlyWireGrows ==
    ASSUME ChatInv, MessageInv, UNCHANGED <<sending, stored, down, shown>>,
           SentOnce', gets' = gets \/ \E c \in Chats : gets' = Append(gets, [chat |-> c, answer |-> Unread])
    PROVE  MessageInv'
<1>1. CASE gets' = gets
  BY <1>1, MessagesStay
<1>2. ASSUME NEW c \in Chats, gets' = Append(gets, [chat |-> c, answer |-> Unread])
      PROVE  MessageInv'
  <2>1. PICK g : g = [chat |-> c, answer |-> Unread]
    OBVIOUS
  <2>2. /\ g \in [chat : Chats, answer : Seq(Msgs) \cup {Unread}] /\ g.answer = Unread
        /\ gets' = Append(gets, g)
    BY <1>2, <2>1
  <2>3. gets \in Seq([chat : Chats, answer : Seq(Msgs) \cup {Unread}])
    BY DEF MessageInv, MessagesTyped
  <2>4. /\ gets' \in Seq([chat : Chats, answer : Seq(Msgs) \cup {Unread}])
        /\ DOMAIN gets' = 1 .. Len(gets) + 1 /\ DOMAIN gets = 1 .. Len(gets)
        /\ \A i \in 1 .. Len(gets) : gets'[i] = gets[i]
        /\ gets'[Len(gets) + 1] = g /\ Len(gets) \in Nat
    BY <2>2, <2>3, Longer
  <2>5. \A n \in DOMAIN gets' : gets'[n].answer # Unread => Showable(stored, gets'[n].answer)
    <3>1. \A n \in 1 .. Len(gets) : gets[n].answer # Unread => Showable(stored, gets[n].answer)
      BY <2>4 DEF MessageInv, OnTheirWayKept
    <3>2. \A n \in DOMAIN gets' : n \in 1 .. Len(gets) \/ n = Len(gets) + 1
      BY <2>4
    <3> QED
      BY <2>2, <2>4, <3>1, <3>2
  <2> QED
    BY <2>4, <2>5 DEF MessageInv, MessagesTyped, StoredOnce, OnTheirWayKept
<1> QED
  BY <1>1, <1>2

LEMMA MessageTab ==
    ASSUME ChatInv, MessageInv, TabStep
    PROVE  MessageInv'
<1>0. /\ wire \in Seq(Events) /\ SentOnce /\ selected \in Chats \cup {None} /\ joined \subseteq Chats
      /\ Mine \subseteq Chats
  BY ChatsAssumption DEF ChatInv, PageSafe, MessageInv
<1>1. ASSUME NEW e \in Events, \A m \in Own : e # SendOf(m), UNCHANGED sending,
             wire' = Append(wire, e)
      PROVE  SentOnce'
  BY <1>0, <1>1, WireGrows
<1>2. \A ids \in SUBSET Chats : Join(ids) \in Events /\ \A m \in Own : Join(ids) # SendOf(m)
  BY EventsEmitted, SendsDiffer
<1>3. ASSUME SocketSet PROVE MessageInv'
  <2>1. UNCHANGED <<sending, stored, down, shown>>
    BY <1>3 DEF SocketSet, messageVars
  <2>2. CASE selected = None
    <3>1. UNCHANGED <<wire, gets>>
      BY <1>3, <2>2 DEF SocketSet
    <3>2. SentOnce'
      BY <1>0, <2>1, <3>1 DEF SentOnce
    <3> QED
      BY <2>1, <3>1, <3>2, OnlyWireGrows
  <2>3. CASE selected # None
    <3>1. /\ selected \in Chats /\ wire' = Append(wire, Join({selected}))
          /\ gets' = Append(gets, [chat |-> selected, answer |-> Unread])
      BY <1>0, <1>3, <2>3 DEF SocketSet, EnterChat
    <3>2. SentOnce'
      BY <1>1, <1>2, <2>1, <3>1
    <3> QED
      BY <2>1, <3>1, <3>2, OnlyWireGrows
  <2> QED
    BY <2>2, <2>3
<1>4. ASSUME Connects PROVE MessageInv'
  <2>1. UNCHANGED <<sending, stored, down, shown, gets>> /\ wire' = wire \o Rejoin
    BY <1>4 DEF Connects, messageVars, tabVars
  <2>2. wire' = wire \/ wire' = Append(wire, Join(joined))
    BY <1>0, <1>2, <2>1, ConcatOne DEF Rejoin
  <2>3. SentOnce'
    <3>1. CASE wire' = wire
      BY <1>0, <2>1, <3>1 DEF SentOnce
    <3>2. CASE wire' = Append(wire, Join(joined))
      BY <1>0, <1>1, <1>2, <2>1, <3>2
    <3> QED
      BY <2>2, <3>1, <3>2
  <2> QED
    BY <2>1, <2>3, OnlyWireGrows
<1>5. ASSUME Drops PROVE MessageInv'
  <2>1. UNCHANGED <<sending, stored, shown, gets>> /\ wire' = <<>> /\ down' = <<>>
    BY <1>5 DEF Drops, messageVars
  <2>2. SentOnce'
    BY <2>1 DEF SentOnce
  <2> QED
    BY <2>1, <2>2 DEF MessageInv, MessagesTyped, StoredOnce, OnTheirWayKept
<1>6. ASSUME ListAnswered PROVE MessageInv'
  <2>1. /\ UNCHANGED <<sending, stored, down, shown, gets>>
        /\ wire' = wire \/ wire' = Append(wire, Join(Mine))
    BY <1>6 DEF ListAnswered, messageVars
  <2>2. SentOnce'
    <3>1. CASE wire' = wire
      BY <1>0, <2>1, <3>1 DEF SentOnce
    <3>2. CASE wire' = Append(wire, Join(Mine))
      BY <1>0, <1>1, <1>2, <2>1, <3>2
    <3> QED
      BY <2>1, <3>1, <3>2
  <2> QED
    BY <2>1, <2>2, OnlyWireGrows
<1>7. ASSUME NEW c \in Mine, Select(c) PROVE MessageInv'
  <2>1. UNCHANGED <<sending, stored, down, shown>> /\ c \in Chats
    BY <1>0, <1>7 DEF Select, messageVars
  <2>2. CASE ~socket
    <3>1. UNCHANGED <<wire, gets>>
      BY <1>7, <2>2 DEF Select
    <3>2. SentOnce'
      BY <1>0, <2>1, <3>1 DEF SentOnce
    <3> QED
      BY <2>1, <3>1, <3>2, OnlyWireGrows
  <2>3. CASE socket
    <3>1. /\ gets' = Append(gets, [chat |-> c, answer |-> Unread])
          /\ wire' = wire \o (IF selected = None THEN <<>> ELSE <<LeaveOf(selected)>>)
                          \o <<Join({c})>>
      BY <1>7, <2>3 DEF Select, EnterChat
    <3>2. Join({c}) \in Events /\ \A m \in Own : Join({c}) # SendOf(m)
      BY <1>2, <2>1
    <3>3. CASE selected = None
      <4>1. wire' = Append(wire, Join({c}))
        BY <1>0, <3>1, <3>2, <3>3, ConcatOne
      <4> QED
        BY <1>1, <2>1, <3>1, <3>2, <4>1, OnlyWireGrows
    <3>4. CASE selected # None
      <4>1. LeaveOf(selected) \in Events /\ \A m \in Own : LeaveOf(selected) # SendOf(m)
        BY <1>0, <3>4, EventsEmitted, SendsDiffer
      <4>2. wire' = Append(Append(wire, LeaveOf(selected)), Join({c}))
        BY <1>0, <3>1, <3>2, <3>4, <4>1, ConcatOne
      <4>3. SentOnce'
        BY <1>0, <2>1, <3>2, <4>1, <4>2, WireGrowsTwice
      <4> QED
        BY <2>1, <3>1, <4>3, OnlyWireGrows
    <3> QED
      BY <3>3, <3>4
  <2> QED
    BY <2>2, <2>3
<1>8. ASSUME NEW n \in DOMAIN gets, GetReads(n) PROVE MessageInv'
  <2>1. /\ gets' = [gets EXCEPT ![n].answer = stored[gets[n].chat]]
        /\ UNCHANGED <<wire, sending, stored, down, shown>>
    BY <1>8 DEF GetReads, serverVars, socketVars, messageVars
  <2>2. PICK g : g = [gets[n] EXCEPT !.answer = stored[gets[n].chat]]
    OBVIOUS
  <2>3. gets \in Seq([chat : Chats, answer : Seq(Msgs) \cup {Unread}])
        /\ stored \in [Chats -> Seq(Msgs)]
    BY DEF MessageInv, MessagesTyped
  <2>4. gets[n] \in [chat : Chats, answer : Seq(Msgs) \cup {Unread}]
    BY <2>3, Member
  <2>5. /\ g \in [chat : Chats, answer : Seq(Msgs) \cup {Unread}]
        /\ g.answer = stored[gets[n].chat] /\ gets[n].chat \in Chats
    BY <2>2, <2>3, <2>4
  <2>6. gets' = [gets EXCEPT ![n] = g]
    BY <2>1, <2>2
  <2>7. gets' \in Seq([chat : Chats, answer : Seq(Msgs) \cup {Unread}])
        /\ DOMAIN gets' = DOMAIN gets /\ gets'[n] = g
        /\ \A k \in DOMAIN gets : k # n => gets'[k] = gets[k]
    BY <2>3, <2>5, <2>6
  <2>8. Showable(stored, g.answer)
    <3>1. PICK s : s = stored[gets[n].chat]
      OBVIOUS
    <3>2. s \in Seq(Msgs) /\ IsInjective(s)
          /\ \A i \in DOMAIN s : ChatOf[s[i]] = gets[n].chat
      BY <2>3, <2>5, <3>1 DEF MessageInv, StoredOnce
    <3>3. \A i \in DOMAIN s : Kept(stored, s[i])
      BY <3>1, <3>2 DEF Kept, Contains
    <3> QED
      BY <2>5, <3>1, <3>2, <3>3 DEF Showable
  <2>9. \A k \in DOMAIN gets' : gets'[k].answer # Unread => Showable(stored, gets'[k].answer)
    BY <2>7, <2>8 DEF MessageInv, OnTheirWayKept
  <2>10. SentOnce'
    BY <1>0, <2>1 DEF SentOnce
  <2> QED
    BY <2>1, <2>7, <2>9, <2>10 DEF MessageInv, MessagesTyped, StoredOnce, OnTheirWayKept
<1>9. ASSUME NEW n \in DOMAIN gets, GetAnswers(n) PROVE MessageInv'
  <2>1. /\ gets' = RemoveAt(gets, n) /\ gets[n].answer # Unread /\ shown' = gets[n].answer
        /\ UNCHANGED <<wire, sending, stored, down>>
    BY <1>9 DEF GetAnswers, serverVars, socketVars, messageVars
  <2>2. /\ gets' \in Seq([chat : Chats, answer : Seq(Msgs) \cup {Unread}])
        /\ \A i \in DOMAIN gets' : \E j \in DOMAIN gets : gets'[i] = gets[j]
    BY <2>1, Shorter DEF MessageInv, MessagesTyped
  <2>3. Showable(stored, shown')
    BY <2>1 DEF MessageInv, OnTheirWayKept
  <2>4. \A k \in DOMAIN gets' : gets'[k].answer # Unread => Showable(stored, gets'[k].answer)
    BY <2>2 DEF MessageInv, OnTheirWayKept
  <2>5. SentOnce'
    BY <1>0, <2>1 DEF SentOnce
  <2> QED
    BY <2>1, <2>2, <2>3, <2>4, <2>5 DEF MessageInv, MessagesTyped, StoredOnce, OnTheirWayKept
<1>10. ASSUME MessageHeard PROVE MessageInv'
  <2>1. /\ down # <<>> /\ down' = Tail(down) /\ shown' = Show(Head(down))
        /\ UNCHANGED <<wire, sending, stored, gets>>
    BY <1>10 DEF MessageHeard, messageVars
  <2>2. PICK m : m = Head(down)
    OBVIOUS
  <2>3. down \in Seq(Msgs) /\ Showable(stored, shown) /\ shown \in Seq(Msgs) /\ IsInjective(shown)
        /\ \A i \in DOMAIN down : Kept(stored, down[i])
    BY DEF MessageInv, MessagesTyped, OnTheirWayKept, Showable
  <2>4. /\ m \in Msgs /\ 1 \in DOMAIN down /\ m = down[1] /\ down' \in Seq(Msgs)
        /\ \A i \in DOMAIN down' : i + 1 \in DOMAIN down /\ down'[i] = down[i + 1]
    BY <2>1, <2>2, <2>3
  <2>5. Kept(stored, m) /\ \A i \in DOMAIN down' : Kept(stored, down'[i])
    BY <2>3, <2>4
  <2>6. Showable(stored, shown')
    <3>1. CASE shown' = shown
      BY <2>3, <3>1
    <3>2. CASE shown' = Append(shown, m) /\ ~Contains(shown, m)
      <4>1. /\ Append(shown, m) \in Seq(Msgs) /\ IsInjective(Append(shown, m))
            /\ DOMAIN Append(shown, m) = 1 .. Len(shown) + 1 /\ DOMAIN shown = 1 .. Len(shown)
            /\ \A i \in 1 .. Len(shown) : Append(shown, m)[i] = shown[i]
            /\ Append(shown, m)[Len(shown) + 1] = m /\ Len(shown) \in Nat
        BY <2>3, <2>4, <3>2, Longer
      <4>2. \A i \in DOMAIN shown : Kept(stored, shown[i])
        BY <2>3 DEF Showable
      <4> QED
        BY <2>5, <3>2, <4>1, <4>2 DEF Showable
    <3> QED
      BY <2>1, <2>2, <3>1, <3>2 DEF Show
  <2>7. SentOnce'
    BY <1>0, <2>1 DEF SentOnce
  <2> QED
    BY <2>1, <2>4, <2>5, <2>6, <2>7 DEF MessageInv, MessagesTyped, StoredOnce, OnTheirWayKept
<1>11. ASSUME NEW m \in Own, Type(m) PROVE MessageInv'
  <2>1. /\ sending[m] = "unsent" /\ ~Contains(wire, SendOf(m)) /\ wire' = Append(wire, SendOf(m))
        /\ UNCHANGED <<sending, stored, down, shown, gets>>
    BY <1>11 DEF Type, messageVars, tabVars
  <2>2. SentOnce'
    BY <1>0, <2>1, EventsEmitted, SendsDiffer, WireGrows
  <2> QED
    BY <2>1, <2>2, OnlyWireGrows
<1>12. ASSUME NEW ids \in {Chats \ Mine, Chats}, Stray(ids) PROVE MessageInv'
  <2>1. wire' = Append(wire, Join(ids)) /\ UNCHANGED <<sending, stored, down, shown, gets>>
        /\ ids \in SUBSET Chats
    BY <1>12 DEF Stray, messageVars
  <2>2. SentOnce'
    BY <1>1, <1>2, <2>1
  <2> QED
    BY <2>1, <2>2, OnlyWireGrows
<1> QED
  BY <1>3, <1>4, <1>5, <1>6, <1>7, <1>8, <1>9, <1>10, <1>11, <1>12 DEF TabStep

LEMMA MessageStep == ChatInv /\ MessageInv /\ [Next]_vars => MessageInv'
<1> SUFFICES ASSUME ChatInv, MessageInv, [Next]_vars PROVE MessageInv'
  OBVIOUS
<1>1. CASE UNCHANGED vars
  <2>1. UNCHANGED <<wire, sending, stored, down, gets, shown>>
    BY <1>1 DEF vars, serverVars, socketVars, messageVars, tabVars
  <2>2. SentOnce'
    BY <2>1 DEF MessageInv, SentOnce
  <2> QED
    BY <2>1, <2>2, MessagesStay
<1> QED
  BY <1>1, MessageServer, MessageTab DEF Next

LEMMA MessageInit == Init => MessageInv
<1> SUFFICES ASSUME Init PROVE MessageInv
  OBVIOUS
<1>1. /\ wire = <<>> /\ down = <<>> /\ gets = <<>> /\ shown = <<>>
      /\ stored = [c \in Chats |-> <<>>]
      /\ sending = [m \in Msgs |-> IF m \in Own THEN "unsent" ELSE "find"]
  BY DEF Init, ServerInit
<1>2. MessagesTyped
  BY <1>1 DEF MessagesTyped, Progress
<1>3. SentOnce /\ StoredOnce
  BY <1>1 DEF SentOnce, StoredOnce, IsInjective
<1>4. OnTheirWayKept
  BY <1>1 DEF OnTheirWayKept
<1>5. Showable(stored, shown)
  BY <1>1 DEF Showable, IsInjective
<1> QED
  BY <1>2, <1>3, <1>4, <1>5 DEF MessageInv

\* However the answers of GETs and the messages heard are mixed, through reconnections
\* and changes of the chat, the window shows no message twice.
THEOREM ShownOnce == Spec => []NeverShownTwice
<1>1. MessageInv => NeverShownTwice
  BY DEF MessageInv, Showable, NeverShownTwice
<1> QED
  BY <1>1, ChatInvInit, ChatInvStep, MessageInit, MessageStep, PTL DEF Spec

\* Whatever the window shows is in the database, in the chat it was sent to.
THEOREM WhatIsShownIsKept == Spec => []ShownIsKept
<1>1. MessageInv => ShownIsKept
  <2> SUFFICES ASSUME MessageInv, NEW m \in Range(shown) PROVE Contains(stored[ChatOf[m]], m)
    BY DEF ShownIsKept
  <2>1. PICK i \in DOMAIN shown : m = shown[i]
    BY DEF Range
  <2> QED
    BY <2>1 DEF MessageInv, Showable, Kept
<1> QED
  BY <1>1, ChatInvInit, ChatInvStep, MessageInit, MessageStep, PTL DEF Spec

-----------------------------------------------------------------------------
(* Rooms.  For every room the client believes to be in, the last of the    *)
(* events on the wire that concerns it is a join, or there is none that    *)
(* leaves it and the server has joined it, is about to, or has last told   *)
(* the client of a failed join.  While the connection is down nothing need *)
(* be on its way: the client joins all of them when it is up again.        *)

\* Events that ask to join a room, and that leave it.
WillJoin(e, c) == e.kind = "join" /\ c \in e.chats
WillLeave(e, c) == e.kind = "leave" /\ c \in e.chats

NotLeft(w, c) == \A j \in 1 .. Len(w) : ~WillLeave(w[j], c)
JoinedLast(w, c) ==
    \E i \in 1 .. Len(w) : /\ WillJoin(w[i], c)
                           /\ \A j \in 1 .. Len(w) : i < j => ~WillLeave(w[j], c)

\* The client has not left it since.
LastWord(w, c) == JoinedLast(w, c) \/ NotLeft(w, c)

\* The server has it, or a handler that waits will join it.
AtServer(rs, js, c) == c \in rs \/ \E n \in DOMAIN js : c \in Joined(js[n])

OnItsWay(w, rs, js, c) == JoinedLast(w, c) \/ (NotLeft(w, c) /\ AtServer(rs, js, c))

Believed(w, rs, js, rf, c) == LastWord(w, c) /\ (c \in rf \/ OnItsWay(w, rs, js, c))

RoomInv ==
    /\ joined \subseteq Mine /\ listed \subseteq Mine /\ selected \in Mine \cup {None}
    /\ connected => \A c \in joined : Believed(wire, rooms, joining, refused, c)

\* A join asks for the chats it names.
LEMMA JoinsOwn ==
    ASSUME NEW ids \in SUBSET Mine, NEW c \in ids
    PROVE  WillJoin(Join(ids), c) /\ Join(ids) \in Events
BY ChatsAssumption, EventsEmitted DEF WillJoin, Join

\* An event at the end of the wire: it joins, or at least does not leave.
LEMMA JoinAdded ==
    ASSUME NEW w \in Seq(Events), NEW e \in Events, NEW c, WillJoin(e, c),
           NEW rs, NEW js, NEW rf
    PROVE  Believed(Append(w, e), rs, js, rf, c)
<1>1. PICK v : v = Append(w, e)
  OBVIOUS
<1>2. /\ Len(w) \in Nat /\ Len(v) = Len(w) + 1 /\ v[Len(w) + 1] = e
  BY <1>1
<1>3. Len(w) + 1 \in 1 .. Len(v) /\ \A j \in 1 .. Len(v) : ~(Len(w) + 1 < j)
  BY <1>2
<1>4. JoinedLast(Append(w, e), c)
  BY <1>1, <1>2, <1>3 DEF JoinedLast
<1> QED
  BY <1>4 DEF Believed, LastWord, OnItsWay

LEMMA OtherAdded ==
    ASSUME NEW w \in Seq(Events), NEW e \in Events, NEW c, ~WillLeave(e, c),
           NEW rs, NEW js, NEW rf, Believed(w, rs, js, rf, c)
    PROVE  Believed(Append(w, e), rs, js, rf, c)
<1>1. PICK v : v = Append(w, e)
  OBVIOUS
<1>2. /\ Len(w) \in Nat /\ Len(v) = Len(w) + 1 /\ v[Len(w) + 1] = e
      /\ \A i \in 1 .. Len(w) : v[i] = w[i]
      /\ \A i \in 1 .. Len(v) : i \in 1 .. Len(w) \/ i = Len(w) + 1
      /\ \A i \in 1 .. Len(w) : i \in 1 .. Len(v)
  BY <1>1
<1>3. NotLeft(w, c) => NotLeft(v, c)
  BY <1>2 DEF NotLeft
<1>4. ASSUME JoinedLast(w, c) PROVE JoinedLast(v, c)
  <2>1. PICK i \in 1 .. Len(w) : /\ WillJoin(w[i], c)
                                 /\ \A j \in 1 .. Len(w) : i < j => ~WillLeave(w[j], c)
    BY <1>4 DEF JoinedLast
  <2>2. WillJoin(v[i], c) /\ i \in 1 .. Len(v)
    BY <1>2, <2>1
  <2>3. \A j \in 1 .. Len(v) : i < j => ~WillLeave(v[j], c)
    BY <1>2, <2>1
  <2> QED
    BY <2>2, <2>3 DEF JoinedLast
<1> QED
  BY <1>1, <1>3, <1>4 DEF Believed, LastWord, OnItsWay

\* An event taken from the wire.
LEMMA EventTaken ==
    ASSUME NEW w \in Seq(Events), w # <<>>, NEW c, NEW rs, NEW js, OnItsWay(w, rs, js, c)
    PROVE  \/ JoinedLast(Tail(w), c)
           \/ /\ NotLeft(Tail(w), c)
              /\ WillJoin(Head(w), c) \/ (AtServer(rs, js, c) /\ ~WillLeave(Head(w), c))
<1>1. PICK v : v = Tail(w)
  OBVIOUS
<1>2. /\ Len(w) \in Nat /\ Len(v) = Len(w) - 1 /\ 1 \in 1 .. Len(w) /\ Head(w) = w[1]
      /\ \A i \in 1 .. Len(v) : i + 1 \in 1 .. Len(w) /\ v[i] = w[i + 1]
  BY <1>1
<1>3. CASE NotLeft(w, c) /\ AtServer(rs, js, c)
  BY <1>1, <1>2, <1>3 DEF NotLeft
<1>4. CASE JoinedLast(w, c)
  <2>1. PICK i \in 1 .. Len(w) : /\ WillJoin(w[i], c)
                                 /\ \A j \in 1 .. Len(w) : i < j => ~WillLeave(w[j], c)
    BY <1>4 DEF JoinedLast
  <2>2. CASE i = 1
    <3>1. \A j \in 1 .. Len(v) : i < j + 1 /\ j + 1 \in 1 .. Len(w) /\ v[j] = w[j + 1]
      BY <1>2, <2>2
    <3>2. NotLeft(v, c)
      BY <2>1, <3>1 DEF NotLeft
    <3> QED
      BY <1>1, <1>2, <2>1, <2>2, <3>2
  <2>3. CASE i # 1
    <3>1. i - 1 \in 1 .. Len(v) /\ (i - 1) + 1 = i /\ v[i - 1] = w[i]
      BY <1>2, <2>3
    <3>2. \A j \in 1 .. Len(v) : i - 1 < j => i < j + 1
      BY <1>2
    <3>3. \A j \in 1 .. Len(v) : i - 1 < j => ~WillLeave(v[j], c)
      BY <1>2, <2>1, <3>2
    <3> QED
      BY <1>1, <2>1, <3>1, <3>3 DEF JoinedLast
  <2> QED
    BY <2>2, <2>3
<1> QED
  BY <1>3, <1>4 DEF OnItsWay

LEMMA LastWordTaken ==
    ASSUME NEW w \in Seq(Events), w # <<>>, NEW c, LastWord(w, c)
    PROVE  LastWord(Tail(w), c)
<1>1. OnItsWay(w, {c}, <<>>, c)
  BY DEF LastWord, OnItsWay, AtServer
<1> QED
  BY <1>1, EventTaken DEF LastWord

-----------------------------------------------------------------------------
\* A failed join of a room the socket is not in is remembered; the others are as before.
LEMMA RoomRefused ==
    ASSUME ChatInv, NEW c, connected, wire # <<>>, wire' = Tail(wire), Head(wire).kind = "join",
           Believed(wire, rooms, joining, refused, c), JoinRefused(Head(wire).chats),
           UNCHANGED <<rooms, joining>>
    PROVE  Believed(wire', rooms', joining', refused', c)
<1>1. wire \in Seq(Events) /\ LastWord(wire, c)
  BY DEF ChatInv, PageSafe, Believed
<1>2. LastWord(wire', c)
  BY <1>1, LastWordTaken
<1>3. ASSUME c \notin refused' PROVE OnItsWay(wire', rooms', joining', c)
  <2>1. c \notin refused /\ (c \in Head(wire).chats => c \in rooms)
    BY <1>3 DEF JoinRefused
  <2>2. WillJoin(Head(wire), c) => AtServer(rooms, joining, c)
    BY <2>1 DEF WillJoin, AtServer
  <2>3. OnItsWay(wire, rooms, joining, c)
    BY <2>1 DEF Believed
  <2> QED
    BY <1>1, <2>2, <2>3, EventTaken DEF OnItsWay
<1> QED
  BY <1>2, <1>3 DEF Believed

\* The server's steps keep what is on its way.
LEMMA RoomServer ==
    ASSUME ChatInv, RoomInv, ServerStep, UNCHANGED tabVars
    PROVE  RoomInv'
<1>0. UNCHANGED <<joined, listed, selected>> /\ wire \in Seq(Events) /\ joining \in Seq(Joins)
  BY DEF tabVars, ChatInv, PageSafe, RoomsSafe
<1> SUFFICES ASSUME connected', NEW c \in joined
             PROVE  Believed(wire', rooms', joining', refused', c)
  BY <1>0 DEF RoomInv
<1>1. c \in Mine
  BY DEF RoomInv
<1>2. ASSUME connected PROVE Believed(wire, rooms, joining, refused, c)
  BY <1>2 DEF RoomInv
<1>3. ASSUME NEW kind \in {"join", "leave", "send"}, Throttled(kind)
      PROVE  Believed(wire', rooms', joining', refused', c)
  <2>1. /\ connected /\ wire # <<>> /\ wire' = Tail(wire) /\ Head(wire).kind = kind
        /\ UNCHANGED <<rooms, joining>>
        /\ IF kind = "join" THEN JoinRefused(Head(wire).chats) ELSE UNCHANGED refused
    BY <1>3 DEF Throttled, Arrives
  <2>2. CASE kind = "join"
    BY <1>2, <2>1, <2>2, RoomRefused
  <2>3. CASE kind # "join"
    <3>1. ~WillJoin(Head(wire), c) /\ UNCHANGED refused
      BY <2>1, <2>3 DEF WillJoin
    <3>2. LastWord(wire', c)
      BY <1>0, <1>2, <2>1, LastWordTaken DEF Believed
    <3> QED
      BY <1>0, <1>2, <2>1, <3>1, <3>2, EventTaken DEF Believed, OnItsWay
  <2> QED
    BY <2>2, <2>3
<1>4. CASE JoinArrives
  <2>1. /\ connected /\ wire # <<>> /\ wire' = Tail(wire) /\ Head(wire).kind = "join"
    BY <1>4 DEF JoinArrives, Arrives
  <2>2. PICK ids : ids = Head(wire).chats
    OBVIOUS
  <2>3. ids \subseteq Chats /\ authorized \subseteq Mine
    BY <1>0, <1>4, <2>1, <2>2, EventArrives, JoinNamesChats DEF JoinArrives, ChatInv, RoomsSafe
  <2>4. LastWord(wire', c)
    BY <1>0, <1>2, <2>1, LastWordTaken DEF Believed
  <2>5. ASSUME AtServer(rooms, joining, c) \/ WillJoin(Head(wire), c)
                  => AtServer(rooms', joining', c),
               c \notin refused' => c \notin refused \/ AtServer(rooms', joining', c)
        PROVE  Believed(wire', rooms', joining', refused', c)
    BY <1>0, <1>2, <2>1, <2>4, <2>5, EventTaken DEF Believed, OnItsWay, LastWord
  <2>6. CASE JoinRefused(ids) /\ UNCHANGED <<rooms, joining>>
    BY <1>2, <2>1, <2>2, <2>6, RoomRefused
  <2>7. CASE ids \subseteq authorized /\ rooms' = rooms \cup ids /\ refused' = refused \ ids
             /\ UNCHANGED joining
    BY <2>2, <2>5, <2>7 DEF AtServer, WillJoin
  <2>8. CASE /\ joining' = Append(joining, [cached |-> ids \cap authorized,
                                            asked |-> ids \ authorized])
             /\ UNCHANGED <<rooms, refused>>
    <3>1. PICK j : j = [cached |-> ids \cap authorized, asked |-> ids \ authorized]
      OBVIOUS
    <3>2. j \in Joins /\ (c \in ids => c \in Joined(j))
      BY <1>1, <2>3, <3>1 DEF Joins, Joined, Granted
    <3>3. /\ DOMAIN joining' = 1 .. Len(joining) + 1 /\ DOMAIN joining = 1 .. Len(joining)
          /\ \A i \in 1 .. Len(joining) : joining'[i] = joining[i]
          /\ joining'[Len(joining) + 1] = j
      BY <1>0, <2>8, <3>1, <3>2, Longer
    <3>4. /\ Len(joining) + 1 \in DOMAIN joining'
          /\ \A i \in DOMAIN joining : i \in DOMAIN joining'
      BY <1>0, <3>3
    <3>5. AtServer(rooms, joining, c) \/ WillJoin(Head(wire), c) => AtServer(rooms', joining', c)
      BY <2>2, <2>8, <3>2, <3>3, <3>4 DEF AtServer, WillJoin
    <3> QED
      BY <2>5, <2>8, <3>5
  <2> QED
    BY <1>4, <2>2, <2>6, <2>7, <2>8 DEF JoinArrives
<1>5. CASE LeaveArrives
  <2>1. /\ connected /\ wire # <<>> /\ wire' = Tail(wire) /\ Head(wire).kind = "leave"
        /\ rooms' = rooms \ Head(wire).chats /\ UNCHANGED <<joining, refused>>
    BY <1>5 DEF LeaveArrives, Arrives
  <2>2. ~WillJoin(Head(wire), c)
    BY <2>1 DEF WillJoin
  <2>3. AtServer(rooms, joining, c) /\ ~WillLeave(Head(wire), c) => AtServer(rooms', joining', c)
    BY <2>1 DEF AtServer, WillLeave
  <2>4. LastWord(wire', c)
    BY <1>0, <1>2, <2>1, LastWordTaken DEF Believed
  <2> QED
    BY <1>0, <1>2, <2>1, <2>2, <2>3, <2>4, EventTaken DEF Believed, OnItsWay
<1>6. CASE SendArrives
  <2>1. /\ connected /\ wire # <<>> /\ wire' = Tail(wire) /\ Head(wire).kind = "send"
        /\ UNCHANGED <<rooms, joining, refused>>
    BY <1>6 DEF SendArrives, Arrives
  <2>2. ~WillJoin(Head(wire), c)
    BY <2>1 DEF WillJoin
  <2>3. LastWord(wire', c)
    BY <1>0, <1>2, <2>1, LastWordTaken DEF Believed
  <2> QED
    BY <1>0, <1>2, <2>1, <2>2, <2>3, EventTaken DEF Believed, OnItsWay
<1>7. ASSUME NEW n \in DOMAIN joining, JoinAuthorized(n)
      PROVE  Believed(wire', rooms', joining', refused', c)
  <2>1. /\ rooms' = rooms \cup Joined(joining[n]) /\ joining' = RemoveAt(joining, n)
        /\ refused' = refused \ Joined(joining[n])
        /\ UNCHANGED <<connected, wire>>
    BY <1>7 DEF JoinAuthorized
  <2>2. \A k \in DOMAIN joining : k # n => \E i \in DOMAIN joining' : joining'[i] = joining[k]
    BY <1>0, <2>1, Shorter
  <2>3. AtServer(rooms, joining, c) => AtServer(rooms', joining', c)
    BY <2>1, <2>2 DEF AtServer
  <2>4. c \notin refused' => c \notin refused \/ AtServer(rooms', joining', c)
    BY <2>1 DEF AtServer
  <2> QED
    BY <1>2, <2>1, <2>3, <2>4 DEF Believed, OnItsWay, LastWord
<1>8. ASSUME NEW n \in DOMAIN joining, JoinFails(n)
      PROVE  Believed(wire', rooms', joining', refused', c)
  <2>1. /\ joining' = RemoveAt(joining, n) /\ UNCHANGED <<connected, wire, rooms>>
        /\ refused' = refused \cup ((joining[n].cached \cup joining[n].asked) \ rooms)
    BY <1>8 DEF JoinFails, JoinRefused
  <2>2. \A k \in DOMAIN joining : k # n => \E i \in DOMAIN joining' : joining'[i] = joining[k]
    BY <1>0, <2>1, Shorter
  <2>3. c \in Joined(joining[n]) => c \in refused' \/ c \in rooms
    BY <2>1 DEF Joined, Granted
  <2>4. c \notin refused' /\ AtServer(rooms, joining, c) => AtServer(rooms', joining', c)
    BY <2>1, <2>2, <2>3 DEF AtServer
  <2> QED
    BY <1>2, <2>1, <2>4 DEF Believed, OnItsWay, LastWord
<1>9. ASSUME NEW m \in Msgs, ChatFound(m) \/ Save(m) \/ Broadcast(m) \/ SendFails(m)
      PROVE  Believed(wire', rooms', joining', refused', c)
  <2>1. UNCHANGED <<connected, refused, wire, rooms, joining>>
    BY <1>9 DEF ChatFound, Save, Broadcast, SendFails, socketVars
  <2> QED
    BY <1>2, <2>1
<1> QED
  BY <1>3, <1>4, <1>5, <1>6, <1>7, <1>8, <1>9 DEF ServerStep

\* So do the tab's, and what they add to what it believes they put on its way.
LEMMA RoomTab ==
    ASSUME ChatInv, RoomInv, TabStep
    PROVE  RoomInv'
<1>0. /\ wire \in Seq(Events) /\ joined \subseteq Mine /\ listed \subseteq Mine
      /\ selected \in Mine \cup {None}
      /\ Mine \subseteq Chats
  BY ChatsAssumption DEF ChatInv, PageSafe, RoomInv
<1>1. ASSUME connected, NEW c \in joined
      PROVE  Believed(wire, rooms, joining, refused, c)
  BY <1>1 DEF RoomInv
<1>2. ASSUME NEW ids \in SUBSET Chats, NEW c PROVE ~WillLeave(Join(ids), c)
  BY DEF WillLeave, Join
<1>3. CASE SocketSet
  <2>1. UNCHANGED <<connected, refused, rooms, joining, listed, selected>>
    BY <1>3 DEF SocketSet
  <2>2. CASE selected = None
    BY <1>3, <2>1, <2>2 DEF SocketSet, RoomInv
  <2>3. CASE selected # None
    <3>1. /\ selected \in Mine /\ wire' = Append(wire, Join({selected}))
          /\ joined' = (joined \ {selected}) \cup {selected}
      BY <1>0, <1>3, <2>3 DEF SocketSet, EnterChat
    <3>2. ASSUME connected', NEW c \in joined'
          PROVE  Believed(wire', rooms', joining', refused', c)
      <4>1. Join({selected}) \in Events /\ WillJoin(Join({selected}), selected)
        BY <3>1, JoinsOwn
      <4>2. CASE c = selected
        BY <1>0, <3>1, <4>1, <4>2, JoinAdded
      <4>3. CASE c # selected
        <5>1. Believed(wire, rooms, joining, refused, c) /\ ~WillLeave(Join({selected}), c)
          BY <1>0, <1>1, <1>2, <2>1, <3>1, <3>2, <4>3
        <5> QED
          BY <1>0, <2>1, <3>1, <4>1, <5>1, OtherAdded
      <4> QED
        BY <4>2, <4>3
    <3> QED
      BY <1>0, <2>1, <3>1, <3>2 DEF RoomInv
  <2> QED
    BY <2>2, <2>3
<1>4. CASE Connects
  <2>1. wire' = wire \o Rejoin /\ UNCHANGED <<refused, rooms, joining, joined, listed, selected>>
    BY <1>4 DEF Connects, tabVars
  <2>2. ASSUME NEW c \in joined PROVE Believed(wire', rooms', joining', refused', c)
    <3>1. Join(joined) \in Events /\ WillJoin(Join(joined), c)
      BY <1>0, <2>2, JoinsOwn
    <3>2. wire' = Append(wire, Join(joined))
      BY <1>0, <2>1, <2>2, <3>1, ConcatOne DEF Rejoin
    <3> QED
      BY <1>0, <3>1, <3>2, JoinAdded
  <2> QED
    BY <1>0, <2>1, <2>2 DEF RoomInv
<1>5. CASE Drops
  <2>1. ~connected' /\ UNCHANGED <<joined, listed, selected>>
    BY <1>5 DEF Drops
  <2> QED
    BY <1>0, <2>1 DEF RoomInv
<1>6. CASE ListAnswered
  <2>1. listed' = Mine /\ UNCHANGED <<connected, refused, rooms, joining, selected>>
    BY <1>6 DEF ListAnswered
  <2>2. CASE ~early
    BY <1>0, <1>6, <2>1, <2>2 DEF ListAnswered, RoomInv
  <2>3. CASE early
    <3>1. joined' = joined \cup Mine /\ wire' = Append(wire, Join(Mine))
      BY <1>6, <2>3 DEF ListAnswered
    <3>2. ASSUME NEW c \in joined' PROVE Believed(wire', rooms', joining', refused', c)
      <4>1. c \in Mine
        BY <1>0, <3>1, <3>2
      <4>2. Join(Mine) \in Events /\ WillJoin(Join(Mine), c)
        BY <4>1, JoinsOwn
      <4> QED
        BY <1>0, <3>1, <4>2, JoinAdded
    <3> QED
      BY <1>0, <2>1, <3>1, <3>2 DEF RoomInv
  <2> QED
    BY <2>2, <2>3
<1>7. ASSUME NEW d \in Mine, Select(d) PROVE RoomInv'
  <2>1. selected' = d /\ UNCHANGED <<connected, refused, rooms, joining, listed>>
    BY <1>7 DEF Select
  <2>2. CASE ~socket
    BY <1>0, <1>7, <2>1, <2>2 DEF Select, RoomInv
  <2>3. CASE socket
    <3>1. /\ joined' = (joined \ {selected}) \cup {d}
          /\ wire' = wire \o (IF selected = None THEN <<>> ELSE <<LeaveOf(selected)>>)
                          \o <<Join({d})>>
      BY <1>7, <2>3 DEF Select, EnterChat
    <3>2. Join({d}) \in Events /\ WillJoin(Join({d}), d)
      BY JoinsOwn
    <3>3. PICK w \in Seq(Events) :
              /\ wire' = Append(w, Join({d}))
              /\ \A c \in joined \ {selected} :
                    Believed(wire, rooms, joining, refused, c) => Believed(w, rooms, joining, refused, c)
      <4>1. CASE selected = None
        <5>1. wire' = Append(wire, Join({d}))
          BY <1>0, <3>1, <3>2, <4>1, ConcatOne
        <5> QED
          BY <1>0, <5>1
      <4>2. CASE selected # None
        <5>1. LeaveOf(selected) \in Events
          BY <1>0, <4>2, EventsEmitted
        <5>2. wire' = Append(Append(wire, LeaveOf(selected)), Join({d}))
          BY <1>0, <3>1, <3>2, <4>2, <5>1, ConcatOne
        <5>3. \A c \in joined \ {selected} : ~WillLeave(LeaveOf(selected), c)
          BY DEF WillLeave, LeaveOf
        <5>4. \A c \in joined \ {selected} : Believed(wire, rooms, joining, refused, c)
                  => Believed(Append(wire, LeaveOf(selected)), rooms, joining, refused, c)
          BY <1>0, <5>1, <5>3, OtherAdded
        <5>5. Append(wire, LeaveOf(selected)) \in Seq(Events)
          BY <1>0, <5>1, Longer
        <5> QED
          BY <5>2, <5>4, <5>5
      <4> QED
        BY <4>1, <4>2
    <3>4. ASSUME connected', NEW c \in joined'
          PROVE  Believed(wire', rooms', joining', refused', c)
      <4>1. CASE c = d
        BY <3>2, <3>3, <4>1, JoinAdded
      <4>2. CASE c # d
        <5>1. c \in joined \ {selected}
          BY <3>1, <3>4, <4>2
        <5>2. Believed(w, rooms, joining, refused, c)
          BY <1>1, <2>1, <3>3, <3>4, <5>1
        <5>3. ~WillLeave(Join({d}), c)
          BY <1>0, <1>2
        <5> QED
          BY <2>1, <3>2, <3>3, <5>2, <5>3, OtherAdded
      <4> QED
        BY <4>1, <4>2
    <3> QED
      BY <1>0, <2>1, <3>1, <3>4 DEF RoomInv
  <2> QED
    BY <2>2, <2>3
<1>8. ASSUME UNCHANGED <<connected, refused, rooms, joining, joined, listed, selected>>,
             NEW e \in Events, \A c \in joined : ~WillLeave(e, c),
             wire' = wire \/ wire' = Append(wire, e)
      PROVE  RoomInv'
  <2>1. ASSUME connected, NEW c \in joined PROVE Believed(wire', rooms, joining, refused, c)
    BY <1>0, <1>1, <1>8, <2>1, OtherAdded
  <2> QED
    BY <1>0, <1>8, <2>1 DEF RoomInv
<1>9. Join({}) \in Events /\ \A c \in joined : ~WillLeave(Join({}), c)
  BY <1>2, EventsEmitted
<1>10. ASSUME NEW n \in DOMAIN gets, GetReads(n) \/ GetAnswers(n) PROVE RoomInv'
  <2>1. UNCHANGED <<connected, refused, rooms, joining, joined, listed, selected, wire>>
    BY <1>10 DEF GetReads, GetAnswers, serverVars, socketVars
  <2> QED
    BY <1>8, <1>9, <2>1
<1>11. CASE MessageHeard
  <2>1. UNCHANGED <<connected, refused, rooms, joining, joined, listed, selected, wire>>
    BY <1>11 DEF MessageHeard
  <2> QED
    BY <1>8, <1>9, <2>1
<1>12. ASSUME NEW m \in Own, Type(m) PROVE RoomInv'
  <2>1. UNCHANGED <<connected, refused, rooms, joining, joined, listed, selected>>
        /\ wire' = Append(wire, SendOf(m))
    BY <1>12 DEF Type, tabVars
  <2>2. SendOf(m) \in Events /\ \A c \in joined : ~WillLeave(SendOf(m), c)
    BY EventsEmitted DEF WillLeave, SendOf
  <2> QED
    BY <1>8, <2>1, <2>2
<1>13. ASSUME NEW ids \in {Chats \ Mine, Chats}, Stray(ids) PROVE RoomInv'
  <2>1. UNCHANGED <<connected, refused, rooms, joining, joined, listed, selected>>
        /\ wire' = Append(wire, Join(ids)) /\ ids \in SUBSET Chats
    BY <1>13 DEF Stray
  <2>2. Join(ids) \in Events /\ \A c \in joined : ~WillLeave(Join(ids), c)
    BY <1>2, <2>1, EventsEmitted
  <2> QED
    BY <1>8, <2>1, <2>2
<1> QED
  BY <1>3, <1>4, <1>5, <1>6, <1>7, <1>10, <1>11, <1>12, <1>13 DEF TabStep

LEMMA RoomStep == ChatInv /\ RoomInv /\ [Next]_vars => RoomInv'
<1> SUFFICES ASSUME ChatInv, RoomInv, [Next]_vars PROVE RoomInv'
  OBVIOUS
<1>1. CASE UNCHANGED vars
  <2>1. UNCHANGED <<connected, refused, rooms, joining, joined, listed, selected, wire>>
    BY <1>1 DEF vars, serverVars, socketVars, tabVars
  <2> QED
    BY <2>1 DEF RoomInv
<1> QED
  BY <1>1, RoomServer, RoomTab DEF Next

\* A connected client whose events have all been handled is in every room it believes to
\* be in, but for those whose join it was last told had failed: through re-joins after a
\* lost connection, events buffered before it, queries answered out of order or rejected,
\* and leaves that overtake joins.
THEOREM InRoomsBelieved == Spec => []SubscribedAsBelieved
<1>1. Init => RoomInv
  BY DEF Init, ServerInit, RoomInv
<1>2. RoomInv => SubscribedAsBelieved
  <2> SUFFICES ASSUME RoomInv, Settled, NEW c \in joined, c \notin refused PROVE c \in rooms
    BY DEF SubscribedAsBelieved
  <2>1. OnItsWay(wire, rooms, joining, c) /\ wire = <<>> /\ joining = <<>>
    BY DEF RoomInv, Settled, Believed
  <2> QED
    BY <2>1 DEF OnItsWay, JoinedLast, AtServer
<1> QED
  BY <1>1, <1>2, ChatInvInit, ChatInvStep, RoomStep, PTL DEF Spec

=============================================================================
