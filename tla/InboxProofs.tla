----------------------------- MODULE InboxProofs -----------------------------
(***************************************************************************)
(* What holds of Inbox for every set of chats, every finite set of         *)
(* messages and any number of opened chats: a message is marked as read    *)
(* once, the chat of the window is read, and no badge hides a message.     *)
(***************************************************************************)
EXTENDS Inbox, FiniteSetTheorems, TLAPS

-----------------------------------------------------------------------------
(* Types.                                                                  *)

Answers == [chats : SUBSET Chats, stored : SUBSET Messages, unread : [Chats -> Nat]]

\* What the database keeps
DataTyped ==
    /\ existing \subseteq Chats
    /\ home \in [Messages -> Chats \cup {None}]
    /\ mine \subseteq Stored
    /\ receipts \in [Messages -> Nat]

\* What the tab keeps, and what is on its way to it or from it
TabTyped ==
    /\ down \in Seq(Messages) /\ ToSet(down) \subseteq Stored
    /\ answers \subseteq Answers /\ \A a \in answers : a.stored \subseteq Stored
    /\ puts \in [Chats -> Nat]
    /\ listed \subseteq Chats
    /\ badge \in [Chats -> Nat]
    /\ selected \in Chats \cup {None}

LEMMA UnreadFinite ==
    ASSUME NEW S \in SUBSET Messages
    PROVE  IsFiniteSet(S) /\ Cardinality(S) \in Nat
  BY InboxAssumption, FS_Subset, FS_CardinalityType

LEMMA Fewer ==
    ASSUME NEW T \in SUBSET Messages, NEW S \in SUBSET T
    PROVE  Cardinality(S) <= Cardinality(T)
  BY UnreadFinite, FS_Subset

LEMMA OneMore ==
    ASSUME NEW T \in SUBSET Messages, NEW m \in Messages, NEW S \in SUBSET (T \cup {m})
    PROVE  Cardinality(S) <= Cardinality(T) + 1
  <1>1. IsFiniteSet(T) /\ Cardinality(T) \in Nat /\ Cardinality(T \cup {m}) \in Nat
    BY UnreadFinite
  <1>2. Cardinality(T \cup {m}) <= Cardinality(T) + 1
    <2>1. CASE m \in T
      <3>1. T \cup {m} = T
        BY <2>1
      <3>2. Cardinality(T \cup {m}) = Cardinality(T)
        BY <3>1
      <3> QED
        BY <1>1, <3>2
    <2>2. CASE m \notin T
      <3>1. Cardinality(T \cup {m}) = Cardinality(T) + 1
        BY <1>1, <2>2, FS_AddElement
      <3> QED
        BY <1>1, <3>1
    <2> QED
      BY <2>1, <2>2
  <1>3. Cardinality(S) <= Cardinality(T \cup {m}) /\ Cardinality(S) \in Nat
    BY Fewer, UnreadFinite
  <1> QED
    BY <1>1, <1>2, <1>3

\* The set of a queue that grows at its end, and of one its head is taken from
LEMMA QueueGrows ==
    ASSUME NEW q \in Seq(Messages), NEW m \in Messages
    PROVE  Append(q, m) \in Seq(Messages) /\ ToSet(Append(q, m)) = ToSet(q) \cup {m}
  <1>1. /\ Append(q, m) \in Seq(Messages) /\ Len(Append(q, m)) = Len(q) + 1
        /\ \A n \in 1 .. Len(q) : Append(q, m)[n] = q[n]
        /\ Append(q, m)[Len(q) + 1] = m /\ Len(q) \in Nat
    OBVIOUS
  <1>2. ToSet(q) = {q[n] : n \in 1 .. Len(q)}
    BY DEF ToSet
  <1>3. ToSet(Append(q, m)) = {Append(q, m)[n] : n \in 1 .. Len(q) + 1}
    BY <1>1 DEF ToSet
  <1>4. \A n \in 1 .. Len(q) + 1 : n \in 1 .. Len(q) \/ n = Len(q) + 1
    BY <1>1
  <1>5. \A n \in 1 .. Len(q) : n \in 1 .. Len(q) + 1
    BY <1>1
  <1>6. Len(q) + 1 \in 1 .. Len(q) + 1
    BY <1>1
  <1> QED
    BY <1>1, <1>2, <1>3, <1>4, <1>5, <1>6

LEMMA QueueTaken ==
    ASSUME NEW q \in Seq(Messages), q # <<>>
    PROVE  /\ Tail(q) \in Seq(Messages) /\ Head(q) \in ToSet(q) /\ Head(q) \in Messages
           /\ ToSet(q) = ToSet(Tail(q)) \cup {Head(q)}
  <1>1. /\ Tail(q) \in Seq(Messages) /\ Len(Tail(q)) = Len(q) - 1 /\ Len(q) \in Nat \ {0}
        /\ Head(q) = q[1] /\ Head(q) \in Messages
        /\ \A n \in 1 .. Len(q) - 1 : Tail(q)[n] = q[n + 1]
    OBVIOUS
  <1>2. ToSet(q) = {q[n] : n \in 1 .. Len(q)}
    BY DEF ToSet
  <1>3. ToSet(Tail(q)) = {Tail(q)[n] : n \in 1 .. Len(q) - 1}
    <2>1. DOMAIN Tail(q) = 1 .. Len(Tail(q))
      BY <1>1
    <2>2. DOMAIN Tail(q) = 1 .. Len(q) - 1
      BY <1>1, <2>1
    <2> QED
      BY <2>2 DEF ToSet
  <1>4. ASSUME NEW n \in 1 .. Len(q) PROVE q[n] \in ToSet(Tail(q)) \cup {Head(q)}
    <2>1. CASE n = 1
      BY <1>1, <2>1
    <2>2. CASE n # 1
      <3>1. n - 1 \in 1 .. Len(q) - 1 /\ (n - 1) + 1 = n
        BY <1>1, <2>2
      <3> QED
        BY <1>1, <1>3, <3>1
    <2> QED
      BY <2>1, <2>2
  <1>5. ASSUME NEW n \in 1 .. Len(q) - 1 PROVE Tail(q)[n] \in ToSet(q)
    <2>1. n + 1 \in 1 .. Len(q)
      BY <1>1
    <2> QED
      BY <1>1, <1>2, <2>1
  <1>6. Head(q) \in ToSet(q)
    BY <1>1, <1>2
  <1> QED
    BY <1>1, <1>2, <1>3, <1>4, <1>5, <1>6

-----------------------------------------------------------------------------
(* The invariants.                                                         *)

\* Receipts are for stored messages, so a message has none when it is sent.
ReceiptsOfStored == \A m \in Messages : m \notin Stored => receipts[m] = 0

\* A message of the open chat that is not read has not been heard of, or its PUT has failed,
\* or it is on its way, or there is a PUT in flight that will mark it.
OpenInv ==
    \A c \in Chats : selected = c /\ puts[c] = 0 => Unread(c) \subseteq unmarked \cup ToSet(down)

\* An answer on its way counts what has not been read of what was stored, and the badge of
\* a chat covers what the tab has been told of it; what is in `down` will be counted.
AnswersCover == \A a \in answers, c \in Chats : a.unread[c] >= Cardinality(Unread(c) \cap a.stored)

ToldOf(c) == Unread(c) \ (lost \cup ToSet(down))
BadgesCover == \A c \in listed : puts[c] = 0 => badge[c] >= Cardinality(ToldOf(c))

\* The inductive invariant.
InboxInv ==
    /\ DataTyped
    /\ TabTyped
    /\ ReceiptsOfStored
    /\ ReadOnce
    /\ OpenInv
    /\ AnswersCover
    /\ BadgesCover

LEMMA UnreadAreStored ==
    ASSUME NEW c
    PROVE  /\ Unread(c) \subseteq Messages /\ Unread(c) \subseteq Stored
           /\ ToldOf(c) \subseteq Messages
  BY DEF Unread, ToldOf, Stored

LEMMA InboxInit == Init => InboxInv
  <1> SUFFICES ASSUME Init PROVE InboxInv
    OBVIOUS
  <1>1. Stored = {} /\ \A c : Unread(c) = {}
    BY DEF Init, Stored, Unread
  <1>2. <<>> \in Seq(Messages) /\ ToSet(<<>>) = {}
    BY DEF ToSet
  <1>3. DataTyped /\ TabTyped
    BY <1>1, <1>2 DEF Init, DataTyped, TabTyped
  <1>4. ReceiptsOfStored /\ ReadOnce /\ OpenInv /\ AnswersCover /\ BadgesCover
    BY <1>1 DEF Init, ReceiptsOfStored, ReadOnce, OpenInv, AnswersCover, BadgesCover
  <1> QED
    BY <1>3, <1>4 DEF InboxInv

-----------------------------------------------------------------------------
(* Messages.                                                               *)

LEMMA SendKeeps ==
    ASSUME InboxInv, NEW c \in Chats, NEW m \in Messages, Send(c, m)
    PROVE  InboxInv'
  <1>1. /\ m \notin Stored /\ home' = [home EXCEPT ![m] = c]
        /\ mine' \in {mine, mine \cup {m}}
        /\ UNCHANGED <<existing, receipts, answers, puts, listed, badge, selected>>
    BY DEF Send, requestVars, tabVars
  <1>2. home'[m] = c /\ c # None /\ \A k \in Messages \ {m} : home'[k] = home[k]
    BY <1>1, InboxAssumption DEF InboxInv, DataTyped
  <1>3. Stored' = Stored \cup {m}
    BY <1>2 DEF Stored
  <1>4. DataTyped'
    BY <1>1, <1>3 DEF InboxInv, DataTyped
  <1>5. \/ down' = Append(down, m) /\ UNCHANGED <<unmarked, lost>>
        \/ unmarked' = unmarked \cup {m} /\ lost' = lost \cup {m} /\ UNCHANGED down
    BY DEF Send
  <1>6. /\ down' \in Seq(Messages)
        /\ \/ ToSet(down') = ToSet(down) \cup {m} /\ UNCHANGED <<unmarked, lost>>
           \/ unmarked' = unmarked \cup {m} /\ lost' = lost \cup {m} /\ ToSet(down') = ToSet(down)
    BY <1>5, QueueGrows DEF InboxInv, TabTyped
  <1>7. TabTyped'
    BY <1>1, <1>3, <1>6 DEF InboxInv, TabTyped
  <1>8. receipts[m] = 0 /\ m \notin mine
    BY <1>1 DEF InboxInv, ReceiptsOfStored, DataTyped
  <1>9. ReceiptsOfStored' /\ ReadOnce'
    <2>1. ReceiptsOfStored'
      BY <1>1, <1>3 DEF InboxInv, ReceiptsOfStored
    <2>2. ASSUME NEW k \in Messages PROVE receipts[k] <= (IF k \in mine' THEN 0 ELSE 1)
      BY <1>1, <1>8, <2>2 DEF InboxInv, ReadOnce
    <2> QED
      BY <1>1, <2>1, <2>2 DEF ReadOnce
  <1>10. \A d \in Chats : Unread(d)' \subseteq Unread(d) \cup {m} /\ (d # c => Unread(d)' = Unread(d))
    BY <1>1, <1>2, <1>3 DEF Unread
  <1>11. OpenInv'
    BY <1>1, <1>6, <1>10 DEF InboxInv, OpenInv
  <1>12. AnswersCover'
    <2> SUFFICES ASSUME NEW a \in answers, NEW d \in Chats
                 PROVE  a.unread[d] >= Cardinality(Unread(d)' \cap a.stored)
      BY <1>1 DEF AnswersCover
    <2>1. m \notin a.stored
      BY <1>1 DEF InboxInv, TabTyped
    <2>2. Unread(d)' \cap a.stored \subseteq Unread(d) \cap a.stored
      BY <1>10, <2>1
    <2>3. /\ Unread(d) \cap a.stored \in SUBSET Messages /\ a.unread[d] \in Nat
          /\ Unread(d)' \cap a.stored \in SUBSET Messages
      BY <2>2, UnreadAreStored DEF InboxInv, TabTyped, Answers
    <2>4. /\ Cardinality(Unread(d)' \cap a.stored) <= Cardinality(Unread(d) \cap a.stored)
          /\ Cardinality(Unread(d)' \cap a.stored) \in Nat
          /\ Cardinality(Unread(d) \cap a.stored) \in Nat
      BY <2>2, <2>3, Fewer, UnreadFinite
    <2> QED
      BY <2>3, <2>4 DEF InboxInv, AnswersCover
  <1>13. BadgesCover'
    <2> SUFFICES ASSUME NEW d \in listed, puts[d] = 0 PROVE badge[d] >= Cardinality(ToldOf(d)')
      BY <1>1 DEF BadgesCover
    <2>1. d \in Chats
      BY DEF InboxInv, TabTyped
    <2>2. ToldOf(d)' \subseteq ToldOf(d)
      BY <1>6, <1>10, <2>1 DEF ToldOf
    <2>3. Cardinality(ToldOf(d)') <= Cardinality(ToldOf(d)) /\ badge[d] \in Nat
          /\ Cardinality(ToldOf(d)') \in Nat /\ Cardinality(ToldOf(d)) \in Nat
      BY <2>1, <2>2, UnreadAreStored, Fewer, UnreadFinite DEF InboxInv, TabTyped
    <2> QED
      BY <2>3 DEF InboxInv, BadgesCover
  <1> QED
    BY <1>4, <1>7, <1>9, <1>11, <1>12, <1>13 DEF InboxInv

LEMMA HeardKeeps ==
    ASSUME InboxInv, MessageHeard
    PROVE  InboxInv'
  <1> DEFINE m == Head(down)
             c == home[m]
  <1>1. /\ down # <<>> /\ down' = Tail(down)
        /\ badge' = Counted(c) /\ puts' = MarkedOnHearing(c)
        /\ UNCHANGED <<existing, home, mine, receipts, answers, listed, selected, unmarked, lost>>
    BY DEF MessageHeard, serverVars, historyVars
  <1>2. /\ down' \in Seq(Messages) /\ m \in Messages /\ m \in ToSet(down)
        /\ ToSet(down) = ToSet(down') \cup {m}
    BY <1>1, QueueTaken DEF InboxInv, TabTyped
  <1>3. c \in Chats
    BY <1>2 DEF InboxInv, TabTyped, DataTyped, Stored
  <1> HIDE DEF m, c
  <1>4. /\ Stored' = Stored /\ \A d : Unread(d)' = Unread(d)
        /\ \A d \in Chats : m \in Unread(d) => d = c
    BY <1>1 DEF Stored, Unread, c
  <1>5. DataTyped' /\ ReceiptsOfStored' /\ ReadOnce' /\ AnswersCover'
    BY <1>1, <1>4 DEF InboxInv, DataTyped, ReceiptsOfStored, ReadOnce, AnswersCover
  <1>6. /\ puts' \in [Chats -> Nat] /\ \A d \in Chats : puts'[d] = 0 => puts[d] = 0
        /\ c = selected => puts'[c] # 0
    <2>1. puts \in [Chats -> Nat]
      BY DEF InboxInv, TabTyped
    <2>2. puts[c] + 1 \in Nat /\ puts[c] + 1 # 0
      BY <1>3, <2>1
    <2> QED
      BY <1>1, <1>3, <2>1, <2>2 DEF MarkedOnHearing
  <1>7. /\ badge' \in [Chats -> Nat]
        /\ \A d \in Chats \ {c} : badge'[d] = badge[d]
        /\ c \in listed /\ c # selected => badge'[c] = badge[c] + 1
    <2>1. badge \in [Chats -> Nat]
      BY DEF InboxInv, TabTyped
    <2>2. badge[c] + 1 \in Nat
      BY <1>3, <2>1
    <2> QED
      BY <1>1, <1>3, <2>1, <2>2 DEF Counted
  <1>8. TabTyped'
    BY <1>1, <1>2, <1>4, <1>6, <1>7 DEF InboxInv, TabTyped
  <1>9. OpenInv'
    <2> SUFFICES ASSUME NEW d \in Chats, selected = d, puts'[d] = 0
                 PROVE  Unread(d) \subseteq unmarked \cup ToSet(down')
      BY <1>1, <1>4 DEF OpenInv
    <2>1. d # c /\ m \notin Unread(d)
      BY <1>4, <1>6
    <2>2. Unread(d) \subseteq unmarked \cup ToSet(down)
      BY <1>6 DEF InboxInv, OpenInv
    <2> QED
      BY <1>2, <2>1, <2>2
  <1>10. BadgesCover'
    <2> SUFFICES ASSUME NEW d \in listed, puts'[d] = 0 PROVE badge'[d] >= Cardinality(ToldOf(d)')
      BY <1>1 DEF BadgesCover
    <2>1. d \in Chats /\ puts[d] = 0
      BY <1>6 DEF InboxInv, TabTyped
    <2>2. /\ badge[d] >= Cardinality(ToldOf(d)) /\ badge[d] \in Nat /\ badge'[d] \in Nat
          /\ ToldOf(d) \in SUBSET Messages /\ Cardinality(ToldOf(d)) \in Nat
      BY <1>7, <2>1, UnreadAreStored, UnreadFinite DEF InboxInv, BadgesCover, TabTyped
    <2>3. CASE d = c
      <3>1. ToldOf(d)' \in SUBSET (ToldOf(d) \cup {m})
        BY <1>1, <1>2, <1>4 DEF ToldOf
      <3>2. /\ Cardinality(ToldOf(d)') <= Cardinality(ToldOf(d)) + 1
            /\ Cardinality(ToldOf(d)') \in Nat
        <4>1. ToldOf(d)' \in SUBSET Messages
          BY <1>2, <2>2, <3>1
        <4> QED
          BY <1>2, <2>2, <3>1, <4>1, OneMore, UnreadFinite
      <3>3. badge'[d] = badge[d] + 1
        BY <1>6, <1>7, <2>3
      <3> QED
        BY <2>2, <3>2, <3>3
    <2>4. CASE d # c
      <3>1. ToldOf(d)' = ToldOf(d)
        BY <1>1, <1>2, <1>4, <2>1, <2>4 DEF ToldOf
      <3> QED
        BY <1>7, <2>1, <2>2, <2>4, <3>1
    <2> QED
      BY <2>3, <2>4
  <1> QED
    BY <1>5, <1>8, <1>9, <1>10 DEF InboxInv

-----------------------------------------------------------------------------
(* Receipts.                                                               *)

\* Marking a chat: each of its unread messages gets its one receipt.
LEMMA MarkKeeps ==
    ASSUME InboxInv, NEW c \in Chats, Mark(c),
           UNCHANGED <<existing, home, mine, down, answers, listed, badge, selected>>
    PROVE  /\ DataTyped' /\ ReceiptsOfStored' /\ ReadOnce' /\ AnswersCover'
           /\ Unread(c)' = {} /\ Stored' = Stored
           /\ \A d \in Chats : Unread(d)' \subseteq Unread(d)
  <1>1. /\ receipts \in [Messages -> Nat]
        /\ \A m \in Messages : receipts'[m] = IF m \in Unread(c) THEN receipts[m] + 1 ELSE receipts[m]
        /\ \A m \in Unread(c) : m \in Messages /\ m \in Stored /\ m \notin mine /\ receipts[m] = 0
    BY UnreadAreStored DEF Mark, InboxInv, DataTyped, Unread
  <1>2. receipts' \in [Messages -> Nat] /\ Stored' = Stored
    BY <1>1 DEF Mark, Stored
  <1>3. DataTyped'
    BY <1>2 DEF InboxInv, DataTyped
  <1>4. ReceiptsOfStored' /\ ReadOnce'
    <2>1. ReceiptsOfStored'
      BY <1>1, <1>2 DEF InboxInv, ReceiptsOfStored
    <2>2. ASSUME NEW m \in Messages PROVE receipts'[m] <= (IF m \in mine THEN 0 ELSE 1)
      <3>1. CASE m \in Unread(c)
        BY <1>1, <3>1
      <3>2. CASE m \notin Unread(c)
        BY <1>1, <3>2 DEF InboxInv, ReadOnce
      <3> QED
        BY <3>1, <3>2
    <2> QED
      BY <2>1, <2>2 DEF ReadOnce
  <1>5. \A d \in Chats : Unread(d)' \subseteq Unread(d)
    <2>1. ASSUME NEW m \in Messages, receipts'[m] = 0 PROVE receipts[m] = 0
      BY <1>1, <2>1
    <2> QED
      BY <1>2, <2>1 DEF Unread, Stored
  <1>6. Unread(c)' = {}
    <2>1. ASSUME NEW m \in Unread(c) PROVE receipts'[m] # 0
      BY <1>1
    <2>2. \A m \in Unread(c)' : m \in Unread(c) /\ receipts'[m] = 0
      BY <1>5 DEF Unread
    <2> QED
      BY <2>1, <2>2
  <1>7. AnswersCover'
    <2> SUFFICES ASSUME NEW a \in answers, NEW d \in Chats
                 PROVE  a.unread[d] >= Cardinality(Unread(d)' \cap a.stored)
      BY DEF AnswersCover
    <2>1. /\ Unread(d) \cap a.stored \in SUBSET Messages /\ a.unread[d] \in Nat
          /\ Unread(d)' \cap a.stored \in SUBSET (Unread(d) \cap a.stored)
          /\ Unread(d)' \cap a.stored \in SUBSET Messages
      BY <1>5, UnreadAreStored DEF InboxInv, TabTyped, Answers
    <2>2. /\ Cardinality(Unread(d)' \cap a.stored) <= Cardinality(Unread(d) \cap a.stored)
          /\ Cardinality(Unread(d)' \cap a.stored) \in Nat
          /\ Cardinality(Unread(d) \cap a.stored) \in Nat
      BY <2>1, Fewer, UnreadFinite
    <2> QED
      BY <2>1, <2>2 DEF InboxInv, AnswersCover
  <1> QED
    BY <1>2, <1>3, <1>4, <1>5, <1>6, <1>7

\* ... the chat is read, and no badge covers less than before.
LEMMA MarkedKeeps ==
    ASSUME InboxInv, NEW c \in Chats, Mark(c), puts' \in [Chats -> Nat],
           \A d \in Chats \ {c} : puts'[d] = puts[d],
           UNCHANGED <<existing, home, mine, down, answers, listed, badge, selected>>
    PROVE  InboxInv'
  <1>1. /\ DataTyped' /\ ReceiptsOfStored' /\ ReadOnce' /\ AnswersCover'
        /\ Unread(c)' = {} /\ Stored' = Stored
        /\ \A d \in Chats : Unread(d)' \subseteq Unread(d)
    BY MarkKeeps
  <1>2. TabTyped'
    BY <1>1 DEF InboxInv, TabTyped
  <1>5. ASSUME NEW d \in Chats, d # c, NEW m \in Unread(d)'
        PROVE  m \in Unread(d) /\ (m \in unmarked' <=> m \in unmarked) /\ (m \in lost' <=> m \in lost)
    <2>1. m \in Unread(d) /\ m \notin Unread(c)
      BY <1>1, <1>5 DEF Unread
    <2> QED
      BY <2>1 DEF Mark
  <1>3. OpenInv'
    BY <1>1, <1>5 DEF InboxInv, OpenInv
  <1>4. BadgesCover'
    <2> SUFFICES ASSUME NEW d \in listed, puts'[d] = 0 PROVE badge[d] >= Cardinality(ToldOf(d)')
      BY DEF BadgesCover
    <2>1. d \in Chats /\ badge[d] \in Nat
      BY DEF InboxInv, TabTyped
    <2>2. CASE d = c
      <3>1. ToldOf(d)' = {}
        BY <1>1, <2>2 DEF ToldOf
      <3>2. Cardinality(ToldOf(d)') = 0
        BY <3>1, FS_EmptySet
      <3> QED
        BY <2>1, <3>2
    <2>3. CASE d # c
      <3>1. ToldOf(d)' \in SUBSET ToldOf(d) /\ ToldOf(d) \in SUBSET Messages
        BY <1>1, <1>5, <2>1, <2>3, UnreadAreStored DEF ToldOf
      <3>2. /\ Cardinality(ToldOf(d)') <= Cardinality(ToldOf(d))
            /\ Cardinality(ToldOf(d)') \in Nat /\ Cardinality(ToldOf(d)) \in Nat
        <4>1. ToldOf(d)' \in SUBSET Messages
          BY <3>1
        <4> QED
          BY <3>1, <4>1, Fewer, UnreadFinite
      <3> QED
        BY <2>1, <2>3, <3>2 DEF InboxInv, BadgesCover
    <2> QED
      BY <2>2, <2>3
  <1> QED
    BY <1>1, <1>2, <1>3, <1>4 DEF InboxInv

LEMMA PutKeeps ==
    ASSUME InboxInv, NEW c \in Chats, PutExecuted(c)
    PROVE  InboxInv'
  <1>1. puts \in [Chats -> Nat] /\ puts[c] > 0 /\ puts' = [puts EXCEPT ![c] = @ - 1]
    BY DEF PutExecuted, InboxInv, TabTyped
  <1>2. puts[c] - 1 \in Nat
    BY <1>1
  <1>3. puts' \in [Chats -> Nat] /\ \A d \in Chats \ {c} : puts'[d] = puts[d]
    BY <1>1, <1>2
  <1> QED
    BY <1>3, MarkedKeeps DEF PutExecuted, socketVars, tabVars, historyVars

\* A PUT that fails: what it leaves unread is no longer promised.
LEMMA PutFailsKeeps ==
    ASSUME InboxInv, NEW c \in Chats, PutFails(c)
    PROVE  InboxInv'
  <1>1. /\ puts \in [Chats -> Nat] /\ puts[c] > 0 /\ puts' = [puts EXCEPT ![c] = @ - 1]
        /\ unmarked' = unmarked \cup Unread(c) /\ lost' = lost \cup Unread(c)
        /\ UNCHANGED <<existing, home, mine, receipts, down, answers, listed, badge, selected>>
    BY DEF PutFails, serverVars, socketVars, tabVars, InboxInv, TabTyped
  <1>2. puts[c] - 1 \in Nat
    BY <1>1
  <1>3. puts' \in [Chats -> Nat] /\ \A d \in Chats \ {c} : puts'[d] = puts[d]
    BY <1>1, <1>2
  <1>4. Stored' = Stored /\ \A d : Unread(d)' = Unread(d)
    BY <1>1 DEF Stored, Unread
  <1>5. DataTyped' /\ ReceiptsOfStored' /\ ReadOnce' /\ AnswersCover' /\ TabTyped'
    BY <1>1, <1>3, <1>4 DEF InboxInv, DataTyped, TabTyped, ReceiptsOfStored, ReadOnce, AnswersCover
  <1>6. OpenInv'
    BY <1>1, <1>3, <1>4 DEF InboxInv, OpenInv
  <1>7. BadgesCover'
    <2> SUFFICES ASSUME NEW d \in listed, puts'[d] = 0 PROVE badge[d] >= Cardinality(ToldOf(d)')
      BY <1>1 DEF BadgesCover
    <2>1. d \in Chats /\ badge[d] \in Nat
      BY DEF InboxInv, TabTyped
    <2>2. CASE d = c
      <3>1. ToldOf(d)' = {}
        BY <1>1, <1>4, <2>2 DEF ToldOf
      <3>2. Cardinality(ToldOf(d)') = 0
        BY <3>1, FS_EmptySet
      <3> QED
        BY <2>1, <3>2
    <2>3. CASE d # c
      <3>1. ToldOf(d)' \in SUBSET ToldOf(d) /\ ToldOf(d) \in SUBSET Messages
        BY <1>1, <1>4, <2>1, UnreadAreStored DEF ToldOf
      <3>2. /\ Cardinality(ToldOf(d)') <= Cardinality(ToldOf(d))
            /\ Cardinality(ToldOf(d)') \in Nat /\ Cardinality(ToldOf(d)) \in Nat
        <4>1. ToldOf(d)' \in SUBSET Messages
          BY <3>1
        <4> QED
          BY <3>1, <4>1, Fewer, UnreadFinite
      <3> QED
        BY <1>3, <2>1, <2>3, <3>2 DEF InboxInv, BadgesCover
    <2> QED
      BY <2>2, <2>3
  <1> QED
    BY <1>5, <1>6, <1>7 DEF InboxInv

LEMMA ReadElsewhereKeeps ==
    ASSUME InboxInv, NEW c \in Chats, ReadElsewhere(c)
    PROVE  InboxInv'
  <1>1. puts' = puts /\ puts \in [Chats -> Nat]
    BY DEF ReadElsewhere, requestVars, InboxInv, TabTyped
  <1> QED
    BY <1>1, MarkedKeeps DEF ReadElsewhere, socketVars, requestVars, tabVars, historyVars

-----------------------------------------------------------------------------
(* The list, and what is opened.                                           *)

LEMMA ListReadKeeps ==
    ASSUME InboxInv, ListRead
    PROVE  InboxInv'
  <1> PICK a : a = [chats |-> existing, stored |-> Stored,
                    unread |-> [c \in Chats |-> Cardinality(Unread(c))]]
    OBVIOUS
  <1>1. /\ answers' = answers \cup {a}
        /\ UNCHANGED <<existing, home, mine, receipts, down, puts, listed, badge, selected,
                       unmarked, lost>>
    BY DEF ListRead, serverVars, socketVars, tabVars, historyVars
  <1>2. Stored' = Stored /\ \A c : Unread(c)' = Unread(c) /\ ToldOf(c)' = ToldOf(c)
    BY <1>1 DEF Stored, Unread, ToldOf
  <1>3. a \in Answers
    <2>1. [c \in Chats |-> Cardinality(Unread(c))] \in [Chats -> Nat]
      BY UnreadAreStored, UnreadFinite
    <2>2. existing \in SUBSET Chats /\ Stored \in SUBSET Messages
      BY DEF InboxInv, DataTyped, Stored
    <2> QED
      BY <2>1, <2>2 DEF Answers
  <1>4. ASSUME NEW c \in Chats PROVE a.unread[c] >= Cardinality(Unread(c) \cap a.stored)
    <2>1. Unread(c) \cap a.stored = Unread(c) /\ a.unread[c] = Cardinality(Unread(c))
      BY UnreadAreStored
    <2>2. Cardinality(Unread(c)) \in Nat
      BY UnreadAreStored, UnreadFinite
    <2> QED
      BY <2>1, <2>2
  <1>5. DataTyped' /\ ReceiptsOfStored' /\ ReadOnce'
    BY <1>1, <1>2 DEF InboxInv, DataTyped, ReceiptsOfStored, ReadOnce
  <1>6. TabTyped'
    <2>1. answers' \subseteq Answers /\ \A b \in answers' : b.stored \subseteq Stored
      <3>1. answers \subseteq Answers /\ \A b \in answers : b.stored \subseteq Stored
        BY DEF InboxInv, TabTyped
      <3>2. a.stored = Stored
        OBVIOUS
      <3> QED
        BY <1>1, <1>3, <3>1, <3>2
    <2> QED
      BY <1>1, <1>2, <2>1 DEF InboxInv, TabTyped
  <1>7. OpenInv' /\ BadgesCover'
    BY <1>1, <1>2 DEF InboxInv, OpenInv, BadgesCover
  <1>8. AnswersCover'
    BY <1>1, <1>2, <1>4 DEF InboxInv, AnswersCover
  <1> QED
    BY <1>5, <1>6, <1>7, <1>8 DEF InboxInv

LEMMA ListAnsweredKeeps ==
    ASSUME InboxInv, NEW a \in answers, ListAnswered(a)
    PROVE  InboxInv'
  <1>1. /\ answers' = answers \ {a} /\ listed' = a.chats /\ badge' = a.unread
        /\ lost' = Stored \ (a.stored \cup ToSet(down))
        /\ UNCHANGED <<existing, home, mine, receipts, down, puts, selected, unmarked>>
    BY DEF ListAnswered, serverVars
  <1>2. Stored' = Stored /\ \A c : Unread(c)' = Unread(c)
    BY <1>1 DEF Stored, Unread
  <1>3. a \in Answers
    BY DEF InboxInv, TabTyped
  <1>4. DataTyped' /\ ReceiptsOfStored' /\ ReadOnce'
    BY <1>1, <1>2 DEF InboxInv, DataTyped, ReceiptsOfStored, ReadOnce
  <1>5. TabTyped'
    BY <1>1, <1>2, <1>3 DEF InboxInv, TabTyped, Answers
  <1>6. OpenInv' /\ AnswersCover'
    BY <1>1, <1>2 DEF InboxInv, OpenInv, AnswersCover
  <1>7. BadgesCover'
    <2> SUFFICES ASSUME NEW c \in a.chats PROVE a.unread[c] >= Cardinality(ToldOf(c)')
      BY <1>1 DEF BadgesCover
    <2>1. c \in Chats /\ a.unread[c] \in Nat
      BY <1>3 DEF Answers
    <2>2. ToldOf(c)' \in SUBSET (Unread(c) \cap a.stored)
      BY <1>1, <1>2, UnreadAreStored DEF ToldOf
    <2>3. Unread(c) \cap a.stored \in SUBSET Messages /\ ToldOf(c)' \in SUBSET Messages
      BY <2>2, UnreadAreStored
    <2>4. /\ Cardinality(ToldOf(c)') <= Cardinality(Unread(c) \cap a.stored)
          /\ Cardinality(ToldOf(c)') \in Nat /\ Cardinality(Unread(c) \cap a.stored) \in Nat
      BY <2>2, <2>3, Fewer, UnreadFinite
    <2> QED
      BY <2>1, <2>4 DEF InboxInv, AnswersCover
  <1> QED
    BY <1>4, <1>5, <1>6, <1>7 DEF InboxInv

\* Opening a chat sends a PUT for it, which will mark whatever is unread in it.
LEMMA OpenKeeps ==
    ASSUME InboxInv, NEW c \in Chats, Open(c), existing' \subseteq Chats,
           badge' \in [Chats -> Nat], \A d \in Chats \ {c} : badge'[d] = badge[d],
           UNCHANGED <<home, mine, receipts, down, answers, listed, unmarked, lost>>
    PROVE  InboxInv'
  <1>1. Stored' = Stored /\ \A d : Unread(d)' = Unread(d) /\ ToldOf(d)' = ToldOf(d)
    BY DEF Stored, Unread, ToldOf
  <1>2. puts \in [Chats -> Nat]
    BY DEF InboxInv, TabTyped
  <1>3. puts[c] + 1 \in Nat /\ puts[c] + 1 # 0
    BY <1>2
  <1>4. /\ selected' = c /\ puts' \in [Chats -> Nat] /\ puts'[c] # 0
        /\ \A d \in Chats \ {c} : puts'[d] = puts[d]
    BY <1>2, <1>3 DEF Open
  <1>5. DataTyped' /\ ReceiptsOfStored' /\ ReadOnce' /\ AnswersCover'
    BY <1>1 DEF InboxInv, DataTyped, ReceiptsOfStored, ReadOnce, AnswersCover
  <1>6. TabTyped'
    BY <1>1, <1>4 DEF InboxInv, TabTyped
  <1>7. OpenInv'
    BY <1>4 DEF OpenInv
  <1>8. BadgesCover'
    BY <1>1, <1>4 DEF InboxInv, BadgesCover, TabTyped
  <1> QED
    BY <1>5, <1>6, <1>7, <1>8 DEF InboxInv

LEMMA SelectKeeps ==
    ASSUME InboxInv, NEW c \in Chats, Select(c)
    PROVE  InboxInv'
  <1>1. badge' = [badge EXCEPT ![c] = 0] /\ badge \in [Chats -> Nat] /\ existing \subseteq Chats
    BY DEF Select, InboxInv, TabTyped, DataTyped
  <1>2. badge' \in [Chats -> Nat] /\ \A d \in Chats \ {c} : badge'[d] = badge[d]
    BY <1>1
  <1> QED
    BY <1>1, <1>2, OpenKeeps DEF Select, serverVars, historyVars

LEMMA StartChatKeeps ==
    ASSUME InboxInv, NEW c \in Chats, StartChat(c)
    PROVE  InboxInv'
  <1>1. existing' \subseteq Chats /\ badge' = badge /\ badge \in [Chats -> Nat]
    BY DEF StartChat, InboxInv, TabTyped, DataTyped
  <1> QED
    BY <1>1, OpenKeeps DEF StartChat, historyVars

\* The rest changes the rooms, or what chats there are.
LEMMA ElseKeeps ==
    ASSUME InboxInv, existing' \subseteq Chats,
           UNCHANGED <<home, mine, receipts, down, answers, puts, listed, badge, selected,
                       historyVars>>
    PROVE  InboxInv'
  <1>1. Stored' = Stored /\ \A c : Unread(c)' = Unread(c) /\ ToldOf(c)' = ToldOf(c)
    BY DEF Stored, Unread, ToldOf, historyVars
  <1>2. DataTyped' /\ TabTyped'
    BY <1>1 DEF InboxInv, DataTyped, TabTyped
  <1>3. ReceiptsOfStored' /\ ReadOnce' /\ OpenInv' /\ AnswersCover' /\ BadgesCover'
    BY <1>1 DEF InboxInv, ReceiptsOfStored, ReadOnce, OpenInv, AnswersCover, BadgesCover,
                historyVars
  <1> QED
    BY <1>2, <1>3 DEF InboxInv

LEMMA InboxStep == InboxInv /\ [Next]_vars => InboxInv'
  <1> SUFFICES ASSUME InboxInv, [Next]_vars PROVE InboxInv'
    OBVIOUS
  <1>0. existing \subseteq Chats
    BY DEF InboxInv, DataTyped
  <1>1. CASE WireHandled
    BY <1>0, <1>1, ElseKeeps DEF WireHandled, serverVars, requestVars, tabVars
  <1>2. ASSUME NEW c \in Chats, MadeElsewhere(c) PROVE InboxInv'
    BY <1>0, <1>2, ElseKeeps DEF MadeElsewhere, socketVars, requestVars, tabVars
  <1>3. CASE UNCHANGED vars
    BY <1>0, <1>3, ElseKeeps DEF vars, serverVars, socketVars, requestVars, tabVars
  <1> QED
    BY <1>1, <1>2, <1>3, SendKeeps, HeardKeeps, PutKeeps, PutFailsKeeps, ReadElsewhereKeeps, ListReadKeeps,
       ListAnsweredKeeps, SelectKeeps, StartChatKeeps DEF Next

-----------------------------------------------------------------------------
(* The theorems.                                                           *)

\* A message has at most one receipt of the account, and none of its sender's, however many
\* tabs mark the chat as read at once.
THEOREM ReadOnlyOnce == Spec => []ReadOnce
  <1>1. InboxInv => ReadOnce
    BY DEF InboxInv
  <1> QED
    BY <1>1, InboxInit, InboxStep, PTL DEF Spec

\* When its PUTs are over and no message of it is on its way, the open chat has no unread
\* message but those sent while the tab was not in the room and those a PUT that failed left.
THEOREM OpenChatIsRead == Spec => []OpenIsRead
  <1>1. InboxInv => OpenIsRead
    <2> SUFFICES ASSUME InboxInv, NEW c \in Chats, selected = c, Quiet(c),
                        NEW m \in Unread(c)
                 PROVE  m \in unmarked
      BY DEF OpenIsRead
    <2>1. m \in unmarked \cup ToSet(down) /\ home[m] = c
      BY DEF InboxInv, OpenInv, Quiet, Unread
    <2>2. m \notin ToSet(down)
      BY <2>1 DEF Quiet, ToSet
    <2> QED
      BY <2>1, <2>2
  <1> QED
    BY <1>1, InboxInit, InboxStep, PTL DEF Spec

\* No badge hides a message the tab could know of and no failed PUT has left unread, although
\* the answer of a GET replaces what has been counted since it was asked.
THEOREM BadgesHideNothing == Spec => []BadgeCoversUnread
  <1>1. InboxInv => BadgeCoversUnread
    <2> SUFFICES ASSUME InboxInv, NEW c \in listed, Quiet(c)
                 PROVE  badge[c] >= Cardinality(Unread(c) \ lost)
      BY DEF BadgeCoversUnread
    <2>1. \A m \in Unread(c) : home[m] = c
      BY DEF Unread
    <2>2. \A m \in Unread(c) : m \notin ToSet(down)
      BY <2>1 DEF Quiet, ToSet
    <2>3. ToldOf(c) = Unread(c) \ lost
      BY <2>2 DEF ToldOf
    <2> QED
      BY <2>3 DEF InboxInv, BadgesCover, Quiet
  <1> QED
    BY <1>1, InboxInit, InboxStep, PTL DEF Spec

=============================================================================
