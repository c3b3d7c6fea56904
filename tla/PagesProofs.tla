---------------------------- MODULE PagesProofs -----------------------------
(***************************************************************************)
(* Proofs about the pages of the application, for any number of users,     *)
(* stories and requests and for every bound.  Each part has an invariant   *)
(* of its own; the last section shows that a behaviour of Pages is one of  *)
(* each part, so that what is proved of a part holds in the application.   *)
(***************************************************************************)
EXTENDS Pages, FiniteSetTheorems, TLAPS

-----------------------------------------------------------------------------
(* StartChat.  A request between look-up and save has seen no chat of its  *)
(* two, and none has come since unless another was between them too, and   *)
(* then the pair is marked as raced.                                       *)

Missed(p) == posts[p] # None /\ posts[p].state = "missed"
PairOf(p) == Pair(posts[p].from, posts[p].to)

\* Types of what the argument is about.
PostsTyped ==
    /\ chats \subseteq [owner : Users, other : Users, by : Posts]
    /\ posts \in [Posts -> Post \cup {None}]

\* What a request that has missed has not seen is not there.
MissedMeansNone ==
    \A p \in Posts : Missed(p) /\ PairOf(p) \notin raced =>
        \A c \in chats : Pair(c.owner, c.other) # PairOf(p)

\* Two that have missed the same chat have raced.
RivalsRaced ==
    \A p, q \in Posts : Missed(p) /\ Missed(q) /\ p # q /\ PairOf(p) = PairOf(q) =>
        PairOf(p) \in raced

ChatInv == PostsTyped /\ MissedMeansNone /\ RivalsRaced /\ OneChatPerPair

\* A step that leaves the chats and the races alone and makes no request miss keeps
\* the invariant.
LEMMA NoNewMiss ==
    ASSUME ChatInv, UNCHANGED <<chats, raced>>,
           posts' \in [Posts -> Post \cup {None}],
           \A p \in Posts : Missed(p)' => Missed(p) /\ PairOf(p)' = PairOf(p)
    PROVE  ChatInv'
<1>1. PostsTyped'
  BY DEF ChatInv, PostsTyped
<1>2. MissedMeansNone'
  BY DEF ChatInv, MissedMeansNone
<1>3. RivalsRaced'
  BY DEF ChatInv, RivalsRaced
<1>4. OneChatPerPair'
  BY DEF ChatInv, OneChatPerPair
<1> QED
  BY <1>1, <1>2, <1>3, <1>4 DEF ChatInv

\* What a step of one request does to the others: nothing.
LEMMA OneChanges ==
    ASSUME PostsTyped, NEW p \in Posts, NEW r \in Post,
           posts' = [posts EXCEPT ![p] = r]
    PROVE  /\ posts' \in [Posts -> Post \cup {None}]
           /\ posts'[p] = r
           /\ \A q \in Posts \ {p} : posts'[q] = posts[q]
BY DEF PostsTyped

LEMMA StateChanges ==
    ASSUME PostsTyped, NEW p \in Posts, posts[p] # None, NEW s \in PostStates,
           posts' = [posts EXCEPT ![p].state = s]
    PROVE  /\ posts' \in [Posts -> Post \cup {None}]
           /\ posts'[p] = [posts[p] EXCEPT !.state = s]
           /\ posts'[p] \in Post
           /\ posts'[p].state = s
           /\ posts'[p].from = posts[p].from
           /\ posts'[p].to = posts[p].to
           /\ \A q \in Posts \ {p} : posts'[q] = posts[q]
<1>1. posts[p] \in Post
  BY DEF PostsTyped
<1>2. posts'[p] = [posts[p] EXCEPT !.state = s]
  BY DEF PostsTyped
<1>3. posts'[p] \in Post
  BY <1>1, <1>2 DEF Post
<1>4. posts'[p].state = s /\ posts'[p].from = posts[p].from /\ posts'[p].to = posts[p].to
  BY <1>1, <1>2 DEF Post
<1>5. \A q \in Posts \ {p} : posts'[q] = posts[q]
  BY DEF PostsTyped
<1>6. posts' \in [Posts -> Post \cup {None}]
  BY <1>2, <1>3 DEF PostsTyped
<1> QED
  BY <1>2, <1>3, <1>4, <1>5, <1>6

\* A request that ends, or is answered without a chat of its own, leaves the others
\* as they are.
LEMMA RequestEnds ==
    ASSUME ChatInv, NEW p \in Posts, posts[p] # None, NEW s \in PostStates \ {"missed"},
           posts' = [posts EXCEPT ![p].state = s], UNCHANGED <<chats, raced>>
    PROVE  ChatInv'
<1>1. PostsTyped
  BY DEF ChatInv
<1>2. /\ posts' \in [Posts -> Post \cup {None}]
      /\ posts'[p].state = s
      /\ \A q \in Posts \ {p} : posts'[q] = posts[q]
  BY <1>1, StateChanges
<1>3. \A q \in Posts : Missed(q)' => Missed(q) /\ PairOf(q)' = PairOf(q)
  BY <1>2 DEF Missed, PairOf
<1> QED
  BY <1>2, <1>3, NoNewMiss

LEMMA InitChatInv == StartChatInit => ChatInv
BY DEF StartChatInit, ChatInv, PostsTyped, MissedMeansNone, RivalsRaced, OneChatPerPair, Missed

\* A request is sent.
LEMMA SendKeeps ==
    ASSUME ChatInv, NEW p \in Posts, NEW a \in Users, NEW b \in Users, NEW d \in BOOLEAN,
           Send(p, a, b, d)
    PROVE  ChatInv'
<1> DEFINE r == [from |-> a, to |-> b, state |-> "sent", dialog |-> d]
<1>1. r \in Post
  BY DEF Post, PostStates
<1>2. PostsTyped /\ posts' = [posts EXCEPT ![p] = r] /\ UNCHANGED <<chats, raced>>
  BY DEF ChatInv, Send
<1> HIDE DEF r
<1>3. /\ posts' \in [Posts -> Post \cup {None}]
      /\ posts'[p] = r
      /\ \A q \in Posts \ {p} : posts'[q] = posts[q]
  BY <1>1, <1>2, OneChanges
<1>4. r.state # "missed"
  BY DEF r
<1>5. \A q \in Posts : Missed(q)' => Missed(q) /\ PairOf(q)' = PairOf(q)
  BY <1>3, <1>4 DEF Missed, PairOf
<1> QED
  BY <1>2, <1>3, <1>5, NoNewMiss

\* The look-up: a request that misses has seen no chat, and its rivals mark the race.
LEMMA FindKeeps ==
    ASSUME ChatInv, NEW p \in Posts, FindChat(p)
    PROVE  ChatInv'
<1>1. PostsTyped /\ posts[p] # None /\ posts[p].state = "sent" /\ chats' = chats
  BY DEF ChatInv, FindChat, Free
<1>2. CASE ChatsOf(posts[p].from, posts[p].to) # {}
  <2>1. posts' = [posts EXCEPT ![p].state = "answered"] /\ UNCHANGED <<chats, raced>>
    BY <1>2 DEF FindChat
  <2> QED
    BY <2>1, <1>1, RequestEnds DEF PostStates
<1>3. CASE ChatsOf(posts[p].from, posts[p].to) = {}
  <2>1. /\ posts' = [posts EXCEPT ![p].state = "missed"]
        /\ raced' = IF Rivals(p) # {} THEN raced \cup {PairOf(p)} ELSE raced
    BY <1>3 DEF FindChat, PairOf
  <2>2. /\ posts' \in [Posts -> Post \cup {None}]
        /\ posts'[p].from = posts[p].from
        /\ posts'[p].to = posts[p].to
        /\ \A q \in Posts \ {p} : posts'[q] = posts[q]
    BY <1>1, <2>1, StateChanges DEF PostStates
  <2>3. \A q \in Posts : PairOf(q)' = PairOf(q)
    BY <2>2 DEF PairOf
  <2>4. \A q \in Posts \ {p} : Missed(q)' <=> Missed(q)
    BY <2>2 DEF Missed
  <2>5. \A c \in chats : Pair(c.owner, c.other) # PairOf(p)
    BY <1>3 DEF ChatsOf, PairOf
  <2>6. PostsTyped'
    BY <1>1, <2>2 DEF PostsTyped
  <2>7. raced \subseteq raced'
    BY <2>1
  <2>8. MissedMeansNone'
    BY <1>1, <2>3, <2>4, <2>5, <2>7 DEF ChatInv, MissedMeansNone
  <2>9. \A q \in Posts \ {p} : Missed(q) /\ PairOf(q) = PairOf(p) => PairOf(p) \in raced'
    BY <2>1 DEF Rivals, Missed, PairOf
  <2>10. RivalsRaced'
    BY <2>3, <2>4, <2>7, <2>9 DEF ChatInv, RivalsRaced
  <2>11. OneChatPerPair'
    BY <1>1, <2>7 DEF ChatInv, OneChatPerPair
  <2> QED
    BY <2>6, <2>8, <2>10, <2>11 DEF ChatInv
<1> QED
  BY <1>2, <1>3

\* The save: there was no chat of the two, or they have raced.
LEMMA SaveKeeps ==
    ASSUME ChatInv, NEW p \in Posts, SaveChat(p)
    PROVE  ChatInv'
<1> DEFINE new == [owner |-> posts[p].from, other |-> posts[p].to, by |-> p]
<1>1. /\ PostsTyped /\ Missed(p) /\ raced' = raced
      /\ chats' = chats \cup {new}
      /\ posts' = [posts EXCEPT ![p].state = "answered"]
  BY DEF ChatInv, SaveChat, Free, Missed
<1>2. posts[p] # None /\ posts[p] \in Post
  BY <1>1 DEF PostsTyped, Missed
<1>3. /\ posts' \in [Posts -> Post \cup {None}]
      /\ posts'[p].state = "answered"
      /\ \A q \in Posts \ {p} : posts'[q] = posts[q]
  BY <1>1, <1>2, StateChanges DEF PostStates
<1>4. new \in [owner : Users, other : Users, by : Posts]
  BY <1>2 DEF Post
<1>5. Pair(new.owner, new.other) = PairOf(p)
  BY DEF PairOf
<1> HIDE DEF new
<1>6. \A q \in Posts : Missed(q)' => q # p /\ Missed(q) /\ PairOf(q)' = PairOf(q)
  BY <1>3 DEF Missed, PairOf
<1>7. PostsTyped'
  BY <1>1, <1>3, <1>4 DEF PostsTyped
<1>8. MissedMeansNone'
  <2> SUFFICES ASSUME NEW q \in Posts, Missed(q)', PairOf(q)' \notin raced', NEW c \in chats'
               PROVE  Pair(c.owner, c.other) # PairOf(q)'
    BY DEF MissedMeansNone
  <2>1. q # p /\ Missed(q) /\ PairOf(q)' = PairOf(q) /\ PairOf(q) \notin raced
    BY <1>1, <1>6
  <2>2. PairOf(q) # PairOf(p)
    BY <1>1, <2>1 DEF ChatInv, RivalsRaced
  <2>3. CASE c = new
    BY <1>5, <2>1, <2>2, <2>3
  <2>4. CASE c \in chats
    BY <2>1, <2>4 DEF ChatInv, MissedMeansNone
  <2> QED
    BY <1>1, <2>3, <2>4
<1>9. RivalsRaced'
  BY <1>1, <1>6 DEF ChatInv, RivalsRaced
<1>10. OneChatPerPair'
  <2>1. PairOf(p) \in raced \/ \A c \in chats : Pair(c.owner, c.other) # PairOf(p)
    BY <1>1 DEF ChatInv, MissedMeansNone
  <2> QED
    BY <1>1, <1>5, <2>1 DEF ChatInv, OneChatPerPair
<1> QED
  BY <1>7, <1>8, <1>9, <1>10 DEF ChatInv

\* Every step of the module keeps the invariant.
LEMMA StepKeepsChatInv == ChatInv /\ [StartChatNext]_startChatVars => ChatInv'
<1> SUFFICES ASSUME ChatInv, [StartChatNext]_startChatVars PROVE ChatInv'
  OBVIOUS
<1>1. CASE UNCHANGED <<chats, posts, raced>>
  <2>1. posts' \in [Posts -> Post \cup {None}]
    BY <1>1 DEF ChatInv, PostsTyped
  <2>2. \A p \in Posts : Missed(p)' => Missed(p) /\ PairOf(p)' = PairOf(p)
    BY <1>1 DEF Missed, PairOf
  <2> QED
    BY <1>1, <2>1, <2>2, NoNewMiss
<1>2. CASE OpenDialog
  BY <1>1, <1>2 DEF OpenDialog
<1>3. CASE CloseDialog
  BY <1>1, <1>3 DEF CloseDialog
<1>4. CASE \E t \in Texts \cup {NoText} : Type(t)
  BY <1>1, <1>4 DEF Type
<1>5. CASE \E s \in searches : SearchAnswered(s)
  BY <1>1, <1>5 DEF SearchAnswered
<1>6. ASSUME NEW p \in Posts, FindChat(p) PROVE ChatInv'
  BY <1>6, FindKeeps
<1>7. ASSUME NEW p \in Posts, SaveChat(p) PROVE ChatInv'
  BY <1>7, SaveKeeps
<1>8. ASSUME NEW p \in Posts, PostFails(p) PROVE ChatInv'
  <2>1. posts[p] # None /\ posts' = [posts EXCEPT ![p].state = "done"] /\ UNCHANGED <<chats, raced>>
    BY <1>8 DEF PostFails, Free
  <2> QED
    BY <2>1, RequestEnds DEF PostStates
<1>9. ASSUME NEW p \in Posts, PostAnswered(p) \/ PostAnswerLost(p) PROVE ChatInv'
  <2>1. posts[p] # None /\ posts' = [posts EXCEPT ![p].state = "done"] /\ UNCHANGED <<chats, raced>>
    BY <1>9 DEF PostAnswered, PostAnswerLost, Free
  <2> QED
    BY <2>1, RequestEnds DEF PostStates
<1>10. ASSUME NEW p \in Posts, NEW u \in Users, StartChatWith(p, u) PROVE ChatInv'
  BY <1>10, SendKeeps, StartChatAssumption DEF StartChatWith
<1>11. ASSUME NEW p \in Posts, NEW a \in Users, NEW b \in Users, AskElsewhere(p, a, b) PROVE ChatInv'
  BY <1>11, SendKeeps DEF AskElsewhere
<1>12. CASE UNCHANGED startChatVars
  BY <1>1, <1>12 DEF startChatVars
<1> QED
  BY <1>2, <1>3, <1>4, <1>5, <1>6, <1>7, <1>8, <1>9, <1>10, <1>11, <1>12 DEF StartChatNext

\* Two people have one chat, unless two requests of theirs were between look-up and
\* save of createDirectChat at once: for any number of users, requests and searches.
THEOREM OneChatUnlessRaced == StartChatSpec => []OneChatPerPair
<1>1. ChatInv => OneChatPerPair
  BY DEF ChatInv
<1> QED
  BY <1>1, InitChatInv, StepKeepsChatInv, PTL DEF StartChatSpec

-----------------------------------------------------------------------------
(* EditorPage.  While a text is in the form there is at most one POST of   *)
(* it, and a POST of another opening is of another text, for an opening    *)
(* starts with an empty form and every text is new.  A text that has been  *)
(* saved is in the form only until the answer comes.                       *)

\* Types of what the argument is about.
SavesTyped ==
    /\ \A r \in saves :
          r \in [n : Nat, text : 0 .. texts, draft : BOOLEAN, opening : 1 .. openings,
                 state : {"sent", "saved", "refused"}]
    /\ \A s \in saved : s \in [n : Nat, text : 1 .. texts, draft : BOOLEAN]
CountsTyped ==
    /\ texts \in Nat /\ form \in 0 .. texts /\ openings \in Nat /\ saveCount \in Nat
    /\ writing => openings > 0
StateTyped == SavesTyped /\ CountsTyped

\* The page awaits at most one POST, and its buttons are disabled while it does.
OneAwaited ==
    /\ \A r \in Mine(saves) : saving
    /\ \A r, q \in Mine(saves) : r = q

\* There is one POST of a text at a time, and the one of the form's is awaited by the
\* page.
OneOfText ==
    /\ \A r, q \in saves : r.text # 0 /\ r.text = q.text => r = q
    /\ \A r \in saves : writing /\ form # 0 /\ r.text = form => r \in Mine(saves)

\* What is asked for has not been saved, and what has been saved is in the form only
\* while its answer is on its way.
AskedIsNew ==
    \A s \in saved : s.text \notin lostSaves =>
        /\ \A r \in saves : r.text = s.text => r.state # "sent"
        /\ writing /\ s.text = form => \E r \in Mine(saves) : r.text = form /\ r.state = "saved"

Once == \A s, q \in saved : s.text = q.text /\ s.text \notin lostSaves => s = q

EditorInv == StateTyped /\ OneAwaited /\ OneOfText /\ AskedIsNew /\ Once

LEMMA EditorInvInit == EditorInit => EditorInv
<1> SUFFICES ASSUME EditorInit PROVE EditorInv
  OBVIOUS
<1> USE DEF EditorInit
<1>1. SavesTyped
  BY DEF SavesTyped
<1>2. CountsTyped
  BY DEF CountsTyped
<1>3. OneAwaited /\ OneOfText /\ AskedIsNew /\ Once
  BY DEF OneAwaited, OneOfText, AskedIsNew, Once, Mine
<1> QED
  BY <1>1, <1>2, <1>3 DEF EditorInv, StateTyped

\* A step that leaves the form, the POSTs and the stories alone keeps the invariant; so
\* does leaving the page.
LEMMA EditorFrame ==
    ASSUME EditorInv,
           UNCHANGED <<saved, openings, form, saving, saves, saveCount, texts, lostSaves>>,
           writing' => writing
    PROVE  EditorInv'
BY DEF EditorInv, StateTyped, SavesTyped, CountsTyped, OneAwaited, OneOfText, AskedIsNew, Once, Mine

\* A new text is in no POST and in no story.
LEMMA NewText ==
    ASSUME EditorInv,
           UNCHANGED <<saved, openings, writing, saving, saves, saveCount, lostSaves>>,
           texts' = texts + 1, form' = texts + 1
    PROVE  EditorInv'
<1> USE DEF EditorInv
<1>1. StateTyped'
  BY DEF StateTyped, SavesTyped, CountsTyped
<1>2. OneAwaited'
  BY DEF OneAwaited, Mine
<1>3. OneOfText'
  BY DEF OneOfText, StateTyped, SavesTyped, CountsTyped, Mine
<1>4. AskedIsNew'
  BY DEF AskedIsNew, StateTyped, SavesTyped, CountsTyped, Mine
<1>5. Once'
  BY DEF Once
<1> QED
  BY <1>1, <1>2, <1>3, <1>4, <1>5

LEMMA OpenStep == EditorInv /\ OpenEditor => EditorInv'
<1> SUFFICES ASSUME EditorInv, OpenEditor PROVE EditorInv'
  OBVIOUS
<1> USE DEF EditorInv, OpenEditor
<1>1. StateTyped'
  <2>1. openings \in Nat /\ openings' = openings + 1
    BY DEF StateTyped, CountsTyped
  <2>2. 1 .. openings \subseteq 1 .. openings'
    BY <2>1
  <2>3. SavesTyped'
    BY <2>2 DEF StateTyped, SavesTyped
  <2>4. CountsTyped'
    BY <2>1 DEF StateTyped, CountsTyped
  <2> QED
    BY <2>3, <2>4 DEF StateTyped
<1>2. Mine(saves)' = {}
  BY DEF Mine, StateTyped, SavesTyped, CountsTyped
<1>3. OneAwaited' /\ OneOfText'
  BY <1>2 DEF OneAwaited, OneOfText
<1>4. AskedIsNew'
  BY <1>2 DEF AskedIsNew, StateTyped, SavesTyped, CountsTyped
<1>5. Once'
  BY DEF Once
<1> QED
  BY <1>1, <1>3, <1>4, <1>5

\* A text is sent only when no POST of it is under way and it has not been saved.
LEMMA SubmitStep ==
    ASSUME EditorInv, NEW draft \in BOOLEAN, Submit(draft)
    PROVE  EditorInv'
<1> DEFINE new == [n |-> saveCount + 1, text |-> form, draft |-> draft, opening |-> openings,
                   state |-> "sent"]
<1>1. /\ writing /\ ~saving /\ saving' = TRUE
      /\ saves' = saves \cup {new} /\ saveCount' = saveCount + 1
      /\ UNCHANGED <<saved, openings, writing, form, texts, lostSaves>>
  BY DEF Submit, MaySubmit
<1>2. Mine(saves) = {}
  BY <1>1 DEF EditorInv, OneAwaited
<1>3. new \in [n : Nat, text : 0 .. texts, draft : BOOLEAN, opening : 1 .. openings,
               state : {"sent", "saved", "refused"}]
  BY <1>1 DEF EditorInv, StateTyped, SavesTyped, CountsTyped
<1>4. StateTyped'
  BY <1>1, <1>3 DEF EditorInv, StateTyped, SavesTyped, CountsTyped
<1>5. Mine(saves)' = {new}
  BY <1>1, <1>2 DEF Mine
<1>6. form # 0 => \A r \in saves : r.text # form
  BY <1>1, <1>2 DEF EditorInv, OneOfText
<1>7. \A s \in saved : s.text \notin lostSaves => s.text # form
  BY <1>1, <1>2 DEF EditorInv, AskedIsNew
<1> HIDE DEF new
<1>8. new.text = form
  BY DEF new
<1>9. OneAwaited'
  BY <1>1, <1>5 DEF OneAwaited
<1>10. OneOfText'
  BY <1>1, <1>5, <1>6, <1>8 DEF EditorInv, OneOfText
<1>11. AskedIsNew'
  BY <1>1, <1>7, <1>8 DEF EditorInv, AskedIsNew
<1>12. Once'
  BY <1>1 DEF EditorInv, Once
<1> QED
  BY <1>4, <1>9, <1>10, <1>11, <1>12 DEF EditorInv

\* The server saves what has been asked for, which has not been saved before.
LEMMA SaveStep ==
    ASSUME EditorInv, NEW r \in saves, NEW ok \in BOOLEAN, SaveStory(r, ok)
    PROVE  EditorInv'
<1> DEFINE q == [r EXCEPT !.state = IF ok THEN "saved" ELSE "refused"]
           s == [n |-> r.n, text |-> r.text, draft |-> r.draft]
<1>1. /\ r.state = "sent" /\ (ok => r.text # 0)
      /\ saves' = (saves \ {r}) \cup {q}
      /\ saved' = IF ok THEN saved \cup {s} ELSE saved
      /\ UNCHANGED <<openings, writing, form, saving, saveCount, texts, lostSaves>>
  BY DEF SaveStory
<1>2. r \in [n : Nat, text : 0 .. texts, draft : BOOLEAN, opening : 1 .. openings,
             state : {"sent", "saved", "refused"}]
  BY DEF EditorInv, StateTyped, SavesTyped, CountsTyped
<1>3. /\ q.text = r.text /\ q.opening = r.opening
      /\ q.state = IF ok THEN "saved" ELSE "refused"
      /\ q \in [n : Nat, text : 0 .. texts, draft : BOOLEAN, opening : 1 .. openings,
                state : {"sent", "saved", "refused"}]
  BY <1>2
<1>4. s.text = r.text /\ (ok => s \in [n : Nat, text : 1 .. texts, draft : BOOLEAN])
  BY <1>1, <1>2 DEF EditorInv, StateTyped, SavesTyped, CountsTyped
<1> HIDE DEF q, s
<1>5. StateTyped'
  BY <1>1, <1>3, <1>4 DEF EditorInv, StateTyped, SavesTyped, CountsTyped
<1>6. OneAwaited'
  BY <1>1, <1>3 DEF EditorInv, OneAwaited, Mine
<1>7. OneOfText'
  BY <1>1, <1>3 DEF EditorInv, OneOfText, Mine
<1>8. AskedIsNew'
  <2> SUFFICES ASSUME NEW t \in saved', t.text \notin lostSaves
               PROVE  /\ \A p \in saves' : p.text = t.text => p.state # "sent"
                      /\ writing /\ t.text = form =>
                            \E p \in Mine(saves)' : p.text = form /\ p.state = "saved"
    BY <1>1 DEF AskedIsNew
  <2>1. CASE ok /\ t = s
    <3>1. t.text = r.text /\ r.text # 0 /\ q.state = "saved"
      BY <1>1, <1>3, <1>4, <2>1
    <3>2. \A p \in saves' : p.text = t.text => p.state # "sent"
      BY <1>1, <3>1 DEF EditorInv, OneOfText
    <3>3. writing /\ t.text = form => q \in Mine(saves)'
      BY <1>1, <1>3, <3>1 DEF EditorInv, OneOfText, Mine
    <3> QED
      BY <1>3, <3>1, <3>2, <3>3
  <2>2. CASE t \in saved
    <3>1. \A p \in saves' : p.text = t.text => p.state # "sent"
      BY <1>1, <1>3, <2>2 DEF EditorInv, AskedIsNew
    <3>2. writing /\ t.text = form =>
              \E p \in Mine(saves) : p.text = form /\ p.state = "saved" /\ p # r
      BY <1>1, <2>2 DEF EditorInv, AskedIsNew
    <3>3. \A p \in Mine(saves) : p # r => p \in Mine(saves)'
      BY <1>1 DEF Mine
    <3> QED
      BY <3>1, <3>2, <3>3
  <2> QED
    BY <1>1, <2>1, <2>2
<1>9. Once'
  BY <1>1, <1>4 DEF EditorInv, Once, AskedIsNew
<1> QED
  BY <1>5, <1>6, <1>7, <1>8, <1>9 DEF EditorInv

\* An answer to a POST, or none: the page forgets the POST, and the text if it has been
\* saved.
LEMMA AnswerStep ==
    ASSUME EditorInv, NEW r \in saves, saves' = saves \ {r},
           UNCHANGED <<saved, openings, writing, saveCount, texts>>,
           r \in Mine(saves) /\ r.state = "saved" => form' = 0 \/ r.text \in lostSaves',
           form' \in {0, form}, lostSaves \subseteq lostSaves',
           saving' = IF r \in Mine(saves) THEN FALSE ELSE saving
    PROVE  EditorInv'
<1>1. StateTyped'
  <2>1. SavesTyped'
    BY DEF EditorInv, StateTyped, SavesTyped
  <2>2. form' \in 0 .. texts
    BY DEF EditorInv, StateTyped, CountsTyped
  <2>3. CountsTyped'
    BY <2>2 DEF EditorInv, StateTyped, CountsTyped
  <2> QED
    BY <2>1, <2>3 DEF StateTyped
<1>2. Mine(saves)' = Mine(saves) \ {r}
  BY DEF Mine
<1>3. OneAwaited'
  BY <1>2 DEF EditorInv, OneAwaited
<1>4. OneOfText'
  BY <1>2 DEF EditorInv, OneOfText
<1>5. AskedIsNew'
  <2> SUFFICES ASSUME NEW t \in saved, t.text \notin lostSaves'
               PROVE  /\ \A p \in saves' : p.text = t.text => p.state # "sent"
                      /\ writing /\ t.text = form' =>
                            \E p \in Mine(saves)' : p.text = form' /\ p.state = "saved"
    BY DEF AskedIsNew
  <2>1. \A p \in saves' : p.text = t.text => p.state # "sent"
    BY DEF EditorInv, AskedIsNew
  <2>2. ASSUME writing, t.text = form'
        PROVE  \E p \in Mine(saves)' : p.text = form' /\ p.state = "saved"
    <3>1. form' = form
      BY <2>2 DEF EditorInv, StateTyped, SavesTyped, CountsTyped
    <3>2. PICK p \in Mine(saves) : p.text = form /\ p.state = "saved"
      BY <2>2, <3>1 DEF EditorInv, AskedIsNew
    <3>3. p # r /\ p \in Mine(saves)
      BY <2>2, <3>1, <3>2 DEF EditorInv, StateTyped, SavesTyped, CountsTyped
    <3> QED
      BY <1>2, <3>1, <3>2, <3>3
  <2> QED
    BY <2>1, <2>2
<1>6. Once'
  BY DEF EditorInv, Once
<1> QED
  BY <1>1, <1>3, <1>4, <1>5, <1>6 DEF EditorInv

LEMMA EditorStep == EditorInv /\ [EditorNext]_editorVars => EditorInv'
<1> SUFFICES ASSUME EditorInv, [EditorNext]_editorVars PROVE EditorInv'
  OBVIOUS
<1> USE DEF editorHistoryVars
<1>1. CASE OpenEditor
  BY <1>1, OpenStep
<1>2. CASE CloseEditor \/ LeaveOther \/ Generate
  BY <1>2, EditorFrame DEF CloseEditor, LeaveOther, Generate
<1>3. ASSUME NEW b \in BOOLEAN, EditForm(b) PROVE EditorInv'
  BY <1>3, NewText DEF EditForm, Fill
<1>4. ASSUME NEW b \in BOOLEAN, Submit(b) PROVE EditorInv'
  BY <1>4, SubmitStep
<1>5. ASSUME NEW r \in saves, SaveAnswered(r) PROVE EditorInv'
  <2>1. form' = IF r \in Mine(saves) THEN 0 ELSE form
    BY <1>5 DEF SaveAnswered, SavedForm, EmptiedForm
  <2>2. /\ saves' = saves \ {r}
        /\ UNCHANGED <<saved, openings, writing, saveCount, texts, lostSaves>>
        /\ saving' = IF r \in Mine(saves) THEN FALSE ELSE saving
    BY <1>5 DEF SaveAnswered
  <2> QED
    BY <2>1, <2>2, AnswerStep
<1>6. ASSUME NEW r \in saves, SaveFailed(r) PROVE EditorInv'
  <2>1. /\ form' = form /\ saves' = saves \ {r}
        /\ UNCHANGED <<saved, openings, writing, saveCount, texts>>
        /\ saving' = IF r \in Mine(saves) THEN FALSE ELSE saving
        /\ lostSaves \subseteq lostSaves'
        /\ r.state = "saved" => r.text \in lostSaves'
    BY <1>6 DEF SaveFailed, RefusedForm, KeptForm
  <2> QED
    BY <2>1, AnswerStep
<1>7. ASSUME NEW r \in saves, NEW ok \in BOOLEAN, SaveStory(r, ok) PROVE EditorInv'
  BY <1>7, SaveStep
<1>8. ASSUME NEW r \in prompts, GenerateFails(r) PROVE EditorInv'
  BY <1>8, EditorFrame DEF GenerateFails
<1>9. ASSUME NEW r \in prompts, NEW b \in BOOLEAN, Generated(r, b) PROVE EditorInv'
  <2>1. CASE r \in Mine(prompts)
    BY <1>9, <2>1, NewText DEF Generated, Fill
  <2>2. CASE r \notin Mine(prompts)
    BY <1>9, <2>2, EditorFrame DEF Generated
  <2> QED
    BY <2>1, <2>2
<1>10. CASE UNCHANGED editorVars
  BY <1>10, EditorFrame DEF editorVars
<1> QED
  BY <1>1, <1>2, <1>3, <1>4, <1>5, <1>6, <1>7, <1>8, <1>9, <1>10 DEF EditorNext

LEMMA OnceIsSavedOnce == EditorInv => SavedOnce
<1> SUFFICES ASSUME EditorInv, NEW t \in 1 .. texts \ lostSaves
             PROVE  Cardinality({s \in saved : s.text = t}) <= 1
  BY DEF SavedOnce
<1> DEFINE S == {s \in saved : s.text = t}
<1>1. CASE S = {}
  BY <1>1, FS_EmptySet
<1>2. CASE S # {}
  <2>1. PICK s : s \in S
    BY <1>2
  <2>2. S = {s}
    BY <2>1 DEF EditorInv, Once
  <2>3. Cardinality({s}) = 1
    BY FS_Singleton
  <2> QED
    BY <2>2, <2>3
<1> QED
  BY <1>1, <1>2

\* However often the buttons are pressed, the page is left and opened again, and answers
\* come late, a text becomes one story, unless the answer to its POST was lost
\* (handleSubmit, createStory).
THEOREM SavedOnceForGood == EditorSpec => []SavedOnce
<1>1. EditorInit => EditorInv
  BY EditorInvInit
<1>2. EditorInv /\ [EditorNext]_editorVars => EditorInv'
  BY EditorStep
<1>3. EditorInv => SavedOnce
  BY OnceIsSavedOnce
<1> QED
  BY <1>1, <1>2, <1>3, PTL DEF EditorSpec

\* Of a form that has not changed while a POST or the AI was awaited: the POST is of the
\* text in it, and what is no longer in it has been saved.
Unchanged ==
    writing /\ ~meanwhile =>
        /\ \A r \in Mine(saves) : r.text = form
        /\ form # current => \E s \in saved : s.text = current

\* What a POST says is saved is.
SaidSaved == \A r \in saves : r.state = "saved" => \E s \in saved : s.text = r.text

KeptInv == EditorInv /\ Unchanged /\ SaidSaved

\* A step that leaves form, POSTs and stories alone.
LEMMA KeptFrame ==
    ASSUME Unchanged, SaidSaved,
           UNCHANGED <<saved, openings, form, saves, current, meanwhile>>, writing' => writing
    PROVE  Unchanged' /\ SaidSaved'
BY DEF Unchanged, SaidSaved, Mine

\* The form gets a text: no POST is awaited, or the user was not to touch it.
LEMMA KeptFill ==
    ASSUME EditorInv, SaidSaved, NEW ready, NEW late, Fill(ready, late), saving => late,
           UNCHANGED <<saved, openings, writing, saves>>
    PROVE  Unchanged' /\ SaidSaved'
<1>1. form' = current' /\ meanwhile' = (meanwhile \/ late)
  BY DEF Fill
<1>2. SaidSaved'
  BY DEF SaidSaved
<1>3. ASSUME ~meanwhile' PROVE Mine(saves)' = {}
  <2>1. ~saving
    BY <1>1, <1>3
  <2>2. Mine(saves)' = Mine(saves)
    BY DEF Mine
  <2> QED
    BY <2>1, <2>2 DEF EditorInv, OneAwaited
<1>4. Unchanged'
  BY <1>1, <1>3 DEF Unchanged
<1> QED
  BY <1>2, <1>4

\* The page forgets a POST: the form is as it was, or empty after it was saved.
LEMMA KeptAnswer ==
    ASSUME Unchanged, SaidSaved, NEW r \in saves, saves' = saves \ {r},
           UNCHANGED <<saved, openings, writing, current, meanwhile>>,
           r \notin Mine(saves) \/ r.state # "saved" => form' = form,
           EditorInv, form' # form => form' = 0
    PROVE  Unchanged' /\ SaidSaved'
<1>1. SaidSaved'
  BY DEF SaidSaved
<1>2. Mine(saves)' = Mine(saves) \ {r}
  BY DEF Mine
<1>3. CASE form' = form
  BY <1>1, <1>2, <1>3 DEF Unchanged
<1>4. CASE form' # form
  <2>1. r \in Mine(saves) /\ r.state = "saved"
    BY <1>4
  <2>2. Mine(saves)' = {}
    BY <1>2, <2>1 DEF EditorInv, OneAwaited
  <2>3. ASSUME writing', ~meanwhile' PROVE \E s \in saved : s.text = current
    <3>1. r.text = form /\ (form # current => \E s \in saved : s.text = current)
      BY <2>1, <2>3 DEF Unchanged
    <3>2. \E s \in saved : s.text = form
      BY <2>1, <3>1 DEF SaidSaved
    <3> QED
      BY <3>1, <3>2
  <2>4. Unchanged'
    BY <2>2, <2>3 DEF Unchanged
  <2> QED
    BY <1>1, <2>4
<1> QED
  BY <1>3, <1>4

LEMMA KeptStep == KeptInv /\ [EditorNext]_editorVars => KeptInv'
<1> SUFFICES ASSUME KeptInv, [EditorNext]_editorVars PROVE Unchanged' /\ SaidSaved'
  BY EditorStep DEF KeptInv
<1>0. EditorInv /\ Unchanged /\ SaidSaved
  BY DEF KeptInv
<1>1. CASE OpenEditor
  <2>1. openings' = openings + 1 /\ form' = current' /\ UNCHANGED <<saves, saved>>
    BY <1>1 DEF OpenEditor
  <2>2. Mine(saves)' = {}
    BY <1>0, <2>1 DEF Mine, EditorInv, StateTyped, SavesTyped, CountsTyped
  <2> QED
    BY <1>0, <2>1, <2>2 DEF Unchanged, SaidSaved
<1>2. CASE CloseEditor \/ LeaveOther \/ Generate
  BY <1>0, <1>2, KeptFrame DEF CloseEditor, LeaveOther, Generate, editorHistoryVars
<1>3. ASSUME NEW b \in BOOLEAN, EditForm(b) PROVE Unchanged' /\ SaidSaved'
  BY <1>0, <1>3, KeptFill DEF EditForm
<1>4. ASSUME NEW b \in BOOLEAN, Submit(b) PROVE Unchanged' /\ SaidSaved'
  <2>1. PICK new : new = [n |-> saveCount + 1, text |-> form, draft |-> b, opening |-> openings,
                          state |-> "sent"]
    OBVIOUS
  <2>2. /\ saves' = saves \cup {new} /\ new.text = form /\ new.state = "sent"
        /\ UNCHANGED <<saved, openings, writing, form, current, meanwhile>>
    BY <1>4, <2>1 DEF Submit, editorHistoryVars
  <2> QED
    BY <1>0, <2>2 DEF Unchanged, SaidSaved, Mine
<1>5. ASSUME NEW r \in saves, SaveAnswered(r) PROVE Unchanged' /\ SaidSaved'
  <2>1. /\ saves' = saves \ {r} /\ r.state = "saved"
        /\ form' = (IF r \in Mine(saves) THEN 0 ELSE form)
        /\ UNCHANGED <<saved, openings, writing, current, meanwhile>>
    BY <1>5 DEF SaveAnswered, SavedForm, EmptiedForm, editorHistoryVars
  <2> QED
    BY <1>0, <2>1, KeptAnswer
<1>6. ASSUME NEW r \in saves, SaveFailed(r) PROVE Unchanged' /\ SaidSaved'
  <2>1. /\ saves' = saves \ {r} /\ form' = form
        /\ UNCHANGED <<saved, openings, writing, current, meanwhile>>
    BY <1>6 DEF SaveFailed, RefusedForm, KeptForm, editorHistoryVars
  <2> QED
    BY <1>0, <2>1, KeptAnswer
<1>7. ASSUME NEW r \in saves, NEW ok \in BOOLEAN, SaveStory(r, ok)
      PROVE  Unchanged' /\ SaidSaved'
  <2>1. PICK q : q = [r EXCEPT !.state = IF ok THEN "saved" ELSE "refused"]
    OBVIOUS
  <2>2. PICK s : s = [n |-> r.n, text |-> r.text, draft |-> r.draft]
    OBVIOUS
  <2>3. /\ saves' = (saves \ {r}) \cup {q}
        /\ saved' = (IF ok THEN saved \cup {s} ELSE saved) /\ s.text = r.text
        /\ UNCHANGED <<openings, writing, form, current, meanwhile>>
    BY <1>7, <2>1, <2>2 DEF SaveStory, editorHistoryVars
  <2>4. r \in [n : Nat, text : 0 .. texts, draft : BOOLEAN, opening : 1 .. openings,
               state : {"sent", "saved", "refused"}]
    BY <1>0 DEF EditorInv, StateTyped, SavesTyped
  <2>5. /\ q.text = r.text /\ q.opening = r.opening
        /\ q.state = IF ok THEN "saved" ELSE "refused"
    BY <2>1, <2>4
  <2>6. SaidSaved'
    BY <1>0, <2>3, <2>5 DEF SaidSaved
  <2>7. \A p \in Mine(saves)' : p \in Mine(saves) \/ (p = q /\ r \in Mine(saves))
    BY <2>3, <2>5 DEF Mine
  <2>8. saved \subseteq saved'
    BY <2>3
  <2>9. Unchanged'
    BY <1>0, <2>3, <2>5, <2>7, <2>8 DEF Unchanged
  <2> QED
    BY <2>6, <2>9
<1>8. ASSUME NEW r \in prompts, GenerateFails(r) PROVE Unchanged' /\ SaidSaved'
  BY <1>0, <1>8, KeptFrame DEF GenerateFails, editorHistoryVars
<1>9. ASSUME NEW r \in prompts, NEW b \in BOOLEAN, Generated(r, b)
      PROVE  Unchanged' /\ SaidSaved'
  <2>1. CASE r \in Mine(prompts)
    BY <1>0, <1>9, <2>1, KeptFill DEF Generated
  <2>2. CASE r \notin Mine(prompts)
    BY <1>0, <1>9, <2>2, KeptFrame DEF Generated, editorHistoryVars
  <2> QED
    BY <2>1, <2>2
<1>10. CASE UNCHANGED editorVars
  BY <1>0, <1>10, KeptFrame DEF editorVars
<1> QED
  BY <1>1, <1>2, <1>3, <1>4, <1>5, <1>6, <1>7, <1>8, <1>9, <1>10 DEF EditorNext

\* While the page is open its last text is in the form or has been saved, unless the form
\* changed while a POST or the AI was awaited (handleSubmit, handleGenerateAI).
THEOREM TextKeptUntilSaved == EditorSpec => []KeptUntilSaved
<1>1. EditorInit => KeptInv
  <2> SUFFICES ASSUME EditorInit PROVE Unchanged /\ SaidSaved
    BY EditorInvInit DEF KeptInv
  <2> QED
    BY DEF EditorInit, Unchanged, SaidSaved
<1>2. KeptInv => KeptUntilSaved
  BY DEF KeptInv, Unchanged, KeptUntilSaved
<1> QED
  BY <1>1, <1>2, KeptStep, PTL DEF EditorSpec

-----------------------------------------------------------------------------
(* BrowsePage.  While no answers are mixed up, what the page awaits        *)
(* includes the last query, and when it awaits nothing its buttons go by   *)
(* the pages of that query.                                                *)

QueryAwaited ==
    ~mixedUp =>
        /\ fetching => [n |-> fetched, query |-> query] \in fetches
        /\ ~fetching => fetches = {} /\ pagination = PageOf(query)

BrowseInv ==
    /\ query \in Query /\ input \in Searches
    /\ QueryAwaited
    /\ PageInRange

\* A changed search or filter asks for the first page.
LEMMA QueryChanged ==
    ASSUME NEW q \in Query
    PROVE  /\ \A s \in Searches : /\ [q EXCEPT !.search = s, !.page = 1] \in Query
                                 /\ [q EXCEPT !.search = s, !.page = 1].page = 1
           /\ \A f \in Filters : /\ [q EXCEPT !.filter = f, !.page = 1] \in Query
                                /\ [q EXCEPT !.filter = f, !.page = 1].page = 1
<1>1. ASSUME NEW n \in Int
      PROVE  /\ \A s \in Searches : /\ [q EXCEPT !.search = s, !.page = n] \in Query
                                   /\ [q EXCEPT !.search = s, !.page = n].page = n
             /\ \A f \in Filters : /\ [q EXCEPT !.filter = f, !.page = n] \in Query
                                  /\ [q EXCEPT !.filter = f, !.page = n].page = n
  BY DEF Query
<1>2. 1 \in Int
  OBVIOUS
<1> QED
  BY <1>1, <1>2, Zenon

\* A query that is in range itself may be asked for.
LEMMA FetchKeeps ==
    ASSUME BrowseInv, NEW q \in Query, Fetch(q), input' \in Searches,
           mixedUp \/ q.page = 1 \/ q.page \in 1 .. PageOf(q).pages
    PROVE  BrowseInv'
<1>1. query' = q /\ fetching' = TRUE /\ mixedUp' = mixedUp
  BY DEF Fetch
<1>2. [n |-> fetched', query |-> query'] \in fetches'
  BY DEF Fetch
<1>3. QueryAwaited'
  BY <1>1, <1>2 DEF QueryAwaited
<1>4. PageInRange'
  BY <1>1 DEF PageInRange, PageOf
<1> QED
  BY <1>1, <1>3, <1>4 DEF BrowseInv

\* The buttons lead from a page of the query to another of its pages.
LEMMA ButtonsKeep == BrowseInv /\ (Previous \/ NextPage) => BrowseInv'
<1> SUFFICES ASSUME BrowseInv, Previous \/ NextPage PROVE BrowseInv'
  OBVIOUS
<1> DEFINE pages == PagesOf[<<query.search, query.filter>>]
<1>1. /\ query.page \in Int /\ pages \in Nat
      /\ query.search \in Searches /\ query.filter \in Filters
  BY BrowseAssumption DEF BrowseInv, Query
<1>2. ~mixedUp => /\ pagination.page = query.page /\ pagination.pages = pages
                  /\ query.page = 1 \/ query.page \in 1 .. pages
  BY DEF Previous, NextPage, BrowseInv, QueryAwaited, PageInRange, PageOf
<1>3. CASE Previous
  <2> DEFINE n == query.page - 1
             q == [query EXCEPT !.page = n]
  <2>1. Fetch(q) /\ input' = input /\ pagination.page > 1
    BY <1>3 DEF Previous
  <2>2. n \in Int /\ (~mixedUp => n \in 1 .. pages)
    BY <1>1, <1>2, <2>1
  <2> HIDE DEF n
  <2>3. /\ q \in Query /\ q.page = n
        /\ q.search = query.search /\ q.filter = query.filter
    BY <1>1, <2>2 DEF BrowseInv, Query
  <2>4. mixedUp \/ q.page \in 1 .. PageOf(q).pages
    BY <2>2, <2>3 DEF PageOf
  <2>5. input' \in Searches
    BY <2>1 DEF BrowseInv
  <2> HIDE DEF q
  <2> QED
    BY <2>1, <2>3, <2>4, <2>5, FetchKeeps
<1>4. CASE NextPage
  <2> DEFINE n == query.page + 1
             q == [query EXCEPT !.page = n]
  <2>1. Fetch(q) /\ input' = input /\ pagination.page < pagination.pages
    BY <1>4 DEF NextPage
  <2>2. n \in Int /\ (~mixedUp => n \in 1 .. pages)
    BY <1>1, <1>2, <2>1
  <2> HIDE DEF n
  <2>3. /\ q \in Query /\ q.page = n
        /\ q.search = query.search /\ q.filter = query.filter
    BY <1>1, <2>2 DEF BrowseInv, Query
  <2>4. mixedUp \/ q.page \in 1 .. PageOf(q).pages
    BY <2>2, <2>3 DEF PageOf
  <2>5. input' \in Searches
    BY <2>1 DEF BrowseInv
  <2> HIDE DEF q
  <2> QED
    BY <2>1, <2>3, <2>4, <2>5, FetchKeeps
<1> QED
  BY <1>3, <1>4

LEMMA BrowseStep == BrowseInv /\ [BrowseNext]_browseVars => BrowseInv'
<1> SUFFICES ASSUME BrowseInv, [BrowseNext]_browseVars PROVE BrowseInv'
  OBVIOUS
<1>1. ASSUME NEW s \in Searches, TypeSearch(s) PROVE BrowseInv'
  BY <1>1 DEF TypeSearch, BrowseInv, QueryAwaited, PageInRange, PageOf
<1>2. CASE DebounceEnds
  <2>1. CASE input # query.search
    <3> DEFINE q == Searched(input)
    <3>1. q \in Query /\ q.page = 1
      BY QueryChanged, Zenon DEF Searched, BrowseInv
    <3>2. Fetch(q) /\ input' \in Searches
      BY <1>2, <2>1 DEF DebounceEnds, BrowseInv
    <3> HIDE DEF q
    <3> QED
      BY <3>1, <3>2, FetchKeeps
  <2>2. CASE input = query.search
    BY <1>2, <2>2 DEF DebounceEnds, BrowseInv, QueryAwaited, PageInRange, PageOf
  <2> QED
    BY <2>1, <2>2
<1>3. ASSUME NEW f \in Filters, ChangeFilter(f) PROVE BrowseInv'
  <2> DEFINE q == [query EXCEPT !.filter = f, !.page = 1]
  <2>1. q \in Query /\ q.page = 1
    BY QueryChanged, Zenon DEF BrowseInv
  <2>2. Fetch(q) /\ input' \in Searches
    BY <1>3 DEF ChangeFilter, BrowseInv
  <2> HIDE DEF q
  <2> QED
    BY <2>1, <2>2, FetchKeeps
<1>4. CASE Previous \/ NextPage
  BY <1>4, ButtonsKeep
<1>5. ASSUME NEW r \in fetches, FetchAnswered(r) PROVE BrowseInv'
  <2>1. /\ fetches' = fetches \ {r} /\ fetching' = FALSE
        /\ pagination' = PageOf(r.query) /\ mixedUp' = (mixedUp \/ fetches' # {})
        /\ UNCHANGED <<input, query>>
    BY <1>5 DEF FetchAnswered
  <2>2. ASSUME ~mixedUp' PROVE fetches' = {} /\ r.query = query
    <3>1. ~mixedUp /\ fetches' = {}
      BY <2>1, <2>2
    <3>2. r = [n |-> fetched, query |-> query]
      BY <2>1, <3>1 DEF BrowseInv, QueryAwaited
    <3> QED
      BY <3>1, <3>2
  <2>3. QueryAwaited'
    BY <2>1, <2>2 DEF QueryAwaited, PageOf
  <2> QED
    BY <2>1, <2>3 DEF BrowseInv, PageInRange, PageOf
<1>6. ASSUME NEW r \in fetches, FetchFails(r) PROVE BrowseInv'
  BY <1>6 DEF FetchFails, BrowseInv, QueryAwaited, PageInRange
<1>7. CASE UNCHANGED browseVars
  BY <1>7 DEF browseVars, BrowseInv, QueryAwaited, PageInRange, PageOf
<1> QED
  BY <1>1, <1>2, <1>3, <1>4, <1>5, <1>6, <1>7 DEF BrowseNext

\* The page asked for is one the query has, through every order of searches, filters,
\* pages and answers (Browse.js), for any number of pages of any query.
THEOREM PagesInRange == BrowseSpec => []PageInRange
<1>1. BrowseInit => BrowseInv
  BY BrowseAssumption
  DEF BrowseInit, FirstQuery, BrowseInv, Query, QueryAwaited, PageInRange
<1>2. BrowseInv => PageInRange
  BY DEF BrowseInv
<1> QED
  BY <1>1, <1>2, BrowseStep, PTL DEF BrowseSpec

-----------------------------------------------------------------------------
(* HomePage.  For every heart and every button, the last answer on its way *)
(* that tells of it tells what the server has, unless a later one has been *)
(* here already, and when none is on its way the page shows it.            *)

HomeTyped ==
    /\ cards \subseteq Cards /\ \A a \in replies : a.cards \subseteq Cards
    /\ {asked, served, newestServed, newestList} \subseteq Nat
    /\ newestServed <= served /\ newestList <= asked
    /\ \A r \in pending : r.n \in Nat /\ r.n <= asked
    /\ \A a \in replies : a.r.n \in Nat /\ a.r.n <= asked
    /\ \A a \in replies : a.served \in Nat /\ a.served <= served

\* The requests under way are all different, and so are the answers.
AllDifferent ==
    /\ \A r, q \in pending : r.n = q.n => r = q
    /\ \A a, b \in replies : a.r.n = b.r.n \/ a.served = b.served => a = b
    /\ \A r \in pending, a \in replies : r.n # a.r.n

\* A toggle from one side of the page is of an author toggled there.
SidesKnown ==
    /\ \A r \in pending : /\ r.kind = "follow" => r.of \in fromCards
                          /\ r.kind = "side" => r.of \in fromSide
    /\ \A a \in replies : /\ a.r.kind = "follow" => a.r.of \in fromCards
                          /\ a.r.kind = "side" => a.r.of \in fromSide

\* The answers that tell the page of a story's heart, of an author on the cards, and of
\* an author among the suggestions.
TellsHeart(a, s) == a.r.kind = "list" \/ (a.r.kind = "like" /\ a.r.of = s)
TellsCards(a, x) == a.r.kind = "list" \/ (a.r.kind = "follow" /\ a.r.of = x)
TellsSide(a, x) == a.r.kind = "side" /\ a.r.of = x

HeartTold ==
    \A s \in Cards :
        /\ \A a \in replies :
              /\ TellsHeart(a, s) /\ newestServed <= a.served
              /\ \A b \in replies : TellsHeart(b, s) => b.served <= a.served
              => (s \in a.hearted <=> s \in hearted)
        /\ (\A a \in replies : ~TellsHeart(a, s)) /\ s \in cards =>
              (s \in hearts <=> s \in hearted)

CardsTold ==
    \A x \in Authors \ fromSide :
        /\ \A a \in replies :
              /\ TellsCards(a, x) /\ newestServed <= a.served
              /\ \A b \in replies : TellsCards(b, x) => b.served <= a.served
              => (x \in a.followed <=> x \in followed)
        /\ (\A a \in replies : ~TellsCards(a, x)) =>
              \A s \in cards : AuthorOf[s] = x => (s \in follows <=> x \in followed)

SideTold ==
    \A x \in suggested \ fromCards :
        /\ \A a \in replies :
              /\ TellsSide(a, x) /\ newestServed <= a.served
              /\ \A b \in replies : TellsSide(b, x) => b.served <= a.served
              => (x \in a.followed <=> x \in followed)
        /\ (\A a \in replies : ~TellsSide(a, x)) => (x \in buttons <=> x \in followed)

\* The last list asked for is under way and of the feed the controls say, or shown.
UnderWay == pending \cup {a.r : a \in replies}
LastList ==
    ~cardsError =>
        \/ \E r \in UnderWay :
              /\ r.kind = "list" /\ r.of = feed /\ newestList < r.n
              /\ \A q \in UnderWay : q.kind = "list" => q.n <= r.n
        \/ /\ cardsFor = feed
           /\ \A q \in UnderWay : q.kind = "list" => q.n < newestList

HomeInv ==
    /\ HomeTyped /\ AllDifferent /\ SidesKnown
    /\ hearts \subseteq cards
    /\ ~homeMixedUp => HeartTold /\ CardsTold /\ SideTold /\ LastList

\* A request is made.
LEMMA HomeAsks ==
    ASSUME HomeInv, NEW kind, NEW of, AskServer(kind, of),
           UNCHANGED <<cardsFor, cards, hearts, follows, suggested, buttons,
                       newestServed, newestList, homeMixedUp>>,
           fromCards \subseteq fromCards', fromSide \subseteq fromSide',
           kind = "follow" => of \in fromCards', kind = "side" => of \in fromSide',
           kind = "list" => of = feed',
           kind # "list" => UNCHANGED <<feed, cardsError>>
    PROVE  HomeInv'
<1>1. PICK r : r = [n |-> asked + 1, kind |-> kind, of |-> of]
  OBVIOUS
<1>2. /\ pending' = pending \cup {r} /\ asked' = asked + 1
      /\ UNCHANGED <<hearted, followed, served, replies>>
  BY <1>1 DEF AskServer, homeServerVars
<1>3. r.n = asked' /\ r.kind = kind /\ r.of = of
  BY <1>1, <1>2
<1>4. /\ asked \in Nat /\ asked' \in Nat /\ asked < asked' /\ newestList \in Nat
      /\ newestList < asked'
      /\ \A q \in UnderWay : q.n \in Nat /\ q.n <= asked /\ q.n # asked'
  BY <1>2 DEF HomeInv, HomeTyped, UnderWay
<1>5. UnderWay' = UnderWay \cup {r}
  BY <1>2 DEF UnderWay
<1>6. HomeTyped'
  BY <1>2, <1>3, <1>4 DEF HomeInv, HomeTyped
<1>7. AllDifferent'
  BY <1>2, <1>3, <1>4 DEF HomeInv, AllDifferent, UnderWay
<1>8. SidesKnown'
  BY <1>2, <1>3 DEF HomeInv, SidesKnown
<1>9. ASSUME ~homeMixedUp' PROVE HeartTold' /\ CardsTold' /\ SideTold'
  <2>1. HeartTold /\ CardsTold /\ SideTold
    BY <1>9 DEF HomeInv
  <2>2. HeartTold'
    BY <1>2, <2>1 DEF HeartTold, TellsHeart
  <2>3. CardsTold'
    BY <1>2, <2>1 DEF CardsTold, TellsCards
  <2>4. SideTold'
    BY <1>2, <2>1 DEF SideTold, TellsSide
  <2> QED
    BY <2>2, <2>3, <2>4
<1>10. ASSUME ~homeMixedUp' PROVE LastList'
  <2>1. CASE kind = "list"
    <3>1. r \in UnderWay' /\ r.kind = "list" /\ r.of = feed' /\ newestList' < r.n
      BY <1>3, <1>4, <1>5, <2>1
    <3>2. \A q \in UnderWay' : q.n <= r.n
      BY <1>3, <1>4, <1>5
    <3> QED
      BY <3>1, <3>2 DEF LastList
  <2>2. CASE kind # "list"
    <3>1. LastList /\ UNCHANGED <<feed, cardsError, cardsFor, newestList>>
      BY <1>10, <2>2 DEF HomeInv
    <3>2. \A q : q \in UnderWay' /\ q.kind = "list" <=> q \in UnderWay /\ q.kind = "list"
      BY <1>3, <1>5, <2>2
    <3> HIDE DEF UnderWay
    <3> QED
      BY <3>1, <3>2 DEF LastList
  <2> QED
    BY <2>1, <2>2
<1>11. hearts' \subseteq cards'
  BY DEF HomeInv
<1> QED
  BY <1>6, <1>7, <1>8, <1>9, <1>10, <1>11 DEF HomeInv

\* A request is executed.  Its answer is the last on its way, and tells of all it changed.
LEMMA HomeServes == ASSUME HomeInv, NEW r \in pending, ServeHome(r) PROVE HomeInv'
<1>1. PICK q : q = Reply(r, hearted', followed')
  OBVIOUS
<1>2. /\ pending' = pending \ {r} /\ served' = served + 1 /\ replies' = replies \cup {q}
      /\ hearted' = (IF r.kind = "like" THEN Toggled(hearted, r.of) ELSE hearted)
      /\ followed' = (IF r.kind \in {"follow", "side"} THEN Toggled(followed, r.of) ELSE followed)
      /\ UNCHANGED <<asked, feed, cardsFor, cards, hearts, follows, cardsError, suggested,
                     buttons, newestServed, newestList, homeMixedUp, fromCards, fromSide>>
  BY <1>1 DEF ServeHome, homeCardVars, homeSideVars, homeHistoryVars
<1>3. /\ q.r = r /\ q.served = served' /\ q.hearted = hearted' /\ q.followed = followed'
      /\ q.cards \subseteq Cards
  BY <1>1, <1>2 DEF Reply, FeedCards, PublicCards
<1>4. /\ served \in Nat /\ served' \in Nat /\ served < served' /\ newestServed \in Nat
      /\ newestServed <= served' /\ r.n \in Nat /\ r.n <= asked
      /\ \A a \in replies : a.served \in Nat /\ a.served < served'
  BY <1>2 DEF HomeInv, HomeTyped
<1>5. HomeTyped'
  BY <1>2, <1>3, <1>4 DEF HomeInv, HomeTyped
<1>6. AllDifferent'
  BY <1>2, <1>3, <1>4 DEF HomeInv, AllDifferent
<1>7. SidesKnown'
  BY <1>2, <1>3 DEF HomeInv, SidesKnown
<1>8. UnderWay' = UnderWay
  BY <1>2, <1>3 DEF UnderWay
<1>9. ASSUME ~homeMixedUp' PROVE HeartTold' /\ CardsTold' /\ SideTold' /\ LastList'
  <2>1. HeartTold /\ CardsTold /\ SideTold /\ LastList
    BY <1>2, <1>9 DEF HomeInv
  <2>2. HeartTold'
    <3> SUFFICES ASSUME NEW s \in Cards
        PROVE /\ \A a \in replies' :
                    /\ TellsHeart(a, s) /\ newestServed' <= a.served
                    /\ \A b \in replies' : TellsHeart(b, s) => b.served <= a.served
                    => (s \in a.hearted <=> s \in hearted')
              /\ (\A a \in replies' : ~TellsHeart(a, s)) /\ s \in cards' =>
                    (s \in hearts' <=> s \in hearted')
      BY DEF HeartTold, TellsHeart
    <3>1. CASE TellsHeart(q, s)
      <4>1. \A a \in replies' :
                (\A b \in replies' : TellsHeart(b, s) => b.served <= a.served) => a = q
        BY <1>2, <1>3, <1>4, <3>1
      <4> QED
        BY <1>2, <1>3, <3>1, <4>1
    <3>2. CASE ~TellsHeart(q, s)
      <4>1. s \in hearted' <=> s \in hearted
        BY <1>2, <1>3, <3>2 DEF TellsHeart, Toggled
      <4> HIDE DEF TellsHeart
      <4>2. \A a : a \in replies' /\ TellsHeart(a, s) <=> a \in replies /\ TellsHeart(a, s)
        BY <1>2, <3>2
      <4> QED
        BY <1>2, <2>1, <4>1, <4>2 DEF HeartTold
    <3> QED
      BY <3>1, <3>2
  <2>3. CardsTold'
    <3> SUFFICES ASSUME NEW x \in Authors \ fromSide
        PROVE /\ \A a \in replies' :
                    /\ TellsCards(a, x) /\ newestServed' <= a.served
                    /\ \A b \in replies' : TellsCards(b, x) => b.served <= a.served
                    => (x \in a.followed <=> x \in followed')
              /\ (\A a \in replies' : ~TellsCards(a, x)) =>
                    \A s \in cards' : AuthorOf[s] = x => (s \in follows' <=> x \in followed')
      BY <1>2 DEF CardsTold, TellsCards
    <3>1. CASE TellsCards(q, x)
      <4>1. \A a \in replies' :
                (\A b \in replies' : TellsCards(b, x) => b.served <= a.served) => a = q
        BY <1>2, <1>3, <1>4, <3>1
      <4> QED
        BY <1>2, <1>3, <3>1, <4>1
    <3>2. CASE ~TellsCards(q, x)
      <4>1. x \in followed' <=> x \in followed
        BY <1>2, <1>3, <3>2 DEF TellsCards, Toggled, HomeInv, SidesKnown
      <4>2. \A a : a \in replies' /\ TellsCards(a, x) <=> a \in replies /\ TellsCards(a, x)
        BY <1>2, <3>2
      <4> QED
        BY <1>2, <2>1, <4>1, <4>2 DEF CardsTold
    <3> QED
      BY <3>1, <3>2
  <2>4. SideTold'
    <3> SUFFICES ASSUME NEW x \in suggested \ fromCards
        PROVE /\ \A a \in replies' :
                    /\ TellsSide(a, x) /\ newestServed' <= a.served
                    /\ \A b \in replies' : TellsSide(b, x) => b.served <= a.served
                    => (x \in a.followed <=> x \in followed')
              /\ (\A a \in replies' : ~TellsSide(a, x)) =>
                    (x \in buttons' <=> x \in followed')
      BY <1>2 DEF SideTold, TellsSide
    <3>1. CASE TellsSide(q, x)
      <4>1. \A a \in replies' :
                (\A b \in replies' : TellsSide(b, x) => b.served <= a.served) => a = q
        BY <1>2, <1>3, <1>4, <3>1
      <4> QED
        BY <1>2, <1>3, <3>1, <4>1
    <3>2. CASE ~TellsSide(q, x)
      <4>1. x \in followed' <=> x \in followed
        BY <1>2, <1>3, <3>2 DEF TellsSide, Toggled, HomeInv, SidesKnown
      <4>2. \A a : a \in replies' /\ TellsSide(a, x) <=> a \in replies /\ TellsSide(a, x)
        BY <1>2, <3>2
      <4> QED
        BY <1>2, <2>1, <4>1, <4>2 DEF SideTold
    <3> QED
      BY <3>1, <3>2
  <2>5. LastList'
    BY <1>2, <1>8, <2>1 DEF LastList
  <2> QED
    BY <2>2, <2>3, <2>4, <2>5
<1>10. hearts' \subseteq cards'
  BY <1>2 DEF HomeInv
<1> QED
  BY <1>5, <1>6, <1>7, <1>9, <1>10 DEF HomeInv

\* An answer is received in order: what is left of it.
LEMMA HomeReceives ==
    ASSUME HomeInv, NEW a \in replies, Received(a), Ordered(a), UNCHANGED <<fromCards, fromSide>>,
           cards' \subseteq Cards
    PROVE  /\ HomeTyped' /\ AllDifferent' /\ SidesKnown'
           /\ UnderWay' = UnderWay \ {a.r}
           /\ ~homeMixedUp' =>
                /\ ~homeMixedUp /\ newestServed <= a.served /\ newestServed' = a.served
                /\ a.r.kind = "list" => newestList <= a.r.n /\ newestList' = a.r.n
                /\ a.r.kind # "list" => newestList' = newestList
           /\ \A b \in replies : newestServed' <= b.served /\ b # a /\ ~homeMixedUp' =>
                b.served > a.served
<1>1. /\ replies' = replies \ {a} /\ a.served \in Nat /\ newestServed \in Nat
      /\ a.r.n \in Nat /\ newestList \in Nat
      /\ newestServed' = (IF a.served > newestServed THEN a.served ELSE newestServed)
      /\ newestList' = (IF a.r.kind = "list" /\ a.r.n > newestList THEN a.r.n ELSE newestList)
      /\ homeMixedUp' = (\/ homeMixedUp \/ a.served < newestServed
                         \/ a.r.kind = "list" /\ a.r.n < newestList)
      /\ UNCHANGED <<hearted, followed, asked, served, pending, feed>>
  BY DEF Received, Ordered, HomeInv, HomeTyped, homeServerVars
<1>2. HomeTyped'
  BY <1>1 DEF HomeInv, HomeTyped
<1>3. AllDifferent' /\ SidesKnown'
  BY <1>1 DEF HomeInv, AllDifferent, SidesKnown
<1>4. UnderWay' = UnderWay \ {a.r}
  BY <1>1 DEF HomeInv, AllDifferent, UnderWay
<1>5. ~homeMixedUp' =>
          /\ ~homeMixedUp /\ newestServed <= a.served /\ newestServed' = a.served
          /\ a.r.kind = "list" => newestList <= a.r.n /\ newestList' = a.r.n
          /\ a.r.kind # "list" => newestList' = newestList
  BY <1>1
<1>6. \A b \in replies : newestServed' <= b.served /\ b # a /\ ~homeMixedUp' =>
          b.served > a.served
  BY <1>1, <1>5 DEF HomeInv, AllDifferent, HomeTyped
<1> QED
  BY <1>2, <1>3, <1>4, <1>5, <1>6

\* An answer that comes in order was the last to tell of a heart, or there is another,
\* or it does not tell of it.
LEMMA HeartKept ==
    ASSUME HomeInv, NEW a \in replies, Received(a), Ordered(a), ~homeMixedUp',
           UNCHANGED <<fromCards, fromSide>>, cards' \subseteq Cards, NEW s \in Cards
    PROVE  /\ \A b \in replies' :
                 /\ TellsHeart(b, s) /\ newestServed' <= b.served
                 /\ \A c \in replies' : TellsHeart(c, s) => c.served <= b.served
                 => (s \in b.hearted <=> s \in hearted')
           /\ (\A b \in replies' : ~TellsHeart(b, s)) =>
                 IF TellsHeart(a, s) THEN s \in a.hearted <=> s \in hearted'
                 ELSE s \in cards => (s \in hearts <=> s \in hearted')
<1>1. /\ HeartTold /\ newestServed <= a.served /\ newestServed' = a.served
      /\ \A b \in replies : newestServed' <= b.served /\ b # a => b.served > a.served
  BY HomeReceives DEF HomeInv
<1>2. replies' = replies \ {a} /\ hearted' = hearted
  BY DEF Received, homeServerVars
<1>3. a.served \in Nat /\ \A b \in replies : b.served \in Nat
  BY DEF HomeInv, HomeTyped
<1>4. ASSUME NEW b \in replies', TellsHeart(b, s), newestServed' <= b.served,
             \A c \in replies' : TellsHeart(c, s) => c.served <= b.served
      PROVE  s \in b.hearted <=> s \in hearted'
  <2>0. /\ b \in replies /\ a.served < b.served /\ newestServed <= a.served
        /\ newestServed \in Nat /\ a.served \in Nat /\ b.served \in Nat
    BY <1>1, <1>2, <1>3, <1>4 DEF HomeInv, HomeTyped
  <2>1. b \in replies /\ newestServed <= b.served
        /\ \A c \in replies : TellsHeart(c, s) => c.served <= b.served
    BY <1>2, <1>4, <2>0
  <2> QED
    BY <1>1, <1>2, <1>4, <2>1 DEF HeartTold
<1>5. ASSUME \A b \in replies' : ~TellsHeart(b, s)
      PROVE  IF TellsHeart(a, s) THEN s \in a.hearted <=> s \in hearted'
             ELSE s \in cards => (s \in hearts <=> s \in hearted')
  <2>1. CASE TellsHeart(a, s)
    <3>1. \A c \in replies : TellsHeart(c, s) => c.served <= a.served
      BY <1>2, <1>3, <1>5
    <3> QED
      BY <1>1, <1>2, <2>1, <3>1 DEF HeartTold
  <2>2. CASE ~TellsHeart(a, s)
    <3>1. \A c \in replies : ~TellsHeart(c, s)
      BY <1>2, <1>5, <2>2
    <3> QED
      BY <1>1, <1>2, <2>2, <3>1 DEF HeartTold
  <2> QED
    BY <2>1, <2>2
<1> QED
  BY <1>4, <1>5

LEMMA CardsKept ==
    ASSUME HomeInv, NEW a \in replies, Received(a), Ordered(a), ~homeMixedUp',
           UNCHANGED <<fromCards, fromSide>>, cards' \subseteq Cards,
           NEW x \in Authors \ fromSide
    PROVE  /\ \A b \in replies' :
                 /\ TellsCards(b, x) /\ newestServed' <= b.served
                 /\ \A c \in replies' : TellsCards(c, x) => c.served <= b.served
                 => (x \in b.followed <=> x \in followed')
           /\ (\A b \in replies' : ~TellsCards(b, x)) =>
                 IF TellsCards(a, x) THEN x \in a.followed <=> x \in followed'
                 ELSE \A s \in cards : AuthorOf[s] = x => (s \in follows <=> x \in followed')
<1>1. /\ CardsTold /\ newestServed <= a.served /\ newestServed' = a.served
      /\ \A b \in replies : newestServed' <= b.served /\ b # a => b.served > a.served
  BY HomeReceives DEF HomeInv
<1>2. replies' = replies \ {a} /\ followed' = followed
  BY DEF Received, homeServerVars
<1>3. a.served \in Nat /\ \A b \in replies : b.served \in Nat
  BY DEF HomeInv, HomeTyped
<1>4. ASSUME NEW b \in replies', TellsCards(b, x), newestServed' <= b.served,
             \A c \in replies' : TellsCards(c, x) => c.served <= b.served
      PROVE  x \in b.followed <=> x \in followed'
  <2>0. /\ b \in replies /\ a.served < b.served /\ newestServed <= a.served
        /\ newestServed \in Nat /\ a.served \in Nat /\ b.served \in Nat
    BY <1>1, <1>2, <1>3, <1>4 DEF HomeInv, HomeTyped
  <2>1. b \in replies /\ newestServed <= b.served
        /\ \A c \in replies : TellsCards(c, x) => c.served <= b.served
    BY <1>2, <1>4, <2>0
  <2> QED
    BY <1>1, <1>2, <1>4, <2>1 DEF CardsTold
<1>5. ASSUME \A b \in replies' : ~TellsCards(b, x)
      PROVE  IF TellsCards(a, x) THEN x \in a.followed <=> x \in followed'
             ELSE \A s \in cards : AuthorOf[s] = x => (s \in follows <=> x \in followed')
  <2>1. CASE TellsCards(a, x)
    <3>1. \A c \in replies : TellsCards(c, x) => c.served <= a.served
      BY <1>2, <1>3, <1>5
    <3> QED
      BY <1>1, <1>2, <2>1, <3>1 DEF CardsTold
  <2>2. CASE ~TellsCards(a, x)
    <3>1. \A c \in replies : ~TellsCards(c, x)
      BY <1>2, <1>5, <2>2
    <3> QED
      BY <1>1, <1>2, <2>2, <3>1 DEF CardsTold
  <2> QED
    BY <2>1, <2>2
<1> QED
  BY <1>4, <1>5

LEMMA SideKept ==
    ASSUME HomeInv, NEW a \in replies, Received(a), Ordered(a), ~homeMixedUp',
           UNCHANGED <<fromCards, fromSide>>, cards' \subseteq Cards,
           NEW x \in suggested \ fromCards
    PROVE  /\ \A b \in replies' :
                 /\ TellsSide(b, x) /\ newestServed' <= b.served
                 /\ \A c \in replies' : TellsSide(c, x) => c.served <= b.served
                 => (x \in b.followed <=> x \in followed')
           /\ (\A b \in replies' : ~TellsSide(b, x)) =>
                 IF TellsSide(a, x) THEN x \in a.followed <=> x \in followed'
                 ELSE x \in buttons <=> x \in followed'
<1>1. /\ SideTold /\ newestServed <= a.served /\ newestServed' = a.served
      /\ \A b \in replies : newestServed' <= b.served /\ b # a => b.served > a.served
  BY HomeReceives DEF HomeInv
<1>2. replies' = replies \ {a} /\ followed' = followed
  BY DEF Received, homeServerVars
<1>3. a.served \in Nat /\ \A b \in replies : b.served \in Nat
  BY DEF HomeInv, HomeTyped
<1>4. ASSUME NEW b \in replies', TellsSide(b, x), newestServed' <= b.served,
             \A c \in replies' : TellsSide(c, x) => c.served <= b.served
      PROVE  x \in b.followed <=> x \in followed'
  <2>0. /\ b \in replies /\ a.served < b.served /\ newestServed <= a.served
        /\ newestServed \in Nat /\ a.served \in Nat /\ b.served \in Nat
    BY <1>1, <1>2, <1>3, <1>4 DEF HomeInv, HomeTyped
  <2>1. b \in replies /\ newestServed <= b.served
        /\ \A c \in replies : TellsSide(c, x) => c.served <= b.served
    BY <1>2, <1>4, <2>0
  <2> QED
    BY <1>1, <1>2, <1>4, <2>1 DEF SideTold
<1>5. ASSUME \A b \in replies' : ~TellsSide(b, x)
      PROVE  IF TellsSide(a, x) THEN x \in a.followed <=> x \in followed'
             ELSE x \in buttons <=> x \in followed'
  <2>1. CASE TellsSide(a, x)
    <3>1. \A c \in replies : TellsSide(c, x) => c.served <= a.served
      BY <1>2, <1>3, <1>5
    <3> QED
      BY <1>1, <1>2, <2>1, <3>1 DEF SideTold
  <2>2. CASE ~TellsSide(a, x)
    <3>1. \A c \in replies : ~TellsSide(c, x)
      BY <1>2, <1>5, <2>2
    <3> QED
      BY <1>1, <1>2, <2>2, <3>1 DEF SideTold
  <2> QED
    BY <2>1, <2>2
<1> QED
  BY <1>4, <1>5

\* What the page makes of an answer it receives in order: the hearts, the buttons on the
\* cards and those beside them that it tells of are as it says, and the others stay.
LEMMA HomeAnswered ==
    ASSUME HomeInv, NEW a \in replies, Received(a), Ordered(a),
           UNCHANGED <<fromCards, fromSide, suggested, cardsError>>, hearts' \subseteq cards',
           a.r.kind = "list" => cards' = a.cards /\ cardsFor' = a.r.of,
           a.r.kind # "list" => UNCHANGED <<cards, cardsFor>>,
           \A s \in cards' : IF TellsHeart(a, s) THEN s \in hearts' <=> s \in a.hearted
                             ELSE s \in hearts' <=> s \in hearts,
           \A s \in cards' : IF TellsCards(a, AuthorOf[s])
                             THEN s \in follows' <=> AuthorOf[s] \in a.followed
                             ELSE s \in follows' <=> s \in follows,
           \A x \in suggested : IF TellsSide(a, x) THEN x \in buttons' <=> x \in a.followed
                                ELSE x \in buttons' <=> x \in buttons
    PROVE  HomeInv'
<1>1. cards' \subseteq Cards
  BY DEF HomeInv, HomeTyped
<1>2. HomeTyped' /\ AllDifferent' /\ SidesKnown' /\ UnderWay' = UnderWay \ {a.r}
  BY <1>1, HomeReceives
<1>3. ASSUME ~homeMixedUp' PROVE HeartTold'
  <2>1. \A s \in Cards : ~TellsHeart(a, s) => cards' = cards
    BY DEF TellsHeart
  <2> SUFFICES ASSUME NEW s \in Cards
      PROVE /\ \A b \in replies' :
                  /\ TellsHeart(b, s) /\ newestServed' <= b.served
                  /\ \A c \in replies' : TellsHeart(c, s) => c.served <= b.served
                  => (s \in b.hearted <=> s \in hearted')
            /\ (\A b \in replies' : ~TellsHeart(b, s)) /\ s \in cards' =>
                  (s \in hearts' <=> s \in hearted')
    BY DEF HeartTold, TellsHeart
  <2> QED
    BY <1>1, <1>3, <2>1, HeartKept
<1>4. ASSUME ~homeMixedUp' PROVE CardsTold'
  <2>1. \A x : ~TellsCards(a, x) => cards' = cards
    BY DEF TellsCards
  <2> SUFFICES ASSUME NEW x \in Authors \ fromSide
      PROVE /\ \A b \in replies' :
                  /\ TellsCards(b, x) /\ newestServed' <= b.served
                  /\ \A c \in replies' : TellsCards(c, x) => c.served <= b.served
                  => (x \in b.followed <=> x \in followed')
            /\ (\A b \in replies' : ~TellsCards(b, x)) =>
                  \A s \in cards' : AuthorOf[s] = x => (s \in follows' <=> x \in followed')
    BY DEF CardsTold, TellsCards
  <2> QED
    BY <1>1, <1>4, <2>1, CardsKept
<1>5. ASSUME ~homeMixedUp' PROVE SideTold'
  <2> SUFFICES ASSUME NEW x \in suggested \ fromCards
      PROVE /\ \A b \in replies' :
                  /\ TellsSide(b, x) /\ newestServed' <= b.served
                  /\ \A c \in replies' : TellsSide(c, x) => c.served <= b.served
                  => (x \in b.followed <=> x \in followed')
            /\ (\A b \in replies' : ~TellsSide(b, x)) => (x \in buttons' <=> x \in followed')
    BY DEF SideTold, TellsSide
  <2> QED
    BY <1>1, <1>5, SideKept
<1>6. ASSUME ~homeMixedUp', ~cardsError'
      PROVE  \/ \E r \in UnderWay' :
                   /\ r.kind = "list" /\ r.of = feed' /\ newestList' < r.n
                   /\ \A q \in UnderWay' : q.kind = "list" => q.n <= r.n
             \/ /\ cardsFor' = feed'
                /\ \A q \in UnderWay' : q.kind = "list" => q.n < newestList'
  <2>1. /\ LastList /\ ~cardsError /\ feed' = feed
        /\ a.r.kind = "list" => newestList <= a.r.n /\ newestList' = a.r.n
        /\ a.r.kind # "list" => newestList' = newestList
    BY <1>1, <1>6, HomeReceives DEF HomeInv, Received
  <2>2. /\ \A q \in UnderWay : q.n \in Nat /\ (q.n = a.r.n => q = a.r)
        /\ a.r \in UnderWay /\ newestList \in Nat
    BY DEF HomeInv, HomeTyped, AllDifferent, UnderWay
  <2> HIDE DEF UnderWay
  <2>3. CASE \E r \in UnderWay :
                /\ r.kind = "list" /\ r.of = feed /\ newestList < r.n
                /\ \A q \in UnderWay : q.kind = "list" => q.n <= r.n
    <3>1. PICK r \in UnderWay :
                /\ r.kind = "list" /\ r.of = feed /\ newestList < r.n
                /\ \A q \in UnderWay : q.kind = "list" => q.n <= r.n
      BY <2>3
    <3>2. CASE r = a.r
      <4>1. cardsFor' = feed' /\ newestList' = a.r.n
        BY <2>1, <3>1, <3>2
      <4>2. \A q \in UnderWay' : q.kind = "list" => q.n < newestList'
        BY <1>2, <2>2, <3>1, <3>2, <4>1
      <4> QED
        BY <4>1, <4>2
    <3>3. CASE r # a.r
      <4>1. r \in UnderWay' /\ newestList' < r.n
        BY <1>2, <2>1, <2>2, <3>1, <3>3
      <4> QED
        BY <1>2, <2>1, <3>1, <4>1
    <3> QED
      BY <3>2, <3>3
  <2>4. CASE cardsFor = feed /\ \A q \in UnderWay : q.kind = "list" => q.n < newestList
    <3>1. a.r.kind # "list"
      BY <2>1, <2>2, <2>4
    <3> QED
      BY <1>2, <2>1, <2>4, <3>1
  <2> QED
    BY <2>1, <2>3, <2>4 DEF LastList
<1>7. ~homeMixedUp' => LastList'
  BY <1>6 DEF LastList
<1> QED
  BY <1>2, <1>3, <1>4, <1>5, <1>7 DEF HomeInv

\* The page learns that a request was not executed.
LEMMA HomeFails == ASSUME HomeInv, NEW r \in pending, AskingFails(r) PROVE HomeInv'
<1>1. /\ pending' = pending \ {r}
      /\ IF r.kind = "list"
         THEN cards' = {} /\ hearts' = {} /\ cardsError' = TRUE
         ELSE UNCHANGED <<cards, hearts, follows, cardsError>>
      /\ UNCHANGED <<hearted, followed, asked, served, replies, feed, cardsFor, suggested,
                     buttons, newestServed, newestList, homeMixedUp, fromCards, fromSide>>
  BY DEF AskingFails, Failed, homeServerVars, homeCardVars
<1>2. HomeTyped' /\ AllDifferent' /\ SidesKnown' /\ hearts' \subseteq cards'
  BY <1>1 DEF HomeInv, HomeTyped, AllDifferent, SidesKnown
<1>3. ASSUME ~homeMixedUp' PROVE HeartTold' /\ CardsTold' /\ SideTold' /\ LastList'
  <2>1. HeartTold /\ CardsTold /\ SideTold /\ LastList
    BY <1>1, <1>3 DEF HomeInv
  <2>2. HeartTold'
    BY <1>1, <2>1 DEF HeartTold, TellsHeart
  <2>3. CardsTold'
    BY <1>1, <2>1 DEF CardsTold, TellsCards
  <2>4. SideTold'
    BY <1>1, <2>1 DEF SideTold, TellsSide
  <2>5. CASE r.kind = "list"
    BY <1>1, <2>2, <2>3, <2>4, <2>5 DEF LastList
  <2>6. CASE r.kind # "list"
    <3>1. \A q : q \in UnderWay' /\ q.kind = "list" <=> q \in UnderWay /\ q.kind = "list"
      BY <1>1, <2>6 DEF UnderWay
    <3> HIDE DEF UnderWay
    <3>2. LastList'
      BY <1>1, <2>1, <2>6, <3>1 DEF LastList
    <3> QED
      BY <2>2, <2>3, <2>4, <3>2
  <2> QED
    BY <2>5, <2>6
<1> QED
  BY <1>2, <1>3 DEF HomeInv

\* An answer is lost: from then on nothing is claimed.
LEMMA HomeLoses == ASSUME HomeInv, NEW a \in replies, AnswerLost(a) PROVE HomeInv'
<1>1. /\ replies' = replies \ {a} /\ homeMixedUp' = TRUE
      /\ IF a.r.kind = "list" THEN cards' = {} /\ hearts' = {} ELSE UNCHANGED <<cards, hearts>>
      /\ UNCHANGED <<asked, served, pending, newestServed, newestList, fromCards, fromSide>>
  BY DEF AnswerLost, Failed, homeCardVars
<1> QED
  BY <1>1 DEF HomeInv, HomeTyped, AllDifferent, SidesKnown

LEMMA HomeStep == HomeInv /\ [HomeNext]_homeVars => HomeInv'
<1> SUFFICES ASSUME HomeInv, [HomeNext]_homeVars PROVE HomeInv'
  OBVIOUS
<1>1. ASSUME NEW f \in Feeds, LoadStories(f) PROVE HomeInv'
  <2>1. /\ AskServer("list", f) /\ feed' = f
        /\ UNCHANGED <<cardsFor, cards, hearts, follows, suggested, buttons, newestServed,
                       newestList, homeMixedUp, fromCards, fromSide>>
    BY <1>1 DEF LoadStories, homeSideVars, homeHistoryVars
  <2> QED
    BY <2>1, HomeAsks
<1>2. ASSUME NEW f \in Feeds, ChangeFeed(f) PROVE HomeInv'
  BY <1>1, <1>2 DEF ChangeFeed
<1>3. CASE Retry
  <2>1. LoadStories(feed) /\ feed' = feed
    BY <1>3 DEF Retry, LoadStories
  <2>2. AskServer("list", feed)
        /\ UNCHANGED <<cardsFor, cards, hearts, follows, suggested, buttons, newestServed,
                       newestList, homeMixedUp, fromCards, fromSide>>
    BY <2>1 DEF LoadStories, homeSideVars, homeHistoryVars
  <2> QED
    BY <2>1, <2>2, HomeAsks
<1>4. ASSUME NEW s \in Cards, ClickHeart(s) PROVE HomeInv'
  <2>1. /\ AskServer("like", s)
        /\ UNCHANGED <<feed, cardsError, cardsFor, cards, hearts, follows, suggested, buttons,
                       newestServed, newestList, homeMixedUp, fromCards, fromSide>>
    BY <1>4 DEF ClickHeart, homeCardVars, homeSideVars, homeHistoryVars
  <2> QED
    BY <2>1, HomeAsks
<1>5. ASSUME NEW s \in Cards, ClickFollow(s) PROVE HomeInv'
  <2>1. /\ AskServer("follow", AuthorOf[s]) /\ fromCards' = fromCards \cup {AuthorOf[s]}
        /\ UNCHANGED <<feed, cardsError, cardsFor, cards, hearts, follows, suggested, buttons,
                       newestServed, newestList, homeMixedUp, fromSide>>
    BY <1>5 DEF ClickFollow, homeCardVars, homeSideVars
  <2> QED
    BY <2>1, HomeAsks
<1>6. ASSUME NEW a \in Authors, ClickSuggested(a) PROVE HomeInv'
  <2>1. /\ AskServer("side", a) /\ fromSide' = fromSide \cup {a}
        /\ UNCHANGED <<feed, cardsError, cardsFor, cards, hearts, follows, suggested, buttons,
                       newestServed, newestList, homeMixedUp, fromCards>>
    BY <1>6 DEF ClickSuggested, homeCardVars
  <2> QED
    BY <2>1, HomeAsks
<1>7. ASSUME NEW a \in replies, StoriesLoaded(a) PROVE HomeInv'
  <2>1. /\ a.r.kind = "list" /\ Received(a) /\ Ordered(a) /\ cardsFor' = a.r.of
        /\ cards' = a.cards /\ hearts' = a.cards \cap a.hearted
        /\ follows' = a.cards \cap FeedCards(a.followed)
        /\ UNCHANGED <<cardsError, suggested, buttons, fromCards, fromSide>>
    BY <1>7 DEF StoriesLoaded, homeSideVars
  <2>2. \A s : TellsHeart(a, s) /\ TellsCards(a, s) /\ ~TellsSide(a, s)
    BY <2>1 DEF TellsHeart, TellsCards, TellsSide
  <2>3. \A s \in cards' : s \in follows' <=> AuthorOf[s] \in a.followed
    BY <2>1 DEF FeedCards, HomeInv, HomeTyped
  <2> QED
    BY <2>1, <2>2, <2>3, HomeAnswered
<1>8. ASSUME NEW a \in replies, Liked(a) PROVE HomeInv'
  <2>1. /\ a.r.kind = "like" /\ Received(a) /\ Ordered(a)
        /\ hearts' = (IF a.r.of \in a.hearted THEN hearts \cup ({a.r.of} \cap cards)
                      ELSE hearts \ {a.r.of})
        /\ UNCHANGED <<cardsFor, cards, follows, cardsError, suggested, buttons, fromCards,
                       fromSide>>
    BY <1>8 DEF Liked, homeSideVars
  <2>2. \A s : (TellsHeart(a, s) <=> a.r.of = s) /\ ~TellsCards(a, s) /\ ~TellsSide(a, s)
    BY <2>1 DEF TellsHeart, TellsCards, TellsSide
  <2>3. hearts' \subseteq cards'
    BY <2>1 DEF HomeInv
  <2>4. \A s \in cards' : IF TellsHeart(a, s) THEN s \in hearts' <=> s \in a.hearted
                          ELSE s \in hearts' <=> s \in hearts
    BY <2>1, <2>2
  <2> QED
    BY <2>1, <2>2, <2>3, <2>4, HomeAnswered
<1>9. ASSUME NEW a \in replies, FollowedCards(a) PROVE HomeInv'
  <2>1. /\ a.r.kind = "follow" /\ Received(a) /\ Ordered(a)
        /\ follows' = (IF a.r.of \in a.followed THEN follows \cup CardsBy(a.r.of)
                       ELSE follows \ CardsBy(a.r.of))
        /\ UNCHANGED <<cardsFor, cards, hearts, cardsError, suggested, buttons, fromCards,
                       fromSide>>
    BY <1>9 DEF FollowedCards, homeSideVars
  <2>2. \A s : ~TellsHeart(a, s) /\ (TellsCards(a, s) <=> a.r.of = s) /\ ~TellsSide(a, s)
    BY <2>1 DEF TellsHeart, TellsCards, TellsSide
  <2>3. hearts' \subseteq cards'
    BY <2>1 DEF HomeInv
  <2>4. \A s \in cards' : IF TellsCards(a, AuthorOf[s])
                          THEN s \in follows' <=> AuthorOf[s] \in a.followed
                          ELSE s \in follows' <=> s \in follows
    BY <2>1, <2>2 DEF CardsBy
  <2> QED
    BY <2>1, <2>2, <2>3, <2>4, HomeAnswered
<1>10. ASSUME NEW a \in replies, FollowedSuggested(a) PROVE HomeInv'
  <2>1. /\ a.r.kind = "side" /\ Received(a) /\ Ordered(a)
        /\ buttons' = (IF a.r.of \in a.followed THEN buttons \cup {a.r.of}
                       ELSE buttons \ {a.r.of})
        /\ UNCHANGED <<cardsFor, cards, hearts, follows, cardsError, suggested, fromCards,
                       fromSide>>
    BY <1>10 DEF FollowedSuggested, homeCardVars
  <2>2. \A s : ~TellsHeart(a, s) /\ ~TellsCards(a, s) /\ (TellsSide(a, s) <=> a.r.of = s)
    BY <2>1 DEF TellsHeart, TellsCards, TellsSide
  <2>3. hearts' \subseteq cards'
    BY <2>1 DEF HomeInv
  <2>4. \A x \in suggested : IF TellsSide(a, x) THEN x \in buttons' <=> x \in a.followed
                             ELSE x \in buttons' <=> x \in buttons
    BY <2>1, <2>2
  <2> QED
    BY <2>1, <2>2, <2>3, <2>4, HomeAnswered
<1>11. CASE UNCHANGED homeVars
  <2>1. UNCHANGED <<hearted, followed, asked, served, pending, replies, feed, cardsFor, cards,
                    hearts, follows, cardsError, suggested, buttons, newestServed, newestList,
                    homeMixedUp, fromCards, fromSide>>
    BY <1>11 DEF homeVars, homeServerVars, homeCardVars, homeSideVars, homeHistoryVars
  <2>2. UNCHANGED <<HomeTyped, AllDifferent, SidesKnown, HeartTold, CardsTold, SideTold, LastList>>
    BY <2>1 DEF HomeTyped, AllDifferent, SidesKnown, HeartTold, CardsTold, SideTold,
       LastList, UnderWay, TellsHeart, TellsCards, TellsSide
  <2> QED
    BY <2>1, <2>2 DEF HomeInv
<1> QED
  BY <1>2, <1>3, <1>4, <1>5, <1>6, <1>7, <1>8, <1>9, <1>10, <1>11, HomeServes, HomeFails,
     HomeLoses DEF HomeNext

\* When nothing is awaited any more, the home page shows the feed its controls ask for,
\* hearts and Follow buttons as the server has them, unless an answer came after a later
\* one or was lost (Home.js, FollowButton.js): for any number of stories, authors and
\* requests, in whatever order they reach the server.
THEOREM HomeShownAsServer == HomeSpec => []HomeAsServer
<1>1. HomeInit => HomeInv
  <2> SUFFICES ASSUME HomeInit PROVE HomeInv
    OBVIOUS
  <2>1. PICK r : r = [n |-> 1, kind |-> "list", of |-> feed]
    OBVIOUS
  <2>2. /\ pending = {r} /\ replies = {} /\ asked = 1 /\ served = 0 /\ cards = {}
        /\ hearts = {} /\ newestServed = 0 /\ newestList = 0
        /\ suggested = Authors \ followed /\ buttons = {}
        /\ r.n = 1 /\ r.kind = "list" /\ r.of = feed
    BY <2>1 DEF HomeInit, Suggestible
  <2>3. HomeTyped /\ AllDifferent /\ SidesKnown /\ hearts \subseteq cards
    BY <2>2 DEF HomeTyped, AllDifferent, SidesKnown
  <2>4. HeartTold /\ CardsTold /\ SideTold
    BY <2>2 DEF HeartTold, CardsTold, SideTold
  <2>5. LastList
    BY <2>2 DEF LastList, UnderWay
  <2> QED
    BY <2>3, <2>4, <2>5 DEF HomeInv
<1>2. HomeInv => HomeAsServer
  <2> SUFFICES ASSUME HomeInv, HomeAtRest, ~homeMixedUp, ~cardsError
      PROVE /\ cardsFor = feed
            /\ hearts = cards \cap hearted
            /\ \A s \in cards : AuthorOf[s] \notin fromSide =>
                  (s \in follows <=> AuthorOf[s] \in followed)
            /\ \A a \in suggested \ fromCards : a \in buttons <=> a \in followed
    BY DEF HomeAsServer
  <2>1. replies = {} /\ pending = {} /\ UnderWay = {} /\ cards \subseteq Cards
    BY DEF HomeAtRest, UnderWay, HomeInv, HomeTyped
  <2>2. cardsFor = feed
    BY <2>1 DEF HomeInv, LastList
  <2>3. hearts = cards \cap hearted
    BY <2>1 DEF HomeInv, HeartTold
  <2>4. \A s \in cards : AuthorOf[s] \notin fromSide => (s \in follows <=> AuthorOf[s] \in followed)
    BY <2>1 DEF HomeInv, CardsTold, Authors
  <2>5. \A a \in suggested \ fromCards : a \in buttons <=> a \in followed
    BY <2>1 DEF HomeInv, SideTold
  <2> QED
    BY <2>2, <2>3, <2>4, <2>5
<1> QED
  BY <1>1, <1>2, HomeStep, PTL DEF HomeSpec

-----------------------------------------------------------------------------
(* StoryPage.  While the calls under way are all of this visit and none    *)
(* has crossed, the page holds the story of the route but for what an      *)
(* executed call of it is about to tell.                                   *)

HeldStories == [id : Ids, liked : BOOLEAN, comments : Nat]

CallsTyped ==
    /\ \A r \in calls : /\ r \in [kind : {"story", "like", "comment"}, id : Ids, visit : Nat,
                                  at : Nat, answer : HeldStories \cup {NoStory}]
                        /\ r.visit <= visit
    /\ route \in Ids /\ visit \in Nat /\ clicks \in Nat
    /\ likes \subseteq Ids /\ comments \in [Ids -> Nat]

\* A like and a comment are awaited one at a time.
OneClick ==
    /\ \A r, q \in calls : r.kind = q.kind /\ r.kind # "story" => r = q
    /\ \A r \in calls : (r.kind = "like" => liking) /\ (r.kind = "comment" => commenting)

\* There is a story once the page draws one, or something was clicked.
StoryThere ==
    /\ story \in HeldStories \cup {NoStory}
    /\ StoryOnPage \/ (\E r \in calls : r.kind # "story") => story # NoStory

ThisVisit == \A r \in calls : r.visit = visit

VisitInv ==
    ~crossed /\ ~storyError /\ ThisVisit =>
        /\ \A r \in calls : r.id = route
        /\ storyLoading =>
              \E r \in calls : /\ calls = {r} /\ r.kind = "story"
                               /\ r.answer \in {NoStory, Held(route, likes, comments)}
        /\ ~storyLoading =>
              /\ \A r \in calls : r.kind # "story"
              /\ story.id = route
              /\ \A r \in calls : r.kind = "like" /\ r.answer # NoStory =>
                    (r.answer.liked <=> route \in likes)
              /\ (\A r \in calls : r.kind = "like" => r.answer = NoStory) =>
                    (story.liked <=> route \in likes)
              /\ (\E r \in calls : r.kind = "comment" /\ r.answer # NoStory) =>
                    story.comments + 1 = comments[route]
              /\ (\A r \in calls : r.kind = "comment" => r.answer = NoStory) =>
                    story.comments = comments[route]

StoryPageInv == CallsTyped /\ OneClick /\ StoryThere /\ VisitInv

LEMMA HeldFields ==
    ASSUME NEW i, NEW l, NEW c
    PROVE  /\ Held(i, l, c).id = i /\ Held(i, l, c).comments = c[i]
           /\ Held(i, l, c).liked <=> i \in l
<1>1. Held(i, l, c).liked = (i \in l)
  BY DEF Held
<1> QED
  BY <1>1 DEF Held

LEMMA HeldTyped ==
    ASSUME NEW i \in Ids, NEW l \in SUBSET Ids, NEW c \in [Ids -> Nat]
    PROVE  Held(i, l, c) \in HeldStories /\ Held(i, l, c) # NoStory
<1>1. (i \in l) \in BOOLEAN /\ c[i] \in Nat
  OBVIOUS
<1>2. PICK b \in BOOLEAN : b = (i \in l)
  BY <1>1
<1>3. Held(i, l, c) = [id |-> i, liked |-> b, comments |-> c[i]]
  BY <1>2 DEF Held
<1>4. Held(i, l, c) \in HeldStories
  BY <1>1, <1>3 DEF HeldStories
<1> QED
  BY <1>4, StoryPageAssumption DEF HeldStories

\* Another story: calls of the visits before it are not of this one.
LEMMA RouteStep == ASSUME StoryPageInv, NEW i \in Ids, ChangeRoute(i) PROVE StoryPageInv'
<1>1. PICK r : r = [kind |-> "story", id |-> i, visit |-> visit + 1, at |-> clicks,
                    answer |-> NoStory]
  OBVIOUS
<1>2. /\ calls' = calls \cup {r} /\ visit' = visit + 1 /\ route' = i
      /\ storyLoading' = TRUE
      /\ UNCHANGED <<likes, comments, clicks, story, liking, commenting>>
  BY <1>1 DEF ChangeRoute, storyServerVars
<1>3. visit \in Nat /\ visit' \in Nat /\ visit < visit' /\ clicks \in Nat
      /\ \A q \in calls : q.visit \in Nat /\ q.visit <= visit
  BY <1>2 DEF StoryPageInv, CallsTyped
<1>4. /\ r.kind = "story" /\ r.id = i /\ r.visit = visit' /\ r.answer = NoStory
      /\ r \in [kind : {"story", "like", "comment"}, id : Ids, visit : Nat, at : Nat,
                answer : HeldStories \cup {NoStory}]
  BY <1>1, <1>2, <1>3
<1>5. CallsTyped'
  BY <1>2, <1>3, <1>4 DEF StoryPageInv, CallsTyped
<1>6. OneClick'
  BY <1>2, <1>4 DEF StoryPageInv, OneClick
<1>7. StoryThere'
  BY <1>2, <1>4 DEF StoryPageInv, StoryThere, StoryOnPage
<1>8. VisitInv'
  <2> SUFFICES ASSUME ThisVisit'
               PROVE  /\ \A q \in calls' : q.id = route'
                      /\ calls' = {r} /\ r.answer = NoStory
    BY <1>2, <1>4 DEF VisitInv
  <2>1. calls' = {r}
    BY <1>2, <1>3 DEF ThisVisit
  <2> QED
    BY <1>2, <1>4, <2>1
<1> QED
  BY <1>5, <1>6, <1>7, <1>8 DEF StoryPageInv

\* A click: there is no other of its kind.
LEMMA ClickStep == StoryPageInv /\ (ClickLike \/ SendComment) => StoryPageInv'
<1> SUFFICES ASSUME StoryPageInv, NEW kind \in {"like", "comment"}, Click(kind),
                    kind = "like" => ~liking /\ liking' = TRUE /\ UNCHANGED commenting,
                    kind = "comment" => ~commenting /\ commenting' = TRUE /\ UNCHANGED liking
             PROVE  StoryPageInv'
  BY DEF ClickLike, MayLike, SendComment
<1>1. PICK r : r = Call(kind)
  OBVIOUS
<1>2. /\ calls' = calls \cup {r} /\ clicks' = clicks + 1 /\ StoryOnPage
      /\ UNCHANGED <<likes, comments, visit, route, story, storyLoading, storyError, crossed>>
  BY <1>1 DEF Click, storyServerVars, routeVars
<1>3. /\ r.kind = kind /\ r.id = route /\ r.visit = visit /\ r.answer = NoStory
      /\ r \in [kind : {"story", "like", "comment"}, id : Ids, visit : Nat, at : Nat,
                answer : HeldStories \cup {NoStory}]
  BY <1>1 DEF Call, StoryPageInv, CallsTyped
<1>4. \A q \in calls : q.kind # kind
  BY DEF StoryPageInv, OneClick
<1>5. CallsTyped'
  BY <1>2, <1>3 DEF StoryPageInv, CallsTyped
<1>6. OneClick'
  BY <1>2, <1>3, <1>4 DEF StoryPageInv, OneClick
<1>7. StoryThere'
  BY <1>2 DEF StoryPageInv, StoryThere, StoryOnPage
<1>8. VisitInv'
  <2> SUFFICES ASSUME ~crossed', ~storyError', ThisVisit' PROVE VisitInv'
    BY DEF VisitInv
  <2>1. ThisVisit
    BY <1>2 DEF ThisVisit
  <2> QED
    BY <1>2, <1>3, <2>1 DEF StoryPageInv, VisitInv, StoryOnPage, Held
<1> QED
  BY <1>5, <1>6, <1>7, <1>8 DEF StoryPageInv

\* The server executes a call.
LEMMA ServeStep == ASSUME StoryPageInv, NEW r \in calls, ServeStory(r) PROVE StoryPageInv'
<1>1. PICK q : q = [r EXCEPT !.answer = Held(r.id, likes', comments')]
  OBVIOUS
<1>2. /\ calls' = (calls \ {r}) \cup {q} /\ r.answer = NoStory
      /\ likes' = IF r.kind # "like" THEN likes
                  ELSE IF r.id \in likes THEN likes \ {r.id} ELSE likes \cup {r.id}
      /\ comments' = IF r.kind = "comment" THEN [comments EXCEPT ![r.id] = @ + 1] ELSE comments
      /\ UNCHANGED <<visit, route, clicks, story, storyLoading, storyError, liking, commenting,
                     crossed>>
  BY <1>1 DEF ServeStory, routeVars
<1>3. /\ r \in [kind : {"story", "like", "comment"}, id : Ids, visit : Nat, at : Nat,
                answer : HeldStories \cup {NoStory}]
      /\ r.visit <= visit
  BY DEF StoryPageInv, CallsTyped
<1>4. likes' \subseteq Ids
  BY <1>2, <1>3 DEF StoryPageInv, CallsTyped
<1>5. comments' \in [Ids -> Nat]
  <2>1. comments \in [Ids -> Nat] /\ comments[r.id] + 1 \in Nat
    BY <1>3 DEF StoryPageInv, CallsTyped
  <2> QED
    BY <1>2, <1>3, <2>1
<1>6. Held(r.id, likes', comments') \in HeldStories /\ Held(r.id, likes', comments') # NoStory
  BY <1>3, <1>4, <1>5, HeldTyped
<1>7. /\ q.kind = r.kind /\ q.id = r.id /\ q.visit = r.visit
      /\ q.answer = Held(r.id, likes', comments') /\ q.answer # NoStory
      /\ q \in [kind : {"story", "like", "comment"}, id : Ids, visit : Nat, at : Nat,
                answer : HeldStories \cup {NoStory}]
  BY <1>1, <1>3, <1>6
<1>8. CallsTyped'
  BY <1>2, <1>3, <1>4, <1>5, <1>7 DEF StoryPageInv, CallsTyped
<1>9. OneClick'
  BY <1>2, <1>7 DEF StoryPageInv, OneClick
<1>10. StoryThere'
  BY <1>2, <1>7 DEF StoryPageInv, StoryThere, StoryOnPage
<1>11. ASSUME ~crossed', ~storyError', ThisVisit' PROVE VisitInv'
  <2>1. ~crossed /\ ~storyError /\ ThisVisit
    BY <1>2, <1>7, <1>11 DEF ThisVisit
  <2>2. /\ r.id = route /\ \A x \in calls' : x.id = route'
    BY <1>2, <1>7, <2>1 DEF StoryPageInv, VisitInv
  <2>3. CASE storyLoading
    <3>1. calls = {r} /\ r.kind = "story"
      BY <2>1, <2>3 DEF StoryPageInv, VisitInv
    <3>2. calls' = {q} /\ q.answer = Held(route', likes', comments')
      BY <1>2, <1>7, <2>2, <3>1
    <3> QED
      BY <1>2, <1>7, <2>2, <2>3, <3>1, <3>2 DEF VisitInv
  <2>4. CASE ~storyLoading
    <3>1. r.kind \in {"like", "comment"} /\ story.id = route
          /\ \A x \in calls : x.kind # "story"
      BY <1>3, <2>1, <2>4 DEF StoryPageInv, VisitInv
    <3>2. CASE r.kind = "like"
      <4>1. q.answer.liked <=> route \in likes'
        BY <1>2, <1>7, <2>2, HeldFields
      <4>2. \A x \in calls' : x.kind = "like" => x = q
        BY <1>2, <3>2 DEF StoryPageInv, OneClick
      <4>3. \A x \in calls' : x.kind = "comment" <=> x \in calls /\ x.kind = "comment"
        BY <1>2, <1>7, <3>2
      <4>4. comments' = comments
        BY <1>2, <3>2
      <4>5. \A x \in calls : x.kind = "comment" => x \in calls'
        BY <1>2, <3>2
      <4>6. q \in calls'
        BY <1>2
      <4> QED
        BY <1>2, <1>7, <2>1, <2>2, <2>4, <3>1, <3>2, <4>1, <4>2, <4>3, <4>4, <4>5, <4>6
        DEF StoryPageInv, VisitInv
    <3>3. CASE r.kind = "comment"
      <4>1. \A x \in calls : x.kind = "comment" => x = r
        BY <3>3 DEF StoryPageInv, OneClick
      <4>2. story.comments = comments[route]
        BY <1>2, <2>1, <2>4, <4>1 DEF StoryPageInv, VisitInv
      <4>3. comments' = [comments EXCEPT ![route] = comments[route] + 1] /\ likes' = likes
        BY <1>2, <2>2, <3>3
      <4>4. comments'[route] = comments[route] + 1
        BY <4>3 DEF StoryPageInv, CallsTyped
      <4>5. \A x \in calls' : x.kind = "like" <=> x \in calls /\ x.kind = "like"
        BY <1>2, <1>7, <3>3
      <4>6. q \in calls' /\ \A x \in calls : x.kind = "like" => x \in calls'
        BY <1>2, <3>3
      <4> QED
        BY <1>2, <1>7, <2>1, <2>2, <2>4, <3>1, <3>3, <4>2, <4>3, <4>4, <4>5, <4>6
        DEF StoryPageInv, VisitInv
    <3> QED
      BY <3>1, <3>2, <3>3
  <2> QED
    BY <2>3, <2>4
<1>12. VisitInv'
  BY <1>11 DEF VisitInv
<1> QED
  BY <1>8, <1>9, <1>10, <1>12 DEF StoryPageInv

\* The answers to the three calls, and none.
LEMMA StoryAnsweredStep ==
    ASSUME StoryPageInv, NEW r \in calls, StoryAnswered(r) PROVE StoryPageInv'
<1>1. /\ r.kind = "story" /\ r.answer # NoStory /\ calls' = calls \ {r}
      /\ crossed' = (crossed \/ r.visit # visit) /\ story' = r.answer
      /\ storyLoading' = FALSE
      /\ UNCHANGED <<likes, comments, route, visit, clicks, storyError, liking, commenting>>
  BY DEF StoryAnswered, Answered, storyServerVars, routeVars
<1>2. r.answer \in HeldStories
  BY <1>1 DEF StoryPageInv, CallsTyped
<1>3. CallsTyped' /\ OneClick'
  BY <1>1 DEF StoryPageInv, CallsTyped, OneClick
<1>4. StoryThere'
  BY <1>1, <1>2 DEF StoryThere
<1>5. ASSUME ~crossed', ~storyError', ThisVisit' PROVE VisitInv'
  <2>1. ~crossed /\ ~storyError /\ ThisVisit
    BY <1>1, <1>5 DEF ThisVisit
  <2>2. calls = {r} /\ r.answer = Held(route, likes, comments)
    BY <1>1, <2>1 DEF StoryPageInv, VisitInv
  <2>3. calls' = {} /\ story' = Held(route', likes', comments')
    BY <1>1, <2>2
  <2> QED
    BY <1>1, <2>3, HeldFields DEF VisitInv
<1>6. VisitInv'
  BY <1>5 DEF VisitInv
<1> QED
  BY <1>3, <1>4, <1>6 DEF StoryPageInv

LEMMA LikeAnsweredStep ==
    ASSUME StoryPageInv, NEW r \in calls, LikeAnswered(r) PROVE StoryPageInv'
<1>1. /\ r.kind = "like" /\ r.answer # NoStory /\ calls' = calls \ {r}
      /\ crossed' = (crossed \/ r.visit # visit)
      /\ story' = [story EXCEPT !.liked = r.answer.liked] /\ liking' = FALSE
      /\ UNCHANGED <<likes, comments, route, visit, clicks, storyLoading, storyError, commenting>>
  BY DEF LikeAnswered, Answered, storyServerVars, routeVars
<1>2. r.answer \in HeldStories /\ story \in HeldStories
  BY <1>1 DEF StoryPageInv, CallsTyped, StoryThere
<1>3. /\ story' \in HeldStories /\ story'.id = story.id
      /\ story'.comments = story.comments /\ story'.liked = r.answer.liked
  BY <1>1, <1>2 DEF HeldStories
<1>4. \A q \in calls' : q \in calls /\ q.kind # "like"
  BY <1>1 DEF StoryPageInv, OneClick
<1>5. CallsTyped' /\ OneClick'
  BY <1>1, <1>4 DEF StoryPageInv, CallsTyped, OneClick
<1>6. StoryThere'
  BY <1>3, StoryPageAssumption DEF StoryThere, HeldStories
<1>7. ASSUME ~crossed', ~storyError', ThisVisit' PROVE VisitInv'
  <2>1. ~crossed /\ ~storyError /\ ThisVisit
    BY <1>1, <1>7 DEF ThisVisit
  <2>2. ~storyLoading /\ (r.answer.liked <=> route \in likes) /\ story.id = route
    BY <1>1, <2>1 DEF StoryPageInv, VisitInv
  <2>3. \A q \in calls : q.kind = "comment" => q \in calls'
    BY <1>1
  <2> QED
    BY <1>1, <1>3, <1>4, <2>1, <2>2, <2>3 DEF StoryPageInv, VisitInv
<1>8. VisitInv'
  BY <1>7 DEF VisitInv
<1> QED
  BY <1>5, <1>6, <1>8 DEF StoryPageInv

LEMMA CommentAnsweredStep ==
    ASSUME StoryPageInv, NEW r \in calls, CommentAnswered(r) PROVE StoryPageInv'
<1>1. /\ r.kind = "comment" /\ r.answer # NoStory /\ calls' = calls \ {r}
      /\ crossed' = (crossed \/ r.visit # visit)
      /\ story' = [story EXCEPT !.comments = @ + 1] /\ commenting' = FALSE
      /\ UNCHANGED <<likes, comments, route, visit, clicks, storyLoading, storyError, liking>>
  BY DEF CommentAnswered, Answered, storyServerVars, routeVars
<1>2. story \in HeldStories /\ story.comments \in Nat
  BY <1>1 DEF StoryPageInv, StoryThere, HeldStories
<1>3. PICK n \in Nat : n = story.comments + 1
  BY <1>2
<1>4. /\ story' \in HeldStories /\ story'.id = story.id
      /\ story'.comments = n /\ story'.liked = story.liked
  BY <1>1, <1>2, <1>3 DEF HeldStories
<1>5. \A q \in calls' : q \in calls /\ q.kind # "comment"
  BY <1>1 DEF StoryPageInv, OneClick
<1>6. CallsTyped' /\ OneClick'
  BY <1>1, <1>5 DEF StoryPageInv, CallsTyped, OneClick
<1>7. StoryThere'
  BY <1>4, StoryPageAssumption DEF StoryThere, HeldStories
<1>8. ASSUME ~crossed', ~storyError', ThisVisit' PROVE VisitInv'
  <2>1. ~crossed /\ ~storyError /\ ThisVisit
    BY <1>1, <1>8 DEF ThisVisit
  <2>2. ~storyLoading /\ n = comments[route] /\ story.id = route
    BY <1>1, <1>3, <2>1 DEF StoryPageInv, VisitInv
  <2>3. \A q \in calls : q.kind = "like" => q \in calls'
    BY <1>1
  <2> QED
    BY <1>1, <1>4, <1>5, <2>1, <2>2, <2>3 DEF StoryPageInv, VisitInv
<1>9. VisitInv'
  BY <1>8 DEF VisitInv
<1> QED
  BY <1>6, <1>7, <1>9 DEF StoryPageInv

LEMMA CallFailsStep == ASSUME StoryPageInv, NEW r \in calls, CallFails(r) PROVE StoryPageInv'
<1>1. /\ calls' = calls \ {r}
      /\ crossed' = (crossed \/ r.answer # NoStory \/ r.visit # visit)
      /\ liking' = (liking /\ r.kind # "like")
      /\ commenting' = (commenting /\ r.kind # "comment")
      /\ IF r.kind = "story"
         THEN storyLoading' = FALSE /\ storyError' = TRUE
         ELSE UNCHANGED <<storyLoading, storyError>>
      /\ UNCHANGED <<likes, comments, route, visit, clicks, story>>
  BY DEF CallFails, storyServerVars, routeVars
<1>2. CallsTyped'
  BY <1>1 DEF StoryPageInv, CallsTyped
<1>3. OneClick'
  BY <1>1 DEF StoryPageInv, OneClick
<1>4. StoryThere'
  BY <1>1 DEF StoryPageInv, StoryThere, StoryOnPage
<1>5. ASSUME ~crossed', ~storyError', ThisVisit' PROVE VisitInv'
  <2>1. /\ ~crossed /\ ~storyError /\ ThisVisit /\ r.answer = NoStory
        /\ r.kind # "story" /\ UNCHANGED storyLoading
    BY <1>1, <1>5 DEF ThisVisit
  <2>2. ~storyLoading
    BY <2>1 DEF StoryPageInv, VisitInv
  <2>3. \A q \in calls : q.kind = r.kind => q = r
    BY <2>1 DEF StoryPageInv, OneClick
  <2>4. \A q : q \in calls' <=> q \in calls /\ q # r
    BY <1>1
  <2>5. /\ (\A q \in calls' : q.kind = "like" => q.answer = NoStory)
            => \A q \in calls : q.kind = "like" => q.answer = NoStory
        /\ (\A q \in calls' : q.kind = "comment" => q.answer = NoStory)
            => \A q \in calls : q.kind = "comment" => q.answer = NoStory
    BY <2>1, <2>4
  <2> QED
    BY <1>1, <2>1, <2>2, <2>4, <2>5 DEF StoryPageInv, VisitInv
<1>6. VisitInv'
  BY <1>5 DEF VisitInv
<1> QED
  BY <1>2, <1>3, <1>4, <1>6 DEF StoryPageInv

LEMMA StoryPageStep == StoryPageInv /\ [StoryPageNext]_storyPageVars => StoryPageInv'
<1> SUFFICES ASSUME StoryPageInv, [StoryPageNext]_storyPageVars PROVE StoryPageInv'
  OBVIOUS
<1>1. ASSUME UNCHANGED <<likes, comments, calls, route, visit, clicks, story, storyLoading,
                         storyError, liking, commenting, crossed>>
      PROVE  StoryPageInv'
  BY <1>1 DEF StoryPageInv, CallsTyped, OneClick, StoryThere, StoryOnPage, VisitInv, ThisVisit,
     Held
<1>2. CASE TypeComment
  BY <1>1, <1>2 DEF TypeComment, storyServerVars, routeVars
<1>3. CASE UNCHANGED storyPageVars
  BY <1>1, <1>3 DEF storyPageVars
<1> QED
  BY <1>2, <1>3, RouteStep, ClickStep, ServeStep, StoryAnsweredStep, LikeAnsweredStep,
     CommentAnsweredStep, CallFailsStep DEF StoryPageNext

\* When nothing is awaited any more the page shows the story of its route with heart and
\* comments as the server has them, and it never draws a story it does not have, until
\* an answer comes to another visit or is lost (ViewStory.js): for any number of
\* stories, visits and clicks.
THEOREM StoryShownAsServer == StoryPageSpec => []StoryAsServer
<1>1. StoryPageInit => StoryPageInv
  <2> SUFFICES ASSUME StoryPageInit PROVE StoryPageInv
    OBVIOUS
  <2>1. PICK r : r = [kind |-> "story", id |-> route, visit |-> 1, at |-> 0, answer |-> NoStory]
    OBVIOUS
  <2>2. calls = {r} /\ route \in Ids
    BY <2>1 DEF StoryPageInit
  <2>3. /\ r.kind = "story" /\ r.id = route /\ r.visit = 1 /\ r.answer = NoStory
        /\ r \in [kind : {"story", "like", "comment"}, id : Ids, visit : Nat, at : Nat,
                  answer : HeldStories \cup {NoStory}]
    BY <2>1, <2>2
  <2>4. CallsTyped
    BY <2>2, <2>3 DEF StoryPageInit, CallsTyped
  <2>5. OneClick /\ StoryThere /\ VisitInv
    BY <2>2, <2>3 DEF StoryPageInit, OneClick, StoryThere, StoryOnPage, VisitInv
  <2> QED
    BY <2>4, <2>5 DEF StoryPageInv
<1>2. StoryPageInv => StoryAsServer
  <2> SUFFICES ASSUME StoryPageInv, calls = {}, ~crossed, ~storyError
               PROVE  story = Held(route, likes, comments)
    BY DEF StoryAsServer, StoryPageInv, StoryThere
  <2>1. ThisVisit /\ ~storyLoading
    BY DEF ThisVisit, StoryPageInv, VisitInv
  <2>2. /\ story.id = route /\ (story.liked <=> route \in likes)
        /\ story.comments = comments[route]
    BY <2>1 DEF StoryPageInv, VisitInv
  <2>3. story \in HeldStories
    BY <2>1 DEF StoryPageInv, StoryThere, StoryOnPage
  <2>4. story.liked = (route \in likes)
    BY <2>2, <2>3 DEF HeldStories
  <2> QED
    BY <2>2, <2>3, <2>4 DEF HeldStories, Held
<1> QED
  BY <1>1, <1>2, StoryPageStep, PTL DEF StoryPageSpec

-----------------------------------------------------------------------------
(* PeoplePage.  While nothing has crossed, the last list asked for is of   *)
(* the route's account, and a button shows what its last answer told       *)
(* unless an executed click is about to tell it.                           *)

PeopleTyped ==
    /\ following \subseteq People
    /\ which \in {"Followers", "Following"} /\ profile \in Profiles
    /\ listsAsked \in Nat /\ listsAsked <= MaxLists
    /\ listed.profile \in Profiles /\ listed.page \in Nat /\ listed.page <= listsAsked
    /\ offered.profile \in Profiles /\ offered.page \in Nat /\ offered.page <= listsAsked
    /\ \A r \in lists : /\ r.n \in Nat /\ r.n <= listsAsked
                        /\ r.of.profile \in Profiles /\ r.of.page \in Nat
                        /\ r.of.page <= listsAsked
    /\ \A r, q \in lists : r.n = q.n => r = q
    /\ toggled \in Nat
    /\ \A t \in toggles :
          /\ t \in [n : Nat, who : People, mounted : BOOLEAN, answer : {"none", "on", "off"}]
          /\ t.n <= toggled
    /\ \A t, u \in toggles : t.n = u.n => t = u

\* What is known of the buttons is of people on the list, and a button that waits has
\* one click under way.
ButtonsTyped ==
    /\ buttonOn \subseteq OnList(listed) /\ heard \subseteq OnList(listed)
    /\ buttonBusy \subseteq OnList(listed)
    /\ \A t \in toggles : t.mounted => t.who \in buttonBusy
    /\ \A t, u \in toggles : t.mounted /\ u.mounted /\ t.who = u.who => t = u

\* A page that is loading waits for the last list asked for.
LoadingLast == peopleLoading => \E r \in lists : r.n = listsAsked

\* The list held is of the last answer, which was of the route's account.
LastOfRoute ==
    /\ \A r \in lists : r.n = listsAsked => r.of.profile = profile /\ peopleLoading
    /\ ~peopleError /\ (\A r \in lists : r.n # listsAsked) =>
          listed = offered /\ listed.profile = profile

\* Nobody waits for an answer that has been given.
NoneGone == \A t \in toggles : t.answer # "none" => t.mounted

\* Following takes its buttons away while it loads.
TakenAway == which = "Following" /\ peopleLoading

ButtonsRight ==
    NoneGone =>
        /\ \A t \in toggles : t.answer # "none" => (t.answer = "on" <=> t.who \in following)
        /\ \A p \in OnList(listed) :
              (\A t \in toggles : t.who = p => t.answer = "none") =>
                  /\ ~TakenAway => (p \in buttonOn <=> p \in heard /\ p \in following)
                  /\ which = "Following" => (p \in known <=> p \in heard /\ p \in following)
        /\ TakenAway => \A t \in toggles : ~t.mounted

PeopleInv ==
    /\ PeopleTyped /\ ButtonsTyped /\ LoadingLast
    /\ ~peopleCrossed => LastOfRoute /\ ButtonsRight

ToggleRecord == [n : Nat, who : People, mounted : BOOLEAN, answer : {"none", "on", "off"}]

\* Whoever is on one of the pages is among the people; page 0 has nobody.
LEMMA OnListPeople ==
    ASSUME NEW l, l.profile \in Profiles, l.page \in Nat, l.page <= MaxLists
    PROVE  OnList(l) \subseteq People /\ (l.page = 0 => OnList(l) = {})
<1>1. OnList(l) = OnList(At(l.profile, l.page))
  BY DEF OnList, At
<1>2. l.page = 0 => OnList(l) = {}
  BY PeopleAssumption DEF OnList
<1>3. CASE l.page # 0
  <2>1. l.page \in 1 .. MaxLists
    BY <1>3, PeopleAssumption
  <2> QED
    BY <1>1, <1>3, <2>1 DEF People
<1> QED
  BY <1>2, <1>3

LEMMA HeldPeople == PeopleInv => OnList(listed) \subseteq People
<1> SUFFICES ASSUME PeopleInv PROVE OnList(listed) \subseteq People
  OBVIOUS
<1>1. listed.profile \in Profiles /\ listed.page \in Nat /\ listed.page <= MaxLists
  BY PeopleAssumption DEF PeopleInv, PeopleTyped
<1> QED
  BY <1>1, OnListPeople

\* Clicks whose buttons go are as they were, but for being awaited.
LEMMA UnmountToggles ==
    ASSUME PeopleInv, NEW gone, Unmount(gone)
    PROVE  /\ \A t \in toggles' :
                 \E u \in toggles : /\ t.n = u.n /\ t.who = u.who /\ t.answer = u.answer
                                    /\ t.mounted <=> u.mounted /\ u.who \notin gone
           /\ \A u \in toggles : \E t \in toggles' : t.who = u.who /\ t.answer = u.answer
                                                 /\ (t.mounted => u.mounted)
           /\ \A t \in toggles' : t \in ToggleRecord /\ t.n <= toggled
           /\ \A t, u \in toggles' : t.n = u.n => t = u
           /\ \A t, u \in toggles' : t.mounted /\ u.mounted /\ t.who = u.who => t = u
<1> DEFINE After(u) == [u EXCEPT !.mounted = @ /\ u.who \notin gone]
<1>1. toggles' = {After(u) : u \in toggles}
  BY DEF Unmount
<1>2. ASSUME NEW u \in toggles
      PROVE  /\ After(u).n = u.n /\ After(u).who = u.who /\ After(u).answer = u.answer
             /\ After(u).mounted <=> u.mounted /\ u.who \notin gone
             /\ After(u) \in ToggleRecord /\ u.n <= toggled
  <2>1. u \in ToggleRecord /\ u.n <= toggled
    BY DEF PeopleInv, PeopleTyped, ToggleRecord
  <2>2. PICK b \in BOOLEAN : b <=> u.mounted /\ u.who \notin gone
    BY <2>1 DEF ToggleRecord
  <2>3. After(u) = [u EXCEPT !.mounted = b]
    BY <2>1, <2>2 DEF ToggleRecord
  <2> HIDE DEF After
  <2> QED
    BY <2>1, <2>2, <2>3 DEF ToggleRecord
<1>3. \A t, u \in toggles : t.n = u.n => t = u
  BY DEF PeopleInv, PeopleTyped
<1>4. \A t, u \in toggles : t.mounted /\ u.mounted /\ t.who = u.who => t = u
  BY DEF PeopleInv, ButtonsTyped
<1> HIDE DEF After
<1>5. \A t \in toggles' : \E u \in toggles : t = After(u)
  BY <1>1
<1> QED
  BY <1>1, <1>2, <1>3, <1>4, <1>5

\* A list is asked for: it is the last, of the route's account.
LEMMA PeopleAsks ==
    ASSUME PeopleInv, NEW l, FetchPeople(l), l.profile = profile', profile' \in Profiles,
           l.page \in Nat, l.page <= listsAsked + 1
    PROVE  PeopleInv'
<1>1. PICK r : r = [n |-> listsAsked + 1, of |-> l]
  OBVIOUS
<1>2. /\ listsAsked < MaxLists /\ listsAsked' = listsAsked + 1 /\ lists' = lists \cup {r}
      /\ peopleLoading' = TRUE /\ r.n = listsAsked' /\ r.of = l
      /\ UNCHANGED <<following, which, listed, offered, known, toggled, heard, peopleCrossed>>
  BY <1>1 DEF FetchPeople
<1>3. /\ listsAsked \in Nat /\ listsAsked' \in Nat /\ listsAsked' <= MaxLists
      /\ listsAsked < listsAsked'
      /\ \A q \in lists : q.n \in Nat /\ q.n <= listsAsked
  BY <1>2, PeopleAssumption DEF PeopleInv, PeopleTyped
<1>4. /\ listed.page \in Nat /\ listed.page <= listsAsked
      /\ offered.page \in Nat /\ offered.page <= listsAsked
      /\ \A q \in lists : q.of.page \in Nat /\ q.of.page <= listsAsked
  BY DEF PeopleInv, PeopleTyped
<1>5. /\ listed'.page <= listsAsked' /\ offered'.page <= listsAsked'
      /\ \A q \in lists' : q.of.page \in Nat /\ q.of.page <= listsAsked'
      /\ \A q \in lists' : q.n \in Nat /\ q.n <= listsAsked'
      /\ \A q, p \in lists' : q.n = p.n => q = p
  <2>1. \A q, p \in lists : q.n = p.n => q = p
    BY DEF PeopleInv, PeopleTyped
  <2> QED
    BY <1>2, <1>3, <1>4, <2>1
<1>6. LoadingLast'
  BY <1>2 DEF LoadingLast
<1>7. LastOfRoute'
  BY <1>2, <1>3 DEF LastOfRoute
<1>8. CASE which = "Following"
  <2>1. Unmount(People)
    BY <1>8 DEF FetchPeople
  <2>2. /\ \A t \in toggles' : t \in ToggleRecord /\ t.n <= toggled
        /\ \A t, u \in toggles' : t.n = u.n => t = u
        /\ \A t \in toggles' : ~t.mounted
        /\ \A u \in toggles : \E t \in toggles' : t.who = u.who /\ t.answer = u.answer
                                                 /\ (t.mounted => u.mounted)
    BY <2>1, UnmountToggles DEF ToggleRecord
  <2>3. buttonOn' = {} /\ buttonBusy' = {}
    BY <2>1, HeldPeople DEF Unmount, PeopleInv, ButtonsTyped
  <2>4. PeopleTyped'
    BY <1>2, <1>3, <1>4, <1>5, <2>2 DEF PeopleInv, PeopleTyped, ToggleRecord
  <2>5. ButtonsTyped'
    BY <1>2, <2>2, <2>3 DEF PeopleInv, ButtonsTyped, OnList
  <2>6. ASSUME ~peopleCrossed', NoneGone' PROVE ButtonsRight'
    <3>1. \A t \in toggles' : t.answer = "none"
      BY <2>2, <2>6 DEF NoneGone
    <3>2. \A u \in toggles : u.answer = "none"
      BY <2>2, <3>1
    <3>3. \A p \in OnList(listed) : p \in known <=> p \in heard /\ p \in following
      BY <1>2, <1>8, <2>6, <3>2 DEF PeopleInv, ButtonsRight, NoneGone
    <3> QED
      BY <1>2, <1>8, <2>2, <3>1, <3>3 DEF ButtonsRight, TakenAway, OnList
  <2>7. ~peopleCrossed' => ButtonsRight'
    BY <2>6 DEF ButtonsRight
  <2> QED
    BY <1>6, <1>7, <2>4, <2>5, <2>7 DEF PeopleInv
<1>9. CASE which # "Following"
  <2>1. UNCHANGED <<buttonOn, buttonBusy, toggles>>
    BY <1>9 DEF FetchPeople
  <2>2. PeopleTyped'
    BY <1>2, <1>3, <1>4, <1>5, <2>1 DEF PeopleInv, PeopleTyped
  <2>3. ButtonsTyped'
    BY <1>2, <2>1 DEF PeopleInv, ButtonsTyped, OnList
  <2>4. ~peopleCrossed' => ButtonsRight'
    BY <1>2, <1>9, <2>1 DEF PeopleInv, ButtonsRight, NoneGone, TakenAway, OnList
  <2> QED
    BY <1>6, <1>7, <2>2, <2>3, <2>4 DEF PeopleInv
<1> QED
  BY <1>8, <1>9

\* A list is answered.
LEMMA ListAnsweredStep == ASSUME PeopleInv, NEW r \in lists, ListAnswered(r) PROVE PeopleInv'
<1>1. PICK gone : gone = IF which = "Following" THEN People ELSE OnList(listed) \ OnList(r.of)
  OBVIOUS
<1>2. /\ lists' = lists \ {r} /\ listed' = r.of /\ offered' = r.of /\ peopleLoading' = FALSE
      /\ known' = {} /\ heard' = heard \ gone /\ Unmount(gone)
      /\ buttonOn' = buttonOn \ gone /\ buttonBusy' = buttonBusy \ gone
      /\ peopleCrossed' = (peopleCrossed \/ r.n < listsAsked)
      /\ UNCHANGED <<following, which, profile, peopleError, listsAsked, toggled>>
  BY <1>1 DEF ListAnswered, Unmount
<1>3. /\ r.n \in Nat /\ r.n <= listsAsked /\ listsAsked \in Nat
      /\ r.of.profile \in Profiles /\ r.of.page \in Nat /\ r.of.page <= listsAsked
  BY DEF PeopleInv, PeopleTyped
<1>4. /\ \A t \in toggles' :
            \E u \in toggles : /\ t.n = u.n /\ t.who = u.who /\ t.answer = u.answer
                               /\ t.mounted <=> u.mounted /\ u.who \notin gone
      /\ \A u \in toggles : \E t \in toggles' : t.who = u.who /\ t.answer = u.answer
                                                 /\ (t.mounted => u.mounted)
      /\ \A t \in toggles' : t \in ToggleRecord /\ t.n <= toggled
      /\ \A t, u \in toggles' : t.n = u.n => t = u
      /\ \A t, u \in toggles' : t.mounted /\ u.mounted /\ t.who = u.who => t = u
  BY <1>2, UnmountToggles
<1>5. PeopleTyped'
  BY <1>2, <1>3, <1>4 DEF PeopleInv, PeopleTyped, ToggleRecord
<1>6. /\ buttonOn \subseteq OnList(listed) /\ heard \subseteq OnList(listed)
      /\ buttonBusy \subseteq OnList(listed) /\ OnList(listed) \subseteq People
  BY HeldPeople DEF PeopleInv, ButtonsTyped
<1>7. OnList(listed)' = OnList(r.of)
  BY <1>2 DEF OnList
<1>8. ButtonsTyped'
  <2>1. /\ buttonOn' \subseteq OnList(r.of) /\ heard' \subseteq OnList(r.of)
        /\ buttonBusy' \subseteq OnList(r.of)
    BY <1>1, <1>2, <1>6
  <2>2. \A t \in toggles' : t.mounted => t.who \in buttonBusy'
    BY <1>2, <1>4 DEF PeopleInv, ButtonsTyped
  <2> QED
    BY <1>4, <1>7, <2>1, <2>2 DEF ButtonsTyped
<1>9. LoadingLast'
  BY <1>2 DEF LoadingLast
<1>10. ASSUME ~peopleCrossed' PROVE LastOfRoute'
  <2>0. ~peopleCrossed /\ ~(r.n < listsAsked)
    BY <1>2, <1>10
  <2>1. ~peopleCrossed /\ r.n = listsAsked
    BY <1>3, <2>0
  <2>2. r.of.profile = profile
    BY <2>1 DEF PeopleInv, LastOfRoute
  <2>3. \A q \in lists' : q.n # listsAsked'
    BY <1>2, <2>1 DEF PeopleInv, PeopleTyped
  <2> QED
    BY <1>2, <2>2, <2>3 DEF LastOfRoute
<1>11. ASSUME ~peopleCrossed', NoneGone' PROVE ButtonsRight'
  <2>1. NoneGone
    BY <1>4, <1>11 DEF NoneGone
  <2>2. ButtonsRight /\ ~peopleCrossed
    BY <1>2, <1>11 DEF PeopleInv
  <2>3. \A t \in toggles' : t.answer # "none" => (t.answer = "on" <=> t.who \in following')
    BY <1>2, <1>4, <2>1, <2>2 DEF ButtonsRight
  <2>4. ASSUME NEW p \in OnList(r.of), \A t \in toggles' : t.who = p => t.answer = "none"
        PROVE  /\ p \in buttonOn' <=> p \in heard' /\ p \in following'
               /\ which' = "Following" => (p \in known' <=> p \in heard' /\ p \in following')
    <3>1. \A t \in toggles : t.who = p => t.answer = "none"
      BY <1>4, <2>4
    <3>2. CASE which = "Following"
      <4>1. buttonOn' = {} /\ heard' = {} /\ known' = {}
        BY <1>1, <1>2, <1>6, <3>2
      <4> QED
        BY <4>1
    <3>3. CASE which # "Following" /\ p \in OnList(listed)
      <4>1. p \notin gone /\ which' # "Following"
        BY <1>1, <1>2, <2>4, <3>3
      <4>2. p \in buttonOn <=> p \in heard /\ p \in following
        BY <2>1, <2>2, <3>1, <3>3 DEF ButtonsRight, TakenAway
      <4> QED
        BY <1>2, <4>1, <4>2
    <3>4. CASE which # "Following" /\ p \notin OnList(listed)
      BY <1>2, <1>6, <3>4
    <3> QED
      BY <3>2, <3>3, <3>4
  <2>5. ~TakenAway'
    BY <1>2 DEF TakenAway
  <2> QED
    BY <1>7, <2>3, <2>4, <2>5 DEF ButtonsRight
<1>12. ~peopleCrossed' => ButtonsRight'
  BY <1>11 DEF ButtonsRight
<1> QED
  BY <1>5, <1>8, <1>9, <1>10, <1>12 DEF PeopleInv

\* A list fails: Followers forgets it, Following shows the old one with new buttons.
LEMMA ListFailsStep == ASSUME PeopleInv, NEW r \in lists, ListFails(r) PROVE PeopleInv'
<1>1. /\ lists' = lists \ {r} /\ peopleLoading' = FALSE /\ peopleError' = TRUE
      /\ peopleCrossed' = (peopleCrossed \/ r.n < listsAsked)
      /\ UNCHANGED <<following, which, profile, listsAsked, toggled>>
  BY DEF ListFails
<1>2. r.n \in Nat /\ r.n <= listsAsked /\ listsAsked \in Nat
  BY DEF PeopleInv, PeopleTyped
<1>3. LoadingLast'
  BY <1>1 DEF LoadingLast
<1>4. ASSUME ~peopleCrossed' PROVE LastOfRoute' /\ ~peopleCrossed /\ peopleLoading
  <2>0. ~peopleCrossed /\ ~(r.n < listsAsked)
    BY <1>1, <1>4
  <2>1. ~peopleCrossed /\ r.n = listsAsked
    BY <1>2, <2>0
  <2>2. \A q \in lists' : q.n # listsAsked'
    BY <1>1, <2>1 DEF PeopleInv, PeopleTyped
  <2> QED
    BY <1>1, <2>1, <2>2 DEF PeopleInv, LastOfRoute
<1>5. CASE which = "Followers"
  <2>1. /\ listed' = At(listed.profile, 0) /\ offered' = At(offered.profile, 0)
        /\ known' = {} /\ heard' = {} /\ Unmount(People)
    BY <1>5 DEF ListFails
  <2>2. /\ \A t \in toggles' : t \in ToggleRecord /\ t.n <= toggled
        /\ \A t, u \in toggles' : t.n = u.n => t = u
        /\ \A t \in toggles' : ~t.mounted
    BY <2>1, UnmountToggles DEF ToggleRecord
  <2>3. buttonOn' = {} /\ buttonBusy' = {}
    BY <2>1, HeldPeople DEF Unmount, PeopleInv, ButtonsTyped
  <2>4. /\ listed'.profile \in Profiles /\ listed'.page = 0
        /\ offered'.profile \in Profiles /\ offered'.page = 0
    BY <2>1 DEF At, PeopleInv, PeopleTyped
  <2>5. OnList(listed)' = {}
    <3>1. OnList(listed') = {}
      BY <2>4, OnListPeople, PeopleAssumption
    <3> QED
      BY <3>1 DEF OnList
  <2>6. PeopleTyped'
    BY <1>1, <1>2, <2>2, <2>4 DEF PeopleInv, PeopleTyped, ToggleRecord
  <2>7. ButtonsTyped'
    BY <2>1, <2>2, <2>3, <2>5 DEF ButtonsTyped
  <2>8. ButtonsRight'
    BY <1>1, <2>2, <2>5 DEF ButtonsRight, NoneGone, TakenAway
  <2> QED
    BY <1>3, <1>4, <2>6, <2>7, <2>8 DEF PeopleInv
<1>6. CASE which # "Followers"
  <2>1. /\ buttonOn' = FirstShown(OnList(listed), known)
        /\ UNCHANGED <<listed, offered, known, heard, buttonBusy, toggles>>
    BY <1>6 DEF ListFails
  <2>2. which = "Following" /\ buttonOn' = OnList(listed) \cap known
    BY <1>6, <2>1 DEF FirstShown, PeopleInv, PeopleTyped
  <2>3. PeopleTyped'
    BY <1>1, <2>1 DEF PeopleInv, PeopleTyped
  <2>4. ButtonsTyped'
    BY <2>1, <2>2 DEF PeopleInv, ButtonsTyped, OnList
  <2>5. ASSUME ~peopleCrossed', NoneGone' PROVE ButtonsRight'
    <3>1. ButtonsRight /\ NoneGone
      BY <1>4, <2>1, <2>5 DEF PeopleInv, NoneGone
    <3>2. OnList(listed)' = OnList(listed) /\ ~TakenAway'
      BY <1>1, <2>1 DEF OnList, TakenAway
    <3> QED
      BY <1>1, <2>1, <2>2, <3>1, <3>2 DEF ButtonsRight
  <2>6. ~peopleCrossed' => ButtonsRight'
    BY <2>5 DEF ButtonsRight
  <2> QED
    BY <1>3, <1>4, <2>3, <2>4, <2>6 DEF PeopleInv
<1> QED
  BY <1>5, <1>6

\* Of the steps of the buttons: the list stays.
LEMMA ListStays ==
    ASSUME PeopleInv, UNCHANGED peopleListVars
    PROVE  /\ LoadingLast' /\ (~peopleCrossed => LastOfRoute')
           /\ OnList(listed)' = OnList(listed) /\ TakenAway' = TakenAway
<1>1. UNCHANGED <<which, profile, listed, offered, peopleLoading, peopleError, lists, listsAsked>>
  BY DEF peopleListVars
<1> QED
  BY <1>1 DEF PeopleInv, LoadingLast, LastOfRoute, OnList, TakenAway

LEMMA ClickPersonStep == ASSUME PeopleInv, NEW p \in People, ClickPerson(p) PROVE PeopleInv'
<1>1. PICK t : t = [n |-> toggled + 1, who |-> p, mounted |-> TRUE, answer |-> "none"]
  OBVIOUS
<1>2. /\ ListShown /\ p \in OnList(listed) \ buttonBusy /\ toggled' = toggled + 1
      /\ toggles' = toggles \cup {t} /\ buttonBusy' = buttonBusy \cup {p}
      /\ UNCHANGED <<following, known, buttonOn, heard, peopleCrossed>>
      /\ UNCHANGED peopleListVars
      /\ UNCHANGED <<which, profile, listed, offered, peopleLoading, lists, listsAsked>>
  BY <1>1 DEF ClickPerson, peopleListVars
<1>3. /\ toggled \in Nat /\ toggled' \in Nat /\ toggled < toggled'
      /\ \A u \in toggles : u.n \in Nat /\ u.n <= toggled
  BY <1>2 DEF PeopleInv, PeopleTyped
<1>4. /\ t.n = toggled' /\ t.who = p /\ t.mounted /\ t.answer = "none" /\ t \in ToggleRecord
  BY <1>1, <1>2, <1>3 DEF ToggleRecord
<1>5. PeopleTyped'
  BY <1>2, <1>3, <1>4 DEF PeopleInv, PeopleTyped, ToggleRecord
<1>6. LoadingLast' /\ (~peopleCrossed => LastOfRoute')
      /\ OnList(listed)' = OnList(listed) /\ TakenAway' = TakenAway
  BY <1>2, ListStays
<1>7. ButtonsTyped'
  BY <1>2, <1>4, <1>6 DEF PeopleInv, ButtonsTyped
<1>8. ~TakenAway
  BY <1>2 DEF ListShown, TakenAway
<1>9. ASSUME ~peopleCrossed', NoneGone' PROVE ButtonsRight'
  <2>1. ButtonsRight /\ NoneGone
    BY <1>2, <1>9 DEF PeopleInv, NoneGone
  <2>2. \A u : u \in toggles' /\ u.answer # "none" <=> u \in toggles /\ u.answer # "none"
    BY <1>2, <1>4
  <2> QED
    BY <1>2, <1>6, <1>8, <2>1, <2>2 DEF ButtonsRight
<1>10. ~peopleCrossed' => ButtonsRight'
  BY <1>9 DEF ButtonsRight
<1> QED
  BY <1>2, <1>5, <1>6, <1>7, <1>10 DEF PeopleInv

LEMMA ServeFollowStep == ASSUME PeopleInv, NEW t \in toggles, ServeFollow(t) PROVE PeopleInv'
<1>1. PICK q : q = [t EXCEPT !.answer = IF t.who \in following' THEN "on" ELSE "off"]
  OBVIOUS
<1>2. /\ t.answer = "none" /\ toggles' = (toggles \ {t}) \cup {q}
      /\ following' = (IF t.who \in following THEN following \ {t.who}
                       ELSE following \cup {t.who})
      /\ peopleCrossed' = (peopleCrossed \/ ~t.mounted)
      /\ UNCHANGED <<known, buttonOn, buttonBusy, toggled, heard>>
      /\ UNCHANGED peopleListVars
      /\ UNCHANGED <<which, profile, listed, offered, peopleLoading, lists, listsAsked>>
  BY <1>1 DEF ServeFollow, peopleListVars
<1>3. t \in ToggleRecord /\ t.n <= toggled
  BY DEF PeopleInv, PeopleTyped, ToggleRecord
<1>4. /\ q \in ToggleRecord /\ q.n = t.n /\ q.who = t.who /\ (q.mounted <=> t.mounted)
      /\ q.answer # "none" /\ (q.answer = "on" <=> t.who \in following')
  BY <1>1, <1>3 DEF ToggleRecord
<1>5. following' \subseteq People
  BY <1>2, <1>3 DEF PeopleInv, PeopleTyped, ToggleRecord
<1>6. PeopleTyped'
  BY <1>2, <1>3, <1>4, <1>5 DEF PeopleInv, PeopleTyped, ToggleRecord
<1>7. LoadingLast' /\ (~peopleCrossed => LastOfRoute')
      /\ OnList(listed)' = OnList(listed) /\ TakenAway' = TakenAway
  BY <1>2, ListStays
<1>8. ButtonsTyped'
  BY <1>2, <1>4, <1>7 DEF PeopleInv, ButtonsTyped
<1>9. ASSUME ~peopleCrossed', NoneGone' PROVE ButtonsRight'
  <2>1. t.mounted /\ NoneGone /\ ButtonsRight
    BY <1>2, <1>9 DEF PeopleInv, NoneGone
  <2>2. ~TakenAway
    BY <2>1 DEF ButtonsRight
  <2>3. \A u \in toggles' : u.answer # "none" /\ u # q => u \in toggles /\ u.who # t.who
    BY <1>2, <2>1 DEF NoneGone, PeopleInv, ButtonsTyped
  <2>4. \A p : p # t.who => (p \in following' <=> p \in following)
    BY <1>2
  <2>5. \A u \in toggles' : u.answer # "none" => (u.answer = "on" <=> u.who \in following')
    BY <1>4, <2>1, <2>3, <2>4 DEF ButtonsRight
  <2>6. \A p : (\A u \in toggles' : u.who = p => u.answer = "none") =>
                  p # t.who /\ \A u \in toggles : u.who = p => u.answer = "none"
    BY <1>2, <1>4
  <2> QED
    BY <1>2, <1>7, <2>1, <2>2, <2>4, <2>5, <2>6 DEF ButtonsRight
<1>10. ~peopleCrossed' => ButtonsRight'
  BY <1>9 DEF ButtonsRight
<1> QED
  BY <1>2, <1>6, <1>7, <1>8, <1>10 DEF PeopleInv

LEMMA FollowAnsweredStep ==
    ASSUME PeopleInv, NEW t \in toggles, FollowAnswered(t) PROVE PeopleInv'
<1>1. /\ t.answer # "none" /\ toggles' = toggles \ {t}
      /\ IF t.mounted
         THEN buttonOn' = ShownBy(t) /\ buttonBusy' = buttonBusy \ {t.who}
              /\ heard' = heard \cup {t.who}
         ELSE UNCHANGED <<buttonOn, buttonBusy, heard>>
      /\ t.who \in OnList(listed) =>
            known' = IF t.answer = "on" THEN known \cup {t.who} ELSE known \ {t.who}
      /\ peopleCrossed' = (peopleCrossed \/ ~t.mounted)
      /\ UNCHANGED <<following, toggled>> /\ UNCHANGED peopleListVars
      /\ UNCHANGED <<which, profile, listed, offered, peopleLoading, lists, listsAsked>>
  BY DEF FollowAnswered, peopleListVars
<1>2. t.mounted => t.who \in buttonBusy /\ t.who \in OnList(listed)
  BY DEF PeopleInv, ButtonsTyped
<1>3. PeopleTyped'
  BY <1>1 DEF PeopleInv, PeopleTyped
<1>4. LoadingLast' /\ (~peopleCrossed => LastOfRoute')
      /\ OnList(listed)' = OnList(listed) /\ TakenAway' = TakenAway
  BY <1>1, ListStays
<1>5. ButtonsTyped'
  <2>1. buttonOn' \subseteq OnList(listed) /\ heard' \subseteq OnList(listed)
        /\ buttonBusy' \subseteq OnList(listed)
    BY <1>1, <1>2 DEF PeopleInv, ButtonsTyped, ShownBy
  <2>2. \A u \in toggles' : u.mounted => u.who \in buttonBusy'
    BY <1>1 DEF PeopleInv, ButtonsTyped
  <2>3. \A u, v \in toggles' : u.mounted /\ v.mounted /\ u.who = v.who => u = v
    BY <1>1 DEF PeopleInv, ButtonsTyped
  <2> QED
    BY <1>4, <2>1, <2>2, <2>3 DEF ButtonsTyped
<1>6. ASSUME ~peopleCrossed', NoneGone' PROVE ButtonsRight'
  <2>1. t.mounted /\ ~peopleCrossed
    BY <1>1, <1>6
  <2>2. NoneGone /\ ButtonsRight
    BY <1>1, <1>6, <2>1 DEF PeopleInv, NoneGone
  <2>3. ~TakenAway /\ (t.answer = "on" <=> t.who \in following)
    BY <1>1, <2>1, <2>2 DEF ButtonsRight
  <2>4. /\ t.who \in buttonOn' <=> t.who \in following
        /\ t.who \in known' <=> t.who \in following
        /\ t.who \in heard'
    BY <1>1, <1>2, <2>1, <2>3 DEF ShownBy
  <2>5. \A p : p # t.who => /\ p \in buttonOn' <=> p \in buttonOn
                            /\ p \in known' <=> p \in known
                            /\ p \in heard' <=> p \in heard
    BY <1>1, <1>2, <2>1 DEF ShownBy
  <2>6. \A p : p # t.who /\ (\A u \in toggles' : u.who = p => u.answer = "none") =>
                  \A u \in toggles : u.who = p => u.answer = "none"
    BY <1>1
  <2> QED
    BY <1>1, <1>4, <2>2, <2>3, <2>4, <2>5, <2>6 DEF ButtonsRight
<1>7. ~peopleCrossed' => ButtonsRight'
  BY <1>6 DEF ButtonsRight
<1> QED
  BY <1>1, <1>3, <1>4, <1>5, <1>7 DEF PeopleInv

LEMMA FollowFailsStep == ASSUME PeopleInv, NEW t \in toggles, FollowFails(t) PROVE PeopleInv'
<1>1. /\ toggles' = toggles \ {t}
      /\ buttonBusy' = (IF t.mounted THEN buttonBusy \ {t.who} ELSE buttonBusy)
      /\ peopleCrossed' = (peopleCrossed \/ t.answer # "none")
      /\ UNCHANGED <<following, known, buttonOn, toggled, heard>> /\ UNCHANGED peopleListVars
      /\ UNCHANGED <<which, profile, listed, offered, peopleLoading, lists, listsAsked>>
  BY DEF FollowFails, peopleListVars
<1>2. PeopleTyped'
  BY <1>1 DEF PeopleInv, PeopleTyped
<1>3. LoadingLast' /\ (~peopleCrossed => LastOfRoute')
      /\ OnList(listed)' = OnList(listed) /\ TakenAway' = TakenAway
  BY <1>1, ListStays
<1>4. ButtonsTyped'
  BY <1>1, <1>3 DEF PeopleInv, ButtonsTyped
<1>5. ASSUME ~peopleCrossed', NoneGone' PROVE ButtonsRight'
  <2>1. ~peopleCrossed /\ t.answer = "none"
    BY <1>1, <1>5
  <2>2. NoneGone /\ ButtonsRight
    BY <1>1, <1>5, <2>1 DEF PeopleInv, NoneGone
  <2>3. \A u : u \in toggles' /\ u.answer # "none" <=> u \in toggles /\ u.answer # "none"
    BY <1>1, <2>1
  <2> QED
    BY <1>1, <1>3, <2>2, <2>3 DEF ButtonsRight
<1>6. ~peopleCrossed' => ButtonsRight'
  BY <1>5 DEF ButtonsRight
<1> QED
  BY <1>1, <1>2, <1>3, <1>4, <1>6 DEF PeopleInv

LEMMA PeopleStep == PeopleInv /\ [PeopleNext]_peopleVars => PeopleInv'
<1> SUFFICES ASSUME PeopleInv, [PeopleNext]_peopleVars PROVE PeopleInv'
  OBVIOUS
<1>1. /\ listsAsked \in Nat /\ offered.page \in Nat /\ offered.page <= listsAsked
      /\ profile \in Profiles
  BY DEF PeopleInv, PeopleTyped
<1>2. ASSUME NEW a \in Profiles, ChangeProfile(a) PROVE PeopleInv'
  <2>1. At(a, 1).profile = a /\ At(a, 1).page = 1 /\ 1 <= listsAsked + 1
    BY <1>1 DEF At
  <2> QED
    BY <1>2, <2>1, PeopleAsks DEF ChangeProfile
<1>3. CASE LoadMore
  <2>1. PICK n : n = offered.page + 1
    OBVIOUS
  <2>2. /\ n \in Nat /\ n <= listsAsked + 1
        /\ At(profile, n).profile = profile /\ At(profile, n).page = n
    BY <1>1, <2>1 DEF At
  <2>3. FetchPeople(At(profile, n)) /\ profile' = profile
    BY <1>3, <2>1 DEF LoadMore
  <2> QED
    BY <1>1, <2>2, <2>3, PeopleAsks
<1>4. CASE RetryList
  <2>1. PICK n : n = IF offered.page = 0 THEN 1 ELSE offered.page
    OBVIOUS
  <2>2. /\ n \in Nat /\ n <= listsAsked + 1
        /\ At(profile, n).profile = profile /\ At(profile, n).page = n
    BY <1>1, <2>1 DEF At
  <2>3. FetchPeople(At(profile, n)) /\ profile' = profile
    BY <1>4, <2>1 DEF RetryList
  <2> QED
    BY <1>1, <2>2, <2>3, PeopleAsks
<1>5. CASE UNCHANGED peopleVars
  <2>1. /\ UNCHANGED peopleListVars
        /\ UNCHANGED <<following, known, buttonOn, buttonBusy, toggles, toggled, heard,
                       peopleCrossed, which, profile, listed, offered, lists, listsAsked>>
    BY <1>5 DEF peopleVars, peopleListVars
  <2>2. LoadingLast' /\ (~peopleCrossed => LastOfRoute')
        /\ OnList(listed)' = OnList(listed) /\ TakenAway' = TakenAway
    BY <2>1, ListStays
  <2>3. PeopleTyped'
    BY <2>1 DEF PeopleInv, PeopleTyped
  <2>4. ButtonsTyped'
    BY <2>1, <2>2 DEF PeopleInv, ButtonsTyped
  <2>5. ~peopleCrossed' => ButtonsRight'
    BY <2>1, <2>2 DEF PeopleInv, ButtonsRight, NoneGone
  <2> QED
    BY <2>1, <2>2, <2>3, <2>4, <2>5 DEF PeopleInv
<1> QED
  BY <1>2, <1>3, <1>4, <1>5, ListAnsweredStep, ListFailsStep, ClickPersonStep, ServeFollowStep,
     FollowAnsweredStep, FollowFailsStep DEF PeopleNext

\* When nothing is awaited any more the list is of the route's account and every button
\* that was clicked since it came shows whether the person is followed, unless an answer
\* came for another route, to a button that was gone, or was lost (Followers.js,
\* Following.js, FollowButton.js): for any lists and any number of requests and clicks.
THEOREM PeopleShownAsServer == PeopleSpec => []PeopleAsServer
<1>1. PeopleInit => PeopleInv
  <2> SUFFICES ASSUME PeopleInit PROVE PeopleInv
    OBVIOUS
  <2>1. PICK r : r = [n |-> 1, of |-> At(profile, 1)]
    OBVIOUS
  <2>2. /\ lists = {r} /\ listsAsked = 1 /\ toggles = {} /\ toggled = 0 /\ heard = {}
        /\ buttonOn = {} /\ buttonBusy = {} /\ known = {} /\ peopleLoading = TRUE
        /\ r.n = 1 /\ r.of.profile = profile /\ r.of.page = 1
        /\ listed.profile = profile /\ listed.page = 0
        /\ offered.profile = profile /\ offered.page = 0
        /\ profile \in Profiles /\ following \subseteq People
        /\ which \in {"Followers", "Following"}
    BY <2>1 DEF PeopleInit, At
  <2>3. PeopleTyped
    BY <2>2, PeopleAssumption DEF PeopleTyped
  <2>4. ButtonsTyped /\ LoadingLast
    BY <2>2 DEF ButtonsTyped, LoadingLast
  <2>5. LastOfRoute
    BY <2>2 DEF LastOfRoute
  <2>6. ButtonsRight
    BY <2>2 DEF ButtonsRight
  <2> QED
    BY <2>3, <2>4, <2>5, <2>6 DEF PeopleInv
<1>2. PeopleInv => PeopleAsServer
  <2> SUFFICES ASSUME PeopleInv, lists = {}, toggles = {}, ~peopleCrossed
      PROVE /\ ~peopleError => listed = offered /\ listed.profile = profile
            /\ \A p \in OnList(listed) : p \in buttonOn <=> p \in heard /\ p \in following
    BY DEF PeopleAsServer
  <2>1. ~peopleLoading /\ ~TakenAway
    BY DEF PeopleInv, LoadingLast, TakenAway
  <2>2. ~peopleError => listed = offered /\ listed.profile = profile
    BY DEF PeopleInv, LastOfRoute
  <2>3. \A p \in OnList(listed) : p \in buttonOn <=> p \in heard /\ p \in following
    BY <2>1 DEF PeopleInv, ButtonsRight, NoneGone
  <2> QED
    BY <2>2, <2>3
<1> QED
  BY <1>1, <1>2, PeopleStep, PTL DEF PeopleSpec

-----------------------------------------------------------------------------
(* DashboardPage.  While no request is over after a later one and nothing  *)
(* changes or fails, the last request is under way with what the server    *)
(* has, as far as it has been read, or what it has read is shown.          *)

ReadData == [fans : Count \cup {Unread}, total : Count \cup {Unread},
             recent : Count \cup {Unread}]

DashTyped ==
    /\ loads \subseteq [n : Nat, then : BOOLEAN, blank : BOOLEAN, read : ReadData]
    /\ fans \in Count /\ stories \in Count
    /\ loadsAsked \in Nat /\ newestLoad \in Nat /\ newestLoad <= loadsAsked
    /\ \A r \in loads : r.n <= loadsAsked /\ r.n # newestLoad
    /\ \A r, q \in loads : r.n = q.n => r = q

\* What a request has read is what the server has.
ReadAsServer(r) ==
    /\ r.read.fans \in {Unread, fans}
    /\ r.read.total \in {Unread, stories}
    /\ r.read.recent \in {Unread, stories}

DashFresh ==
    ~overtaken /\ ~changed /\ ~dashError =>
        \/ \E r \in loads : r.n = loadsAsked /\ ReadAsServer(r)
        \/ newestLoad = loadsAsked /\ dashboard = Shown(fans, stories, stories)

DashInv == DashTyped /\ DashFresh

\* A request that is made: it is the last, and nothing has been read or changed since.
LEMMA DashAsks ==
    ASSUME DashInv, NEW rest \in SUBSET loads, NEW then \in BOOLEAN,
           FetchDashboard(rest, then), UNCHANGED dashServerVars,
           newestLoad' \in Nat, newestLoad' <= loadsAsked,
           \A q \in rest : q.n # newestLoad'
    PROVE  DashInv'
<1>0. PICK r : r = Request(loadsAsked + 1, then, dashboard' = Blank)
  OBVIOUS
<1>1. /\ loadsAsked \in Nat /\ loadsAsked' = loadsAsked + 1
      /\ loads' = rest \cup {r} /\ UNCHANGED <<fans, stories>>
  BY <1>0 DEF FetchDashboard, DashInv, DashTyped, dashServerVars
<1>2. r.n = loadsAsked' /\ r.read = Blank
  BY <1>0, <1>1 DEF Request
<1>3. r \in [n : Nat, then : BOOLEAN, blank : BOOLEAN, read : ReadData]
  <2>1. (dashboard' = Blank) \in BOOLEAN /\ loadsAsked + 1 \in Nat
    BY <1>1
  <2>2. Blank \in ReadData
    BY DEF Blank, Shown, ReadData
  <2> QED
    BY <1>0, <2>1, <2>2 DEF Request
<1>4. ReadAsServer(r)'
  BY <1>2 DEF ReadAsServer, Blank, Shown
<1>5. \A q \in rest : q.n <= loadsAsked /\ q.n \in Nat
  BY DEF DashInv, DashTyped
<1>6. DashTyped'
  BY <1>1, <1>2, <1>3, <1>5 DEF DashInv, DashTyped
<1>7. DashFresh'
  BY <1>1, <1>2, <1>4 DEF DashFresh
<1> QED
  BY <1>6, <1>7 DEF DashInv

\* A step of the server for a request: it reads what there is.
LEMMA DashReads ==
    ASSUME DashInv, NEW r \in loads,
           NEW data \in ReadData,
           Reads(r, data),
           data.fans \in {r.read.fans, fans}, data.total \in {r.read.total, stories},
           data.recent \in {r.read.recent, stories}
    PROVE  DashInv'
<1> DEFINE q == [r EXCEPT !.read = data]
<1>1. /\ loads' = (loads \ {r}) \cup {q}
      /\ UNCHANGED <<fans, stories, dashboard, dashError, loadsAsked, changed, newestLoad,
                     overtaken>>
  BY DEF Reads, dashServerVars
<1>2. r \in [n : Nat, then : BOOLEAN, blank : BOOLEAN, read : ReadData]
  BY DEF DashInv, DashTyped
<1>3. /\ q \in [n : Nat, then : BOOLEAN, blank : BOOLEAN, read : ReadData]
      /\ q.n = r.n /\ q.read = data
  BY <1>2
<1> HIDE DEF q
<1>4. DashTyped'
  BY <1>1, <1>3 DEF DashInv, DashTyped
<1>5. ReadAsServer(r) => ReadAsServer(q)'
  BY <1>1, <1>3 DEF ReadAsServer
<1>6. \A x \in loads \ {r} : ReadAsServer(x) => ReadAsServer(x)'
  BY <1>1 DEF ReadAsServer
<1>7. DashFresh'
  BY <1>1, <1>3, <1>5, <1>6 DEF DashInv, DashFresh
<1> QED
  BY <1>4, <1>7 DEF DashInv

\* A request that is over, with its data or without.
LEMMA DashOver ==
    ASSUME DashInv, NEW r \in loads, NEW failed \in BOOLEAN, Over(r), GoesOn(r, failed),
           ~failed => /\ dashboard' = r.read
                      /\ Unread \notin {r.read.fans, r.read.total, r.read.recent}
    PROVE  DashInv'
<1>1. /\ newestLoad' = (IF r.n > newestLoad THEN r.n ELSE newestLoad)
      /\ overtaken' = (overtaken \/ r.n < newestLoad) /\ UNCHANGED dashServerVars
      /\ UNCHANGED <<fans, stories>>
  BY DEF Over, dashServerVars
<1>2. r.read \in ReadData /\ r.n \in Nat /\ r.n <= loadsAsked
  BY DEF DashInv, DashTyped
<1>3. newestLoad' \in Nat /\ newestLoad' <= loadsAsked /\ newestLoad <= newestLoad'
      /\ r.n <= newestLoad'
  BY <1>1, <1>2 DEF DashInv, DashTyped
<1>6. \A q \in loads \ {r} : q.n # newestLoad'
  BY <1>1, <1>2 DEF DashInv, DashTyped
<1>4. CASE r.then /\ refreshAsked
  <2>1. FetchDashboard(loads \ {r}, FALSE)
    BY <1>4 DEF GoesOn
  <2> QED
    BY <1>1, <1>3, <1>6, <2>1, DashAsks
<1>5. CASE ~(r.then /\ refreshAsked)
  <2>1. /\ loads' = loads \ {r} /\ dashError' = (dashError \/ failed)
        /\ UNCHANGED <<loadsAsked, changed>>
    BY <1>5 DEF GoesOn
  <2>2. DashTyped'
    BY <1>1, <1>3, <1>6, <2>1 DEF DashInv, DashTyped
  <2>3. ASSUME ~overtaken', ~changed', ~dashError'
        PROVE  \/ \E q \in loads' : q.n = loadsAsked' /\ ReadAsServer(q)'
               \/ newestLoad' = loadsAsked' /\ dashboard' = Shown(fans', stories', stories')
    <3>1. ~overtaken /\ ~changed /\ ~dashError /\ ~failed /\ ~(r.n < newestLoad)
      BY <1>1, <2>1, <2>3
    <3>2. CASE \E q \in loads : q.n = loadsAsked /\ ReadAsServer(q)
      <4>1. PICK q \in loads : q.n = loadsAsked /\ ReadAsServer(q)
        BY <3>2
      <4>2. CASE q # r
        BY <1>1, <2>1, <4>1, <4>2 DEF ReadAsServer
      <4>3. CASE q = r
        <5>1. newestLoad' = loadsAsked'
          BY <1>2, <1>3, <2>1, <4>1, <4>3 DEF DashInv, DashTyped
        <5>2. r.read = Shown(fans, stories, stories)
          <6>1. r.read.fans = fans /\ r.read.total = stories /\ r.read.recent = stories
            BY <3>1, <4>1, <4>3 DEF ReadAsServer
          <6> QED
            BY <1>2, <6>1 DEF Shown, ReadData
        <5> QED
          BY <1>1, <3>1, <5>1, <5>2
      <4> QED
        BY <4>2, <4>3
    <3>3. CASE newestLoad = loadsAsked /\ ~\E q \in loads : q.n = loadsAsked /\ ReadAsServer(q)
      <4>1. r.n = loadsAsked
        BY <1>2, <3>1, <3>3 DEF DashInv, DashTyped
      <4> QED
        BY <1>2, <3>1, <3>3, <4>1 DEF DashInv, DashTyped
    <3> QED
      BY <3>1, <3>2, <3>3 DEF DashInv, DashFresh
  <2>4. DashFresh'
    BY <2>3 DEF DashFresh, ReadAsServer, Shown
  <2> QED
    BY <2>2, <2>4 DEF DashInv
<1> QED
  BY <1>4, <1>5

LEMMA DashStep == DashInv /\ [DashboardNext]_dashVars => DashInv'
<1> SUFFICES ASSUME DashInv, [DashboardNext]_dashVars PROVE DashInv'
  OBVIOUS
<1>1. newestLoad \in Nat /\ newestLoad <= loadsAsked /\ \A r \in loads : r.n # newestLoad
  BY DEF DashInv, DashTyped
<1>2. CASE ClickRefresh
  <2>1. FetchDashboard(loads, FALSE) /\ UNCHANGED dashServerVars /\ newestLoad' = newestLoad
    BY <1>2 DEF ClickRefresh
  <2>2. /\ newestLoad' \in Nat /\ newestLoad' <= loadsAsked
        /\ \A q \in loads : q.n # newestLoad'
    BY <1>1, <2>1
  <2> QED
    BY <2>1, <2>2, DashAsks
<1>3. CASE TimerLeadsHere
  <2>1. UNCHANGED <<dashServerVars, dashboard, newestLoad, overtaken>>
    BY <1>3 DEF TimerLeadsHere
  <2>2. CASE refreshAsked
    <3>1. UNCHANGED <<fans, stories, dashError, loads, loadsAsked, changed>>
      BY <1>3, <2>1, <2>2 DEF TimerLeadsHere, dashServerVars
    <3> QED
      BY <2>1, <3>1 DEF DashInv, DashTyped, DashFresh, ReadAsServer
  <2>3. CASE ~refreshAsked
    <3>1. FetchDashboard(loads, TRUE)
      BY <1>3, <2>3 DEF TimerLeadsHere
    <3> QED
      BY <1>1, <2>1, <3>1, DashAsks
  <2> QED
    BY <2>2, <2>3
<1>4. CASE AccountChanges
  BY <1>4 DEF AccountChanges, DashInv, DashTyped, DashFresh
<1>5. ASSUME NEW r \in loads, ReadAccount(r) \/ CountStories(r) \/ FindRecent(r)
      PROVE  DashInv'
  <2>1. /\ r.read \in ReadData
        /\ fans \in Count /\ stories \in Count
    BY DEF DashInv, DashTyped
  <2>2. CASE ReadAccount(r)
    <3> DEFINE data == [r.read EXCEPT !.fans = fans]
    <3>1. /\ data \in ReadData
          /\ data.fans = fans /\ data.total = r.read.total /\ data.recent = r.read.recent
      BY <2>1 DEF ReadData
    <3>2. Reads(r, data)
      BY <2>2 DEF ReadAccount
    <3> HIDE DEF data
    <3> QED
      BY <3>1, <3>2, DashReads
  <2>3. CASE CountStories(r)
    <3> DEFINE data == [r.read EXCEPT !.total = stories]
    <3>1. /\ data \in ReadData
          /\ data.fans = r.read.fans /\ data.total = stories /\ data.recent = r.read.recent
      BY <2>1 DEF ReadData
    <3>2. Reads(r, data)
      BY <2>3 DEF CountStories
    <3> HIDE DEF data
    <3> QED
      BY <3>1, <3>2, DashReads
  <2>4. CASE FindRecent(r)
    <3> DEFINE data == [r.read EXCEPT !.recent = stories]
    <3>1. /\ data \in ReadData
          /\ data.fans = r.read.fans /\ data.total = r.read.total /\ data.recent = stories
      BY <2>1 DEF ReadData
    <3>2. Reads(r, data)
      BY <2>4 DEF FindRecent
    <3> HIDE DEF data
    <3> QED
      BY <3>1, <3>2, DashReads
  <2> QED
    BY <1>5, <2>2, <2>3, <2>4
<1>6. ASSUME NEW r \in loads, DashboardLoaded(r) PROVE DashInv'
  <2>1. /\ Over(r) /\ GoesOn(r, FALSE) /\ dashboard' = r.read
        /\ Unread \notin {r.read.fans, r.read.total, r.read.recent}
    BY <1>6 DEF DashboardLoaded, ShownAfter
  <2> QED
    BY <2>1, DashOver
<1>7. ASSUME NEW r \in loads, DashboardFails(r) PROVE DashInv'
  BY <1>7, DashOver DEF DashboardFails
<1>8. CASE UNCHANGED dashVars
  BY <1>8 DEF dashVars, DashInv, DashTyped, DashFresh, ReadAsServer
<1> QED
  BY <1>2, <1>3, <1>4, <1>5, <1>6, <1>7, <1>8 DEF DashboardNext

\* When nothing is awaited any more, and nothing has changed since the last request, the
\* dashboard shows what the server has, all of one time (Dashboard.js, getUserDashboard):
\* for any number of requests and timers, however the server's reads and the answers
\* interleave.
THEOREM DashboardShowsServer == DashboardSpec => []DashboardAsServer
<1>1. DashboardInit => DashInv
  <2> SUFFICES ASSUME DashboardInit PROVE DashInv
    OBVIOUS
  <2>1. fans \in Count /\ stories \in Count
    BY DashboardAssumption DEF DashboardInit, Count
  <2>2. PICK r : r = Request(1, refreshAsked, TRUE)
    OBVIOUS
  <2>3. r.n = 1 /\ r.read = Blank
    BY <2>2 DEF Request
  <2>4. Blank \in ReadData
    BY DEF Blank, Shown, ReadData
  <2>5. r \in [n : Nat, then : BOOLEAN, blank : BOOLEAN, read : ReadData]
    BY <2>2, <2>4 DEF Request, DashboardInit
  <2>6. ReadAsServer(r)
    BY <2>3 DEF ReadAsServer, Blank, Shown
  <2>7. loads = {r} /\ loadsAsked = 1 /\ newestLoad = 0
    BY <2>2 DEF DashboardInit
  <2>8. DashTyped
    BY <2>1, <2>3, <2>5, <2>7 DEF DashTyped
  <2>9. DashFresh
    BY <2>3, <2>6, <2>7 DEF DashFresh
  <2> QED
    BY <2>8, <2>9 DEF DashInv
<1>2. DashInv => DashboardAsServer
  BY DEF DashInv, DashFresh, DashboardAsServer
<1> QED
  BY <1>1, <1>2, DashStep, PTL DEF DashboardSpec

-----------------------------------------------------------------------------
(* Views.  As long as the cap has not dropped its entry, a key's entry     *)
(* says at least as many as have been counted since the last pause, in     *)
(* whatever order entries grow old, are swept and are set again.           *)

TableTyped ==
    /\ DOMAIN entries \subseteq Keys
    /\ entries \in [DOMAIN entries -> Entry]
    /\ counted \in [Keys -> Nat]

CountedRemembered == \A k \in Keys \ evicted : counted[k] <= CountOf(k)

TableInv == TableTyped /\ CountedRemembered

LEMMA CountOfType ==
    ASSUME TableTyped, NEW k
    PROVE  CountOf(k) \in Nat /\ CountOf(k) <= MaxPerWindow
<1>1. MaxPerWindow \in Nat
  BY ThrottleAssumption
<1>2. CASE k \in DOMAIN entries
  <2>1. entries[k].count \in 1 .. MaxPerWindow
    BY <1>2 DEF TableTyped, Entry
  <2> QED
    BY <1>1, <2>1 DEF CountOf
<1>3. CASE k \notin DOMAIN entries
  BY <1>1, <1>3 DEF CountOf
<1> QED
  BY <1>2, <1>3

LEMMA TableInit == ThrottleInit => TableInv
<1> SUFFICES ASSUME ThrottleInit PROVE TableInv
  OBVIOUS
<1>1. entries = [k \in {} |-> {}] /\ counted = [k \in Keys |-> 0]
  BY DEF ThrottleInit
<1>2. DOMAIN entries = {} /\ entries \in [{} -> Entry]
  BY <1>1
<1>3. TableTyped
  BY <1>1, <1>2 DEF TableTyped
<1>4. \A k : CountOf(k) = 0
  BY <1>2 DEF CountOf
<1>5. CountedRemembered
  BY <1>1, <1>4 DEF CountedRemembered
<1> QED
  BY <1>3, <1>5 DEF TableInv

\* A view is counted: its entry says one more, and whatever entry a sweep drops was stale or
\* is known to have been evicted.
LEMMA CountedKeeps ==
    ASSUME TableInv, NEW k \in Keys, ViewCounted(k)
    PROVE  TableInv'
<1>1. PICK n : n = CountOf(k) + 1
  OBVIOUS
<1>2. PICK e : e = [count |-> n, age |-> "now"]
  OBVIOUS
<1>3. PICK table : table = SetEntry(k, e)
  OBVIOUS
<1>4. CountOf(k) \in Nat /\ CountOf(k) < MaxPerWindow /\ MaxPerWindow \in Nat
  BY CountOfType, ThrottleAssumption DEF TableInv, ViewCounted, MayCount
<1>5. n \in 1 .. MaxPerWindow /\ e \in Entry
  BY <1>1, <1>2, <1>4 DEF Entry, Ages
<1>6. /\ DOMAIN table = DOMAIN entries \cup {k} /\ DOMAIN table \subseteq Keys
      /\ table \in [DOMAIN table -> Entry]
      /\ table[k] = e /\ \A j \in DOMAIN entries \ {k} : table[j] = entries[j]
  BY <1>3, <1>5 DEF SetEntry, TableInv, TableTyped
<1>7. RecordView(k, e)
  BY <1>1, <1>2, <1>4 DEF ViewCounted
<1>8. PICK S \in SUBSET DOMAIN table :
         /\ entries' = [j \in S |-> table[j]]
         /\ evicted \subseteq evicted'
         /\ \A j \in Live(table) \ S : j \in evicted'
  <2>1. PICK kept : kept = Kept(table, Placed(k))
    OBVIOUS
  <2>2. kept \subseteq Live(table) /\ Live(table) \subseteq DOMAIN table
    BY <2>1 DEF Kept, Live
  <2>3. CASE writes + 1 >= SweepInterval
    <3>1. /\ entries' = Restrict(table, kept)
          /\ evicted' = evicted \cup (Live(table) \ kept)
      BY <1>3, <1>7, <2>1, <2>3 DEF RecordView
    <3>2. entries' = [j \in kept |-> table[j]]
      BY <3>1 DEF Restrict
    <3> QED
      BY <2>2, <3>1, <3>2
  <2>4. CASE ~(writes + 1 >= SweepInterval)
    <3>1. entries' = table /\ evicted' = evicted
      BY <1>3, <1>7, <2>4 DEF RecordView
    <3>2. table = [j \in DOMAIN table |-> table[j]]
      BY <1>6
    <3> QED
      BY <2>2, <3>1, <3>2
  <2> QED
    BY <2>3, <2>4
<1>9. /\ DOMAIN entries' = S /\ DOMAIN entries' \subseteq Keys
      /\ entries' \in [DOMAIN entries' -> Entry]
  BY <1>6, <1>8
<1>10. /\ counted \in [Keys -> Nat] /\ counted' \in [Keys -> Nat]
       /\ \A j \in Keys \ {k} : counted'[j] = counted[j]
       /\ counted'[k] <= counted[k] + 1
  <2>1. counted \in [Keys -> Nat] /\ counted[k] \in Nat
    BY DEF TableInv, TableTyped
  <2>2. counted' = [counted EXCEPT ![k] = IF @ > MaxPerWindow THEN @ ELSE @ + 1]
    BY DEF ViewCounted
  <2>3. PICK c \in Nat : c <= counted[k] + 1 /\ counted' = [counted EXCEPT ![k] = c]
    <3>1. CASE counted[k] > MaxPerWindow
      <4>1. PICK c \in Nat : c = counted[k]
        BY <2>1
      <4>2. counted' = [counted EXCEPT ![k] = c]
        BY <2>2, <3>1, <4>1
      <4>3. c <= counted[k] + 1
        BY <4>1
      <4> QED
        BY <4>2, <4>3
    <3>2. CASE ~(counted[k] > MaxPerWindow)
      <4>1. PICK c \in Nat : c = counted[k] + 1
        BY <2>1
      <4>2. counted' = [counted EXCEPT ![k] = c]
        BY <2>2, <3>2, <4>1
      <4>3. c <= counted[k] + 1
        BY <4>1
      <4> QED
        BY <4>2, <4>3
    <3> QED
      BY <3>1, <3>2
  <2> QED
    BY <2>1, <2>3
<1>11. CountedRemembered'
  <2> SUFFICES ASSUME NEW j \in Keys \ evicted' PROVE counted'[j] <= CountOf(j)'
    BY DEF CountedRemembered
  <2>1. counted[j] <= CountOf(j) /\ CountOf(j) \in Nat /\ counted[j] \in Nat
    BY <1>8, <1>10, CountOfType DEF TableInv, CountedRemembered
  <2>2. CASE j = k
    <3>1. k \in Live(table) /\ k \in S
      BY <1>2, <1>6, <1>8, <2>2 DEF Live
    <3>2. CountOf(k)' = n
      <4>1. entries'[k] = e /\ k \in DOMAIN entries'
        BY <1>6, <1>8, <1>9, <3>1
      <4>2. e.age # "stale" /\ e.count = n
        BY <1>2
      <4> QED
        BY <4>1, <4>2 DEF CountOf
    <3>3. counted'[k] <= counted[k] + 1 /\ counted'[k] \in Nat
      BY <1>10
    <3> QED
      BY <1>1, <2>1, <2>2, <3>2, <3>3
  <2>3. CASE j # k
    <3>1. counted'[j] = counted[j]
      BY <1>10, <2>3
    <3>2. CASE j \in DOMAIN entries /\ entries[j].age # "stale"
      <4>1. j \in S /\ table[j] = entries[j]
        BY <1>6, <1>8, <2>3, <3>2 DEF Live
      <4>2. entries'[j] = entries[j] /\ j \in DOMAIN entries'
        BY <1>8, <1>9, <4>1
      <4>3. CountOf(j)' = CountOf(j)
        BY <3>2, <4>2 DEF CountOf
      <4> QED
        BY <2>1, <3>1, <4>3
    <3>3. CASE ~(j \in DOMAIN entries /\ entries[j].age # "stale")
      <4>1. CountOf(j) = 0
        BY <3>3 DEF CountOf
      <4>2. TableTyped'
        BY <1>9, <1>10 DEF TableTyped
      <4>3. CountOf(j)' \in Nat
        <5>1. j \in DOMAIN entries' => entries'[j].count \in Nat
          BY <4>2, ThrottleAssumption DEF TableTyped, Entry
        <5> QED
          BY <5>1 DEF CountOf
      <4> QED
        BY <2>1, <3>1, <4>1, <4>3
    <3> QED
      BY <3>2, <3>3
  <2> QED
    BY <2>2, <2>3
<1> QED
  BY <1>9, <1>10, <1>11 DEF TableInv, TableTyped

\* Time passes: entries of the keys K grow stale, and nothing is counted for those any more;
\* the others say what they did.
LEMMA TimeKeeps ==
    ASSUME TableInv, NEW K \in SUBSET Keys,
           DOMAIN entries' = DOMAIN entries, entries' \in [DOMAIN entries -> Entry],
           \A k \in DOMAIN entries \ K : /\ entries'[k].count = entries[k].count
                                         /\ entries'[k].age = "stale" => entries[k].age = "stale",
           counted' = [k \in Keys |-> IF k \in K THEN 0 ELSE counted[k]],
           evicted' = evicted \ K
    PROVE  TableInv'
<1>1. TableTyped'
  BY DEF TableInv, TableTyped
<1>2. CountedRemembered'
  <2> SUFFICES ASSUME NEW k \in Keys \ evicted' PROVE counted'[k] <= CountOf(k)'
    BY DEF CountedRemembered
  <2>1. CountOf(k)' \in Nat
    <3>1. k \in DOMAIN entries' => entries'[k].count \in Nat
      BY <1>1, ThrottleAssumption DEF TableTyped, Entry
    <3> QED
      BY <3>1 DEF CountOf
  <2>2. CASE k \in K
    BY <2>1, <2>2
  <2>3. CASE k \notin K
    <3>1. counted[k] <= CountOf(k) /\ counted'[k] = counted[k] /\ counted[k] \in Nat
      BY <2>3 DEF TableInv, CountedRemembered, TableTyped
    <3>2. CASE k \in DOMAIN entries /\ entries[k].age # "stale"
      <4>1. CountOf(k)' = CountOf(k)
        BY <2>3, <3>2 DEF CountOf
      <4> QED
        BY <3>1, <4>1
    <3>3. CASE ~(k \in DOMAIN entries /\ entries[k].age # "stale")
      <4>1. CountOf(k) = 0
        BY <3>3 DEF CountOf
      <4> QED
        BY <2>1, <3>1, <4>1
    <3> QED
      BY <3>2, <3>3
  <2> QED
    BY <2>2, <2>3
<1> QED
  BY <1>1, <1>2 DEF TableInv

LEMMA TableStep == TableInv /\ [ThrottleNext]_throttleVars => TableInv'
<1> SUFFICES ASSUME TableInv, [ThrottleNext]_throttleVars PROVE TableInv'
  OBVIOUS
<1>0. entries \in [DOMAIN entries -> Entry] /\ counted \in [Keys -> Nat]
  BY DEF TableInv, TableTyped
<1>1. CASE SecondsPass
  <2>1. entries' = [k \in DOMAIN entries |->
                       [entries[k] EXCEPT !.age = IF @ = "now" THEN "recent" ELSE @]]
    BY <1>1 DEF SecondsPass
  <2>2. ASSUME NEW k \in DOMAIN entries
        PROVE  /\ entries'[k] \in Entry /\ entries'[k].count = entries[k].count
               /\ entries'[k].age = "stale" => entries[k].age = "stale"
    BY <1>0, <2>1 DEF Entry, Ages
  <2>3. DOMAIN entries' = DOMAIN entries /\ entries' \in [DOMAIN entries -> Entry]
    <3>1. DOMAIN entries' = DOMAIN entries /\ entries' = [k \in DOMAIN entries |-> entries'[k]]
      BY <2>1
    <3> QED
      BY <2>2, <3>1
  <2>4. evicted' = evicted \ {} /\ counted' = [k \in Keys |-> IF k \in {} THEN 0 ELSE counted[k]]
    BY <1>0, <1>1 DEF SecondsPass
  <2>5. {} \in SUBSET Keys
    OBVIOUS
  <2> QED
    BY <2>2, <2>3, <2>4, <2>5, TimeKeeps
<1>2. ASSUME NEW K \in SUBSET Keys, HourPasses(K) PROVE TableInv'
  <2>1. entries' = [k \in DOMAIN entries |->
                       IF k \in K THEN [entries[k] EXCEPT !.age = "stale"] ELSE entries[k]]
    BY <1>2 DEF HourPasses
  <2>2. ASSUME NEW k \in DOMAIN entries
        PROVE  entries'[k] \in Entry /\ (k \notin K => entries'[k] = entries[k])
    BY <1>0, <2>1 DEF Entry, Ages
  <2>3. DOMAIN entries' = DOMAIN entries /\ entries' \in [DOMAIN entries -> Entry]
    <3>1. DOMAIN entries' = DOMAIN entries /\ entries' = [k \in DOMAIN entries |-> entries'[k]]
      BY <2>1
    <3> QED
      BY <2>2, <3>1
  <2>4. evicted' = evicted \ K /\ counted' = [k \in Keys |-> IF k \in K THEN 0 ELSE counted[k]]
    BY <1>2 DEF HourPasses
  <2> QED
    BY <2>2, <2>3, <2>4, TimeKeeps
<1>3. CASE UNCHANGED throttleVars
  <2>1. UNCHANGED <<entries, counted, evicted>>
    BY <1>3 DEF throttleVars
  <2> QED
    BY <2>1 DEF TableInv, TableTyped, CountedRemembered, CountOf
<1> QED
  BY <1>1, <1>2, <1>3, CountedKeeps DEF ThrottleNext

\* Between two pauses of an hour no more views of a story are counted for a viewer than the
\* code allows, unless the cap has dropped the entry, for any number of both.
THEOREM FewViewsPerWindow == ThrottleSpec => []FewPerWindow
<1>1. TableInv => FewPerWindow
  <2> SUFFICES ASSUME TableInv, NEW k \in Keys \ evicted PROVE counted[k] <= MaxPerWindow
    BY DEF FewPerWindow
  <2>1. counted[k] <= CountOf(k) /\ counted[k] \in Nat
    BY DEF TableInv, CountedRemembered, TableTyped
  <2>2. CountOf(k) \in Nat /\ CountOf(k) <= MaxPerWindow /\ MaxPerWindow \in Nat
    BY CountOfType, ThrottleAssumption DEF TableInv
  <2> QED
    BY <2>1, <2>2
<1> QED
  BY <1>1, TableInit, TableStep, PTL DEF ThrottleSpec

-----------------------------------------------------------------------------
(* The application.                                                        *)

\* A behaviour of the application is one of each of its parts: the parts share no state.
LEMMA PartsOfPages ==
    PagesSpec => /\ BrowseSpec /\ HomeSpec /\ StoryPageSpec /\ EditorSpec /\ StartChatSpec
                 /\ ThrottleSpec /\ PeopleSpec /\ DashboardSpec
<1>1. PagesInit => /\ BrowseInit /\ HomeInit /\ StoryPageInit /\ EditorInit /\ StartChatInit
                   /\ ThrottleInit /\ PeopleInit /\ DashboardInit
  BY DEF PagesInit
<1>2. ASSUME [PagesNext]_pagesVars
      PROVE  /\ [BrowseNext]_browseVars /\ [HomeNext]_homeVars
             /\ [StoryPageNext]_storyPageVars /\ [EditorNext]_editorVars
             /\ [StartChatNext]_startChatVars /\ [ThrottleNext]_throttleVars
             /\ [PeopleNext]_peopleVars /\ [DashboardNext]_dashVars
  <2>1. CASE InBrowse
    BY <2>1 DEF InBrowse
  <2>2. CASE InHome
    BY <2>2 DEF InHome
  <2>3. CASE InStory
    BY <2>3 DEF InStory
  <2>4. CASE InEditor
    BY <2>4 DEF InEditor
  <2>5. CASE InChat
    BY <2>5 DEF InChat
  <2>6. CASE InViews
    BY <2>6 DEF InViews
  <2>7. CASE InPeople
    BY <2>7 DEF InPeople
  <2>8. CASE InDashboard
    BY <2>8 DEF InDashboard
  <2>9. CASE UNCHANGED pagesVars
    BY <2>9 DEF pagesVars
  <2> QED
    BY <1>2, <2>1, <2>2, <2>3, <2>4, <2>5, <2>6, <2>7, <2>8, <2>9 DEF PagesNext
<1> QED
  BY <1>1, <1>2, PTL DEF PagesSpec, BrowseSpec, HomeSpec, StoryPageSpec, EditorSpec,
     StartChatSpec, ThrottleSpec, PeopleSpec, DashboardSpec

\* Whichever page is open, in the application every page keeps what its part promises.
THEOREM PagesAsServer ==
    PagesSpec => /\ []PageInRange /\ []HomeAsServer /\ []StoryAsServer /\ []SavedOnce
                 /\ []KeptUntilSaved /\ []OneChatPerPair /\ []FewPerWindow
                 /\ []PeopleAsServer /\ []DashboardAsServer
BY PartsOfPages, PagesInRange, HomeShownAsServer, StoryShownAsServer, SavedOnceForGood,
   TextKeptUntilSaved, OneChatUnlessRaced, FewViewsPerWindow, PeopleShownAsServer, DashboardShowsServer

=============================================================================
