----------------------------- MODULE EditorPage -----------------------------
(***************************************************************************)
(* Writing a story: the form of frontend/src/pages/CreateStory.js, its     *)
(* draft and publish buttons, the AI dialog that fills it, and the timer   *)
(* that goes to the dashboard two seconds after a story was saved.         *)
(*                                                                         *)
(* A text is told by a number, a new one for every change of the form by   *)
(* the user or the AI; 0 is the empty form.  Complete says that it may be  *)
(* published: title and content long enough, the lists chosen, a tag.      *)
(* createStory saves in one step here; Stories has its counters.           *)
(***************************************************************************)
EXTENDS Naturals, FiniteSets

CONSTANTS
    MaxTexts,   \* bound on the texts
    MaxSaves,   \* bound on the POSTs of stories
    MaxPrompts, \* bound on the AI's
    MaxOpenings \* bound on how often the page is opened

ASSUME EditorAssumption ==
    {MaxTexts, MaxSaves, MaxPrompts, MaxOpenings} \subseteq Nat

VARIABLES
    saved,      \* POSTs that have saved a story: n, text and whether it is a draft
    \* The page.
    openings,
    writing,    \* is it open
    form,       \* the text in the form, 0 when it is empty
    complete,   \* it may be published
    saving,     \* loading
    prompting,  \* aiLoading
    \* Requests in flight, with the opening of the page they belong to.
    saves,
    saveCount,
    prompts,
    promptCount,
    leaving,    \* timers that will go to the dashboard
    \* History.
    texts,      \* how many there have been
    current,    \* the last text of this opening
    meanwhile,  \* in this opening, the form changed while a POST of its was awaited,
                \* or was changed by the user while the AI's was
    lostSaves   \* texts whose POST was executed and not answered

editorVars == <<saved, openings, writing, form, complete, saving, prompting, saves, saveCount,
                prompts, promptCount, leaving, texts, current, meanwhile, lostSaves>>
editorHistoryVars == <<current, meanwhile>>

Save == [n : 1 .. MaxSaves, text : 0 .. MaxTexts, draft : BOOLEAN, opening : 1 .. MaxOpenings,
         state : {"sent", "saved", "refused"}]

EditorTypeOK ==
    /\ saved \subseteq [n : 1 .. MaxSaves, text : 0 .. MaxTexts, draft : BOOLEAN]
    /\ saves \subseteq Save
    /\ prompts \subseteq [n : 1 .. MaxPrompts, opening : 1 .. MaxOpenings]
    /\ {writing, complete, saving, prompting, meanwhile} \subseteq BOOLEAN
    /\ form \in 0 .. texts /\ current \in 0 .. texts /\ texts \in 0 .. MaxTexts
    /\ openings \in 0 .. MaxOpenings /\ leaving \in 0 .. MaxSaves
    /\ lostSaves \subseteq 1 .. MaxTexts

EditorInit ==
    /\ saved = {} /\ openings = 0 /\ writing = FALSE
    /\ form = 0 /\ complete = FALSE /\ saving = FALSE /\ prompting = FALSE
    /\ saves = {} /\ saveCount = 0 /\ prompts = {} /\ promptCount = 0 /\ leaving = 0
    /\ texts = 0 /\ current = 0 /\ meanwhile = FALSE /\ lostSaves = {}

-----------------------------------------------------------------------------
(* The page and its form.                                                  *)

\* The route leads to the page: its state is new.
OpenEditor ==
    /\ ~writing /\ openings < MaxOpenings
    /\ openings' = openings + 1 /\ writing' = TRUE
    /\ form' = 0 /\ complete' = FALSE /\ saving' = FALSE /\ prompting' = FALSE
    /\ current' = 0 /\ meanwhile' = FALSE
    /\ UNCHANGED <<saved, saves, saveCount, prompts, promptCount, leaving, texts, lostSaves>>

\* It is left, by the user or by a timer, this opening's or an earlier one's: nothing
\* clears it.  Requests go on, their answers are for nobody.
CloseEditor ==
    /\ writing
    /\ writing' = FALSE
    /\ \/ UNCHANGED leaving
       \/ leaving > 0 /\ leaving' = leaving - 1
    /\ UNCHANGED <<saved, openings, form, complete, saving, prompting, saves, saveCount,
                   prompts, promptCount, texts, editorHistoryVars, lostSaves>>

\* A timer, when another page is open.
LeaveOther ==
    /\ ~writing /\ leaving > 0
    /\ leaving' = leaving - 1
    /\ UNCHANGED <<saved, openings, writing, form, complete, saving, prompting, saves, saveCount,
                   prompts, promptCount, texts, editorHistoryVars, lostSaves>>

Mine(S) == {r \in S : writing /\ r.opening = openings}

\* The form gets a text.
Fill(ready, late) ==
    /\ texts < MaxTexts
    /\ texts' = texts + 1
    /\ form' = texts + 1 /\ current' = texts + 1
    /\ complete' = ready
    /\ meanwhile' = (meanwhile \/ late)

\* handleInputChange, handleMetadataChange, the tags and the lessons.
EditForm(ready) ==
    /\ writing
    /\ Fill(ready, saving \/ prompting)
    /\ UNCHANGED <<saved, openings, writing, saving, prompting, saves, saveCount,
                   prompts, promptCount, leaving, lostSaves>>

-----------------------------------------------------------------------------
(* Saving.                                                                 *)

\* resetForm.
EmptiedForm == form' = 0 /\ complete' = FALSE
KeptForm == UNCHANGED <<form, complete>>

\* The buttons are disabled while a POST is awaited.  Mutant: the dialog's is not.
SubmitAnyTime(draft) == writing /\ (draft \/ complete)
MaySubmit(draft) == writing /\ ~saving /\ (draft \/ complete)

\* handleSubmit, with the token.
Submit(draft) ==
    /\ MaySubmit(draft)
    /\ saveCount < MaxSaves
    /\ saveCount' = saveCount + 1
    /\ saves' = saves \cup {[n |-> saveCount + 1, text |-> form, draft |-> draft,
                             opening |-> openings, state |-> "sent"]}
    /\ saving' = TRUE
    /\ UNCHANGED <<saved, openings, writing, form, complete, prompting, prompts, promptCount,
                   leaving, texts, editorHistoryVars, lostSaves>>

\* createStory refuses an incomplete form, a draft's too.
SaveStory(r, ok) ==
    /\ r.state = "sent" /\ (ok => r.text # 0)
    /\ saves' = (saves \ {r}) \cup {[r EXCEPT !.state = IF ok THEN "saved" ELSE "refused"]}
    /\ saved' = IF ok THEN saved \cup {[n |-> r.n, text |-> r.text, draft |-> r.draft]} ELSE saved
    /\ UNCHANGED <<openings, writing, form, complete, saving, prompting, saveCount, prompts,
                   promptCount, leaving, texts, editorHistoryVars, lostSaves>>

\* Success empties the form, whatever is in it, and starts the timer, which runs even
\* when the page has been left meanwhile.
SavedForm == EmptiedForm
SaveAnswered(r) ==
    /\ r.state = "saved"
    /\ saves' = saves \ {r}
    /\ leaving' = leaving + 1
    /\ IF r \in Mine(saves) THEN SavedForm /\ saving' = FALSE
       ELSE UNCHANGED <<form, complete, saving>>
    /\ UNCHANGED <<saved, openings, writing, prompting, saveCount, prompts, promptCount,
                   texts, editorHistoryVars, lostSaves>>

\* An error, a refusal or no answer: the form is kept.  Mutant: it is emptied too.
RefusedForm == KeptForm
SaveFailed(r) ==
    /\ r.state \in {"sent", "refused", "saved"}
    /\ saves' = saves \ {r}
    /\ lostSaves' = IF r.state = "saved" THEN lostSaves \cup {r.text} ELSE lostSaves
    /\ IF r \in Mine(saves) THEN RefusedForm /\ saving' = FALSE
       ELSE UNCHANGED <<form, complete, saving>>
    /\ UNCHANGED <<saved, openings, writing, prompting, saveCount, prompts, promptCount,
                   leaving, texts, editorHistoryVars>>

-----------------------------------------------------------------------------
(* The AI.                                                                 *)

\* handleGenerateAI; the dialog can be closed while it waits.
Generate ==
    /\ writing /\ ~prompting /\ promptCount < MaxPrompts
    /\ promptCount' = promptCount + 1
    /\ prompts' = prompts \cup {[n |-> promptCount + 1, opening |-> openings]}
    /\ prompting' = TRUE
    /\ UNCHANGED <<saved, openings, writing, form, complete, saving, saves, saveCount,
                   leaving, texts, editorHistoryVars, lostSaves>>

\* Title and content are the AI's, whatever has become of the form.
Generated(r, ready) ==
    /\ prompts' = prompts \ {r}
    /\ IF r \in Mine(prompts)
       THEN Fill(ready, saving) /\ prompting' = FALSE
       ELSE ready /\ UNCHANGED <<form, complete, prompting, texts, editorHistoryVars>>
    /\ UNCHANGED <<saved, openings, writing, saving, saves, saveCount, promptCount, leaving, lostSaves>>

GenerateFails(r) ==
    /\ prompts' = prompts \ {r}
    /\ prompting' = IF r \in Mine(prompts) THEN FALSE ELSE prompting
    /\ UNCHANGED <<saved, openings, writing, form, complete, saving, saves, saveCount,
                   promptCount, leaving, texts, editorHistoryVars, lostSaves>>

EditorNext ==
    \/ OpenEditor \/ CloseEditor \/ LeaveOther \/ Generate
    \/ \E b \in BOOLEAN : EditForm(b) \/ Submit(b)
    \/ \E r \in saves : SaveAnswered(r) \/ SaveFailed(r) \/ \E ok \in BOOLEAN : SaveStory(r, ok)
    \/ \E r \in prompts : GenerateFails(r) \/ \E b \in BOOLEAN : Generated(r, b)

EditorSpec == EditorInit /\ [][EditorNext]_editorVars

-----------------------------------------------------------------------------
(* Properties.                                                             *)

\* A text is saved once, however often the buttons are pressed and the page is left
\* and opened again, unless the answer to its POST was lost: the form is kept then and
\* may be sent again (handleSubmit).
SavedOnce ==
    \A t \in 1 .. texts \ lostSaves : Cardinality({s \in saved : s.text = t}) <= 1

\* While the page is open its last text is in the form or has been saved.  Not so once
\* the form changed while a POST or the AI was awaited: their answers empty or
\* overwrite what they do not know of (handleSubmit, handleGenerateAI).
KeptUntilSaved ==
    writing /\ ~meanwhile /\ form # current => \E s \in saved : s.text = current

=============================================================================
