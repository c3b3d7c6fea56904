-------------------------------- MODULE Pages --------------------------------
(***************************************************************************)
(* The pages of frontend/src/App.js, one of which is open at a time, and   *)
(* the server's table of views behind them.                                *)
(*                                                                         *)
(* A page's state begins when its route is opened and ends when it is      *)
(* left; no two of them share any.  No record of the server that one of    *)
(* these modules writes is read by another here.  So a behaviour stays     *)
(* with one part of the application, and the others are as they begin.     *)
(***************************************************************************)
EXTENDS BrowsePage, HomePage, StoryPage, EditorPage, StartChat, ViewThrottle,
        PeoplePage, DashboardPage

VARIABLE part \* the part of the application that is used

Parts == {"browse", "home", "story", "editor", "chat", "views", "people", "dashboard"}

pagesVars == <<part, browseVars, homeVars, storyPageVars, editorVars, startChatVars, throttleVars,
               peopleVars, dashVars>>

\* A part that is not used is in one of its initial states.
PagesInit ==
    /\ part \in Parts
    /\ BrowseInit
    /\ EditorInit
    /\ StartChatInit
    /\ ThrottleInit
    /\ HomeInit /\ (part # "home" => hearted = {} /\ followed = {} /\ feed = CHOOSE f \in Orders : TRUE)
    /\ StoryPageInit /\ (part # "story" => likes = {} /\ route = CHOOSE i \in Ids : TRUE)
    /\ PeopleInit
    /\ part # "people" =>
          following = {} /\ which = "Followers" /\ profile = CHOOSE a \in Profiles : TRUE
    /\ DashboardInit /\ (part # "dashboard" => ~refreshAsked)

InBrowse ==
    /\ part = "browse" /\ BrowseNext
    /\ UNCHANGED <<part, homeVars, storyPageVars, editorVars, startChatVars, throttleVars, peopleVars, dashVars>>
InHome ==
    /\ part = "home" /\ HomeNext
    /\ UNCHANGED <<part, browseVars, storyPageVars, editorVars, startChatVars, throttleVars, peopleVars, dashVars>>
InStory ==
    /\ part = "story" /\ StoryPageNext
    /\ UNCHANGED <<part, browseVars, homeVars, editorVars, startChatVars, throttleVars, peopleVars, dashVars>>
InEditor ==
    /\ part = "editor" /\ EditorNext
    /\ UNCHANGED <<part, browseVars, homeVars, storyPageVars, startChatVars, throttleVars, peopleVars, dashVars>>
InChat ==
    /\ part = "chat" /\ StartChatNext
    /\ UNCHANGED <<part, browseVars, homeVars, storyPageVars, editorVars, throttleVars, peopleVars, dashVars>>
InViews ==
    /\ part = "views" /\ ThrottleNext
    /\ UNCHANGED <<part, browseVars, homeVars, storyPageVars, editorVars, startChatVars, peopleVars, dashVars>>

InPeople ==
    /\ part = "people" /\ PeopleNext
    /\ UNCHANGED <<part, browseVars, homeVars, storyPageVars, editorVars, startChatVars, throttleVars, dashVars>>
InDashboard ==
    /\ part = "dashboard" /\ DashboardNext
    /\ UNCHANGED <<part, browseVars, homeVars, storyPageVars, editorVars, startChatVars, throttleVars, peopleVars>>

PagesNext == InBrowse \/ InHome \/ InStory \/ InEditor \/ InChat \/ InViews
             \/ InPeople \/ InDashboard

PagesSpec == PagesInit /\ [][PagesNext]_pagesVars

=============================================================================
