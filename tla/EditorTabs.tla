----------------------------- MODULE EditorTabs -----------------------------
(***************************************************************************)
(* The tabs of the client: the reducer app/client/src/state/reducers/      *)
(* editor.ts, the gestures of ui/shell/mdi that reach it, and the prompt   *)
(* of state/sagas/editorSagas.ts for documents that changed on disk.       *)
(*                                                                         *)
(* A document is its id.  Its contents (setDirtyFlag, updateDocument) are  *)
(* left out.  A drag is one step from where the tab is to where it is      *)
(* dropped: a tab that is closed or reopened while it is being dragged is  *)
(* not modelled (see the README).                                          *)
(***************************************************************************)
EXTENDS Naturals, SequencesExt

CONSTANTS
  Files,    \* chat and transcript files
  Globals,  \* documents with isGlobal: settings, welcome page, markdown
  Null

Docs == Files \cup Globals
ASSUME EditorAssumption == Files \cap Globals = {} /\ Null \notin Docs

VARIABLES
  tabs,      \* the two tab groups and which is active
  pending,   \* docsWithPendingChanges
  prompts,   \* documents with a reload prompt on the screen
  reloading  \* chat files the main process is reading

vars == <<tabs, pending, prompts, reloading>>

Groups == {"primary", "secondary"}
Other(g) == IF g = "primary" THEN "secondary" ELSE "primary"

Editor == [documents : SUBSET Docs, tabOrder : Seq(Docs),
           recentTabs : Seq(Docs), active : Docs \cup {Null}]

\* Both groups list documents; changes, prompts and reloads are of files.
TypeOK ==
  /\ tabs \in [editors : [Groups -> Editor], activeEditor : Groups]
  /\ pending \subseteq Files
  /\ prompts \subseteq Files
  /\ reloading \subseteq Files

NewEditor == [documents |-> {}, tabOrder |-> <<>>, recentTabs |-> <<>>, active |-> Null]

Init ==
  /\ tabs = [editors |-> [g \in Groups |-> NewEditor], activeEditor |-> "primary"]
  /\ pending = {} /\ prompts = {} /\ reloading = {}

-----------------------------------------------------------------------------
(* What the reducer computes                                               *)

\* The entries of s that are in S, in their order: `filter`.
Keeping(s, S) ==
  LET kept[n \in 0..Len(s)] ==
        IF n = 0 THEN <<>>
        ELSE IF s[n] \in S THEN Append(kept[n - 1], s[n]) ELSE kept[n - 1]
  IN  kept[Len(s)]

Without(s, d) == Keeping(s, Docs \ {d})
First(s) == IF s = <<>> THEN Null ELSE Head(s)

InsertAfter(s, a, d) ==
  LET i == SelectInSeq(s, LAMBDA e : e = a)
  IN  IF i = 0 THEN Append(s, d) ELSE InsertAt(s, i + 1, d)

\* Mutant of RemoveDocumentFromTabGroup: the closed document stays the active one.
MutRemove(e, d) ==
  IF e.documents \subseteq {d} THEN NewEditor
  ELSE [documents |-> e.documents \ {d}, tabOrder |-> Without(e.tabOrder, d),
        recentTabs |-> Without(e.recentTabs, d), active |-> e.active]

RemoveDocumentFromTabGroup(e, d) ==
  IF e.documents \subseteq {d} THEN NewEditor
  ELSE [documents |-> e.documents \ {d}, tabOrder |-> Without(e.tabOrder, d),
        recentTabs |-> Without(e.recentTabs, d), active |-> First(Without(e.recentTabs, d))]

SetNewPrimaryEditor(e) ==
  [editors |-> [g \in Groups |-> IF g = "primary" THEN e ELSE NewEditor],
   activeEditor |-> "primary"]

\* Mutant of Focus: the tab is not taken out of the recent ones first.
MutFocus(t, g, d) ==
  [editors |-> [t.editors EXCEPT ![g].active = d,
                                 ![g].recentTabs = <<d>> \o t.editors[g].recentTabs],
   activeEditor |-> g]

\* The document becomes the active one of group g, which becomes active.
Focus(t, g, d) ==
  [editors |-> [t.editors EXCEPT
                  ![g].active = d,
                  ![g].recentTabs = <<d>> \o Without(t.editors[g].recentTabs, d)],
   activeEditor |-> g]

OpenIn(t, g, d) ==
  LET e == t.editors[g]
  IN  IF d \in e.documents THEN Focus(t, g, d)
      ELSE Focus([t EXCEPT !.editors[g].documents = @ \cup {d},
                           !.editors[g].tabOrder = InsertAfter(@, e.active, d)], g, d)

\* Mutant of Opened: the other group is not looked at.
MutOpened(t, d) == OpenIn(t, t.activeEditor, d)
Opened(t, d) ==
  IF d \in t.editors[Other(t.activeEditor)].documents
  THEN Focus(t, Other(t.activeEditor), d)
  ELSE OpenIn(t, t.activeEditor, d)

\* Mutant of Closed: the other group takes over though this one has tabs left.
MutClosed(t, g, d) == SetNewPrimaryEditor(t.editors[Other(g)])

Closed(t, g, d) ==
  LET e == RemoveDocumentFromTabGroup(t.editors[g], d)
  IN  IF e.documents = {} THEN SetNewPrimaryEditor(t.editors[Other(g)])
      ELSE [t EXCEPT !.editors[g] = e]

\* Mutant of Moved: the group that lost its last tab stays active.
MutMoved(t, g, h, src, dest) ==
  [t EXCEPT !.editors = [t.editors EXCEPT ![g] = src, ![h] = dest]]

\* appendTab and swapTabs, once the two groups src (of g) and dest (of h) are known.
Moved(t, g, h, src, dest) ==
  IF src.documents = {} /\ g = "primary" THEN SetNewPrimaryEditor(dest)
  ELSE [editors |-> [t.editors EXCEPT ![g] = src, ![h] = dest],
        activeEditor |-> IF src.documents = {} THEN h ELSE t.activeEditor]

WithoutFiles(e) ==
  LET recent == Keeping(e.recentTabs, Globals)
  IN  [documents |-> e.documents \cap Globals,
       tabOrder |-> Keeping(e.tabOrder, Globals),
       recentTabs |-> recent, active |-> First(recent)]

FixupTabGroups(t) ==
  LET primary == t.editors["primary"]
      secondary == t.editors["secondary"]
  IN  IF primary.documents = {} /\ secondary.documents # {}
      THEN SetNewPrimaryEditor(secondary)
      ELSE [t EXCEPT !.activeEditor = IF secondary.documents = {} THEN "primary" ELSE @]

-----------------------------------------------------------------------------
(* The actions                                                             *)

Has(g) == tabs.editors[g].documents
OpenDocs == Has("primary") \cup Has("secondary")
ActiveDoc == tabs.editors[tabs.activeEditor].active

\* Mutant of PromptIfPending: any pending document makes the active one prompt.
MutPrompt == prompts' = prompts \cup (IF pending' = {} THEN {} ELSE {ActiveDoc'})

\* checkActiveDocForPendingChanges, which takeEvery starts after some actions.
\* Prompts for the same document are not told apart.
PromptIfPending == prompts' = prompts \cup (pending' \cap {ActiveDoc'})

Open(d) ==
  /\ tabs' = Opened(tabs, d)
  /\ UNCHANGED <<pending, reloading>>
  /\ PromptIfPending

Close(d) ==
  /\ d \in OpenDocs
  /\ \E g \in Groups : d \in Has(g) /\ tabs' = Closed(tabs, g, d)
  /\ UNCHANGED <<pending, prompts, reloading>>

CloseAll ==
  /\ tabs' = FixupTabGroups(
       [tabs EXCEPT !.editors = [g \in Groups |-> WithoutFiles(tabs.editors[g])]])
  /\ pending' = {}
  /\ UNCHANGED <<prompts, reloading>>

SetActiveTab(d) ==
  /\ \E g \in Groups : d \in Has(g) /\ tabs' = Focus(tabs, g, d)
  /\ UNCHANGED <<pending, reloading>>
  /\ PromptIfPending

\* A click in what a group shows.
SetActiveEditor(g) ==
  /\ Has(g) # {} /\ g # tabs.activeEditor
  /\ tabs' = [tabs EXCEPT !.activeEditor = g]
  /\ UNCHANGED <<pending, reloading>>
  /\ PromptIfPending

\* A tab of g dropped on the tab bar or the content of h.
AppendTab(g, h, d) ==
  /\ d \in Has(g) /\ Has(h) # {}
  /\ LET dest == tabs.editors[h]
     IN  tabs' = IF g = h
                 THEN [tabs EXCEPT !.editors[g].tabOrder = Append(Without(@, d), d)]
                 ELSE Moved(tabs, g, h, RemoveDocumentFromTabGroup(tabs.editors[g], d),
                        [dest EXCEPT !.documents = @ \cup {d},
                                     !.tabOrder = Append(@, d),
                                     !.recentTabs = Append(@, d)])
  /\ UNCHANGED <<pending, prompts, reloading>>

\* A tab d of g dropped on the tab x of h.
SwapTabs(g, h, d, x) ==
  /\ d \in Has(g) /\ x \in Has(h) /\ d # x
  /\ LET dest == tabs.editors[h]
         swap == [e \in Docs |-> CASE e = d -> x [] e = x -> d [] OTHER -> e]
     IN  tabs' = IF g = h
                 THEN [tabs EXCEPT !.editors[g].tabOrder =
                         [i \in DOMAIN @ |-> swap[@[i]]]]
                 ELSE Moved(tabs, g, h, RemoveDocumentFromTabGroup(tabs.editors[g], d),
                        [dest EXCEPT !.documents = @ \cup {d},
                                     !.tabOrder = InsertAfter(@, x, d),
                                     !.recentTabs = Append(@, d)])
  /\ UNCHANGED <<pending, prompts, reloading>>

Split(g, d) ==
  LET dest == tabs.editors[Other(g)]
  IN  tabs' = [editors |-> [tabs.editors EXCEPT
                 ![g] = RemoveDocumentFromTabGroup(@, d),
                 ![Other(g)] = [documents |-> dest.documents \cup {d},
                                tabOrder |-> Append(dest.tabOrder, d),
                                recentTabs |-> <<d>> \o dest.recentTabs, active |-> d]],
               activeEditor |-> Other(g)]

\* The split button of a tab bar with several tabs.
SplitTab(g) ==
  /\ Has(g) \ {tabs.editors[g].active} # {}
  /\ Split(g, tabs.editors[g].active)
  /\ UNCHANGED <<pending, prompts, reloading>>

\* The overlays on the sides of the content, if only the primary group has tabs.
Splittable(d) ==
  d \in Has("primary") /\ Has("primary") # {d} /\ Has("secondary") = {}

DropTabOnRightOverlay(d) ==
  /\ Splittable(d)
  /\ Split("primary", d)
  /\ UNCHANGED <<pending, prompts, reloading>>

DropTabOnLeftOverlay(d) ==
  /\ Splittable(d)
  /\ tabs' = [tabs EXCEPT !.editors =
       [g \in Groups |->
          IF g = "primary"
          THEN [documents |-> {d}, tabOrder |-> <<d>>, recentTabs |-> <<d>>, active |-> d]
          ELSE RemoveDocumentFromTabGroup(tabs.editors["primary"], d)]]
  /\ UNCHANGED <<pending, prompts, reloading>>

\* File.Changed: a watched file changed on disk, open or not.
FileChanged(d) ==
  /\ pending' = pending \cup {d}
  /\ UNCHANGED <<tabs, reloading>>
  /\ PromptIfPending

\* The message box of promptUserToReloadDocument is closed; there may be another
\* one for the same document.  Its options reach showMessageBox as `modal`: it has
\* no buttons, answers 0, and the file is not reloaded.
AnswerPrompt(d) ==
  /\ d \in prompts
  /\ prompts' \in {prompts, prompts \ {d}}
  /\ pending' = pending \ {d}
  /\ UNCHANGED <<tabs, reloading>>

\* A chat file is opened from the resources: the main process reads it (again).
OpenChatFile(d) ==
  /\ reloading' = reloading \cup {d}
  /\ UNCHANGED <<tabs, pending, prompts>>

ReadFails(d) ==
  /\ d \in reloading
  /\ reloading' = reloading \ {d}
  /\ UNCHANGED <<tabs, pending, prompts>>

\* reloadTranscript, when the main process has read the file.
Reload(d) ==
  /\ d \in reloading
  /\ reloading' = reloading \ {d}
  /\ tabs' = IF d \in OpenDocs
             THEN Opened(Closed(tabs, CHOOSE g \in Groups : d \in Has(g), d), d)
             ELSE Opened(tabs, d)
  /\ UNCHANGED pending
  /\ PromptIfPending

Next ==
  \/ CloseAll
  \/ \E g \in Groups : SetActiveEditor(g) \/ SplitTab(g)
  \/ \E d \in Docs :
       \/ Open(d) \/ Close(d) \/ SetActiveTab(d)
       \/ DropTabOnRightOverlay(d) \/ DropTabOnLeftOverlay(d)
       \/ \E g, h \in Groups :
            AppendTab(g, h, d) \/ \E x \in Docs : SwapTabs(g, h, d, x)
  \/ \E d \in Files :
       FileChanged(d) \/ AnswerPrompt(d) \/ OpenChatFile(d) \/ ReadFails(d) \/ Reload(d)

Spec == Init /\ [][Next]_vars

-----------------------------------------------------------------------------
(* Properties                                                              *)

IsOrderOf(s, S) == ToSet(s) = S /\ Len(s) = Cardinality(S)

\* A group's documents, its tab bar and its recently used tabs always list the
\* same documents, each once, through every move between the groups.
TabsMatchDocuments ==
  \A g \in Groups : LET e == tabs.editors[g] IN
    IsOrderOf(e.tabOrder, e.documents) /\ IsOrderOf(e.recentTabs, e.documents)

\* No document is in both groups: close and setActiveTab look for one only.
OneGroupPerDocument == Has("primary") \cap Has("secondary") = {}

\* A group shows the document at the head of its recently used tabs, and shows
\* one whenever it has any.
ActiveIsRecent ==
  \A g \in Groups : tabs.editors[g].active = First(tabs.editors[g].recentTabs)

\* The active group has tabs if there are any, and the secondary group never
\* has some while the primary, which alone is always shown, has none.
FocusOnTabs ==
  /\ OpenDocs # {} => Has(tabs.activeEditor) # {}
  /\ Has("secondary") # {} => Has("primary") # {}

\* Opening, moving, splitting and reloading tabs loses none: a step takes away
\* the document it closes, and closeAll those that are not global.
TabsSurvive ==
  [][\A d \in OpenDocs \ OpenDocs' : Close(d) \/ (CloseAll /\ d \notin Globals)]_vars

\* The comment of fileChangedOnDisk (fileCommands.ts:71): the user is prompted
\* once the changed document is focused again.
FocusedIsPrompted == ActiveDoc \in pending => ActiveDoc \in prompts
=============================================================================
