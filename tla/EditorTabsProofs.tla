--------------------------- MODULE EditorTabsProofs ---------------------------
(***************************************************************************)
(* Proofs about EditorTabs, for any number of documents: none is ever in    *)
(* both groups, the focus is on a group that has tabs, and only what is     *)
(* closed leaves the tabs.  There a group is the set of its documents.  The *)
(* second part is about its lists, sequences of any length: its tab bar and *)
(* its recently used tabs list the same documents, each once, and the group *)
(* shows the first of the recent ones.                                      *)
(***************************************************************************)
EXTENDS EditorTabs, FiniteSetTheorems, SequenceTheorems, TLAPS

Fields == {"documents", "tabOrder", "recentTabs", "active"}
In(t, g) == t.editors[g].documents
All(t) == In(t, "primary") \cup In(t, "secondary")

\* The tabs are two groups, one of them the active one.
Shaped(t) ==
  /\ DOMAIN t = {"editors", "activeEditor"} /\ t.activeEditor \in Groups
  /\ DOMAIN t.editors = Groups
  /\ \A g \in Groups : DOMAIN t.editors[g] = Fields
Apart(t) == In(t, "primary") \cap In(t, "secondary") = {}
\* The secondary group is never active without tabs, not even when none is open: the
\* next document would be opened in it and leave the primary one empty.
Focused(t) ==
  /\ t.activeEditor = "secondary" => In(t, "secondary") # {}
  /\ In(t, "secondary") # {} => In(t, "primary") # {}

Sound(t) == Shaped(t) /\ Apart(t) /\ Focused(t)
GroupsInv == Sound(tabs)

(***************************************************************************)
(* What the reducer does to the documents                                  *)
(***************************************************************************)
LEMMA OtherGroup ==
  \A g \in Groups : /\ Other(g) \in Groups /\ Other(g) # g
                    /\ \A h \in Groups : h = g \/ h = Other(g)
BY DEF Groups, Other

LEMMA EmptyEditor == DOMAIN NewEditor = Fields /\ NewEditor.documents = {}
BY DEF NewEditor, Fields

LEMMA Removed ==
  ASSUME NEW e, NEW d
  PROVE  /\ DOMAIN RemoveDocumentFromTabGroup(e, d) = Fields
         /\ RemoveDocumentFromTabGroup(e, d).documents = e.documents \ {d}
<1>1. CASE e.documents \subseteq {d}
      BY <1>1, EmptyEditor DEF RemoveDocumentFromTabGroup
<1>2. CASE ~(e.documents \subseteq {d})
      BY <1>2 DEF RemoveDocumentFromTabGroup, Fields
<1> QED BY <1>1, <1>2

\* A single group is the primary one.
LEMMA Alone ==
  ASSUME NEW e, DOMAIN e = Fields
  PROVE  /\ Sound(SetNewPrimaryEditor(e))
         /\ All(SetNewPrimaryEditor(e)) = e.documents
<1> DEFINE t == SetNewPrimaryEditor(e)
<1>1. Shaped(t)
      BY EmptyEditor DEF SetNewPrimaryEditor, Shaped, Groups
<1>2. In(t, "primary") = e.documents /\ In(t, "secondary") = {} /\ t.activeEditor = "primary"
      BY EmptyEditor DEF SetNewPrimaryEditor, In, Groups
<1> QED BY <1>1, <1>2 DEF Sound, Apart, Focused, All

\* Two groups, given what they hold and which is active.
LEMMA FocusKeeps ==
  ASSUME NEW t, Shaped(t), NEW g \in Groups, NEW d
  PROVE  /\ Shaped(Focus(t, g, d)) /\ Focus(t, g, d).activeEditor = g
         /\ \A h \in Groups : In(Focus(t, g, d), h) = In(t, h)
<1> DEFINE eds == [t.editors EXCEPT
                     ![g].active = d,
                     ![g].recentTabs = <<d>> \o Without(t.editors[g].recentTabs, d)]
<1>1. DOMAIN eds = Groups
      BY DEF Shaped
<1>2. \A h \in Groups : DOMAIN eds[h] = Fields /\ eds[h].documents = t.editors[h].documents
      BY DEF Shaped, Fields
<1>3. Focus(t, g, d) = [editors |-> eds, activeEditor |-> g]
      BY DEF Focus
<1> QED BY <1>1, <1>2, <1>3 DEF Shaped, In

LEMMA OpenInKeeps ==
  ASSUME NEW t, Shaped(t), NEW g \in Groups, NEW d
  PROVE  /\ Shaped(OpenIn(t, g, d)) /\ OpenIn(t, g, d).activeEditor = g
         /\ In(OpenIn(t, g, d), g) = In(t, g) \cup {d}
         /\ \A h \in Groups \ {g} : In(OpenIn(t, g, d), h) = In(t, h)
<1>1. CASE d \in In(t, g)
  <2>1. OpenIn(t, g, d) = Focus(t, g, d)
        BY <1>1 DEF OpenIn, In
  <2> QED BY <1>1, <2>1, FocusKeeps
<1>2. CASE d \notin In(t, g)
  <2> DEFINE e == t.editors[g]
             u == [t EXCEPT !.editors[g].documents = @ \cup {d},
                            !.editors[g].tabOrder = InsertAfter(@, e.active, d)]
  <2>1. OpenIn(t, g, d) = Focus(u, g, d)
        BY <1>2 DEF OpenIn, In
  <2> DEFINE v == [t EXCEPT !.editors[g].documents = @ \cup {d}]
             x == InsertAfter(v.editors[g].tabOrder, e.active, d)
  <2>2. /\ Shaped(v) /\ v.editors[g].documents = e.documents \cup {d}
        /\ \A h \in Groups \ {g} : v.editors[h].documents = t.editors[h].documents
        BY DEF Shaped, Fields
  <2>3. u = [v EXCEPT !.editors[g].tabOrder = x]
        OBVIOUS
  <2> HIDE DEF u, v, x
  <2>4. /\ Shaped(u) /\ \A h \in Groups : u.editors[h].documents = v.editors[h].documents
        BY <2>2, <2>3 DEF Shaped, Fields
  <2> QED BY <2>1, <2>2, <2>4, FocusKeeps DEF In
<1> QED BY <1>1, <1>2

\* Opening a document adds it to one group, or finds it in either.
LEMMA OpenedKeeps ==
  ASSUME NEW t, Sound(t), NEW d
  PROVE  Sound(Opened(t, d)) /\ All(Opened(t, d)) = All(t) \cup {d}
<1> DEFINE g == t.activeEditor
           h == Other(g)
           u == Opened(t, d)
<1>1. Shaped(t) /\ g \in Groups /\ h \in Groups /\ h # g
      BY OtherGroup DEF Sound, Shaped
<1>2. /\ \A k \in Groups : k = g \/ k = h
      /\ All(t) = In(t, g) \cup In(t, h) /\ In(t, g) \cap In(t, h) = {}
      /\ g = "secondary" => In(t, g) # {}
      /\ In(t, "secondary") # {} => In(t, "primary") # {}
      BY <1>1 DEF Sound, Apart, Focused, All, Groups
<1>3. /\ Shaped(u)
      /\ \/ d \in In(t, h) /\ u.activeEditor = h /\ In(u, g) = In(t, g) /\ In(u, h) = In(t, h)
         \/ /\ d \notin In(t, h) /\ u.activeEditor = g
            /\ In(u, g) = In(t, g) \cup {d} /\ In(u, h) = In(t, h)
  <2>1. CASE d \in In(t, h)
        BY <1>1, <2>1, FocusKeeps DEF Opened, In
  <2>2. CASE d \notin In(t, h)
    <3>1. u = OpenIn(t, g, d)
          BY <2>2 DEF Opened, In
    <3> QED BY <1>1, <2>2, <3>1, OpenInKeeps
  <2> QED BY <2>1, <2>2
<1> HIDE DEF u, h
<1>4. All(u) = In(u, g) \cup In(u, h) /\ (Apart(u) <=> In(u, g) \cap In(u, h) = {})
      BY <1>1 DEF All, Apart, Groups
<1>5. Apart(u) /\ All(u) = All(t) \cup {d}
      BY <1>2, <1>3, <1>4
<1>6. Focused(u)
  <2>1. u.activeEditor \in {g, h} /\ In(u, u.activeEditor) # {}
        BY <1>2, <1>3
  <2>2. In(u, "secondary") # {} => In(u, "primary") # {}
        BY <1>1, <1>2, <1>3 DEF Groups
  <2> QED BY <2>1, <2>2 DEF Focused
<1> QED BY <1>3, <1>5, <1>6 DEF Sound, u

\* Closing one takes it out of its group, and a group with none gives way.
LEMMA ClosedKeeps ==
  ASSUME NEW t, Sound(t), NEW g \in Groups, NEW d, d \in In(t, g)
  PROVE  Sound(Closed(t, g, d)) /\ All(Closed(t, g, d)) = All(t) \ {d}
<1> DEFINE e == RemoveDocumentFromTabGroup(t.editors[g], d)
           h == Other(g)
           u == Closed(t, g, d)
<1>1. Shaped(t) /\ h \in Groups /\ h # g
      BY OtherGroup DEF Sound
<1>2. DOMAIN e = Fields /\ e.documents = In(t, g) \ {d}
      BY Removed DEF In
<1>3. d \notin In(t, h) /\ All(t) = In(t, g) \cup In(t, h)
      BY <1>1 DEF Sound, Apart, All, Groups
<1> HIDE DEF h
<1>4. CASE e.documents = {}
  <2>1. u = SetNewPrimaryEditor(t.editors[h])
        BY <1>4 DEF Closed, h
  <2>2. DOMAIN t.editors[h] = Fields
        BY <1>1 DEF Shaped
  <2>3. Sound(u) /\ All(u) = In(t, h)
        BY <2>1, <2>2, Alone DEF In
  <2> HIDE DEF u, e
  <2> QED BY <1>2, <1>3, <1>4, <2>3 DEF u
<1>5. CASE e.documents # {}
  <2>1. u = [t EXCEPT !.editors[g] = e]
        BY <1>5 DEF Closed
  <2> HIDE DEF e
  <2>2. /\ Shaped(u) /\ u.activeEditor = t.activeEditor
        /\ In(u, g) = e.documents /\ In(u, h) = In(t, h)
        BY <1>1, <1>2, <2>1 DEF Shaped, In
  <2> HIDE DEF u
  <2>3. Apart(u) /\ All(u) = All(t) \ {d}
        BY <1>1, <1>2, <1>3, <2>2 DEF Sound, Apart, All, Groups
  <2>4. Focused(u)
        BY <1>1, <1>2, <1>5, <2>2 DEF Sound, Shaped, Focused, All, Groups
  <2> QED BY <2>2, <2>3, <2>4 DEF Sound, u
<1> QED BY <1>4, <1>5

\* Moving one from a group to the other, as appendTab and swapTabs do.
LEMMA MovedKeeps ==
  ASSUME NEW t, Sound(t), NEW g \in Groups, NEW h \in Groups, g # h, In(t, h) # {},
         NEW d, d \in In(t, g), NEW src, NEW dest,
         DOMAIN src = Fields, src.documents = In(t, g) \ {d},
         DOMAIN dest = Fields, dest.documents = In(t, h) \cup {d}
  PROVE  Sound(Moved(t, g, h, src, dest)) /\ All(Moved(t, g, h, src, dest)) = All(t)
<1> DEFINE u == Moved(t, g, h, src, dest)
<1>1. Shaped(t) /\ All(t) = In(t, g) \cup In(t, h) /\ d \notin In(t, h)
      BY DEF Sound, Apart, All, Groups
<1>2. CASE src.documents = {} /\ g = "primary"
  <2>1. u = SetNewPrimaryEditor(dest)
        BY <1>2 DEF Moved
  <2>2. Sound(u) /\ All(u) = dest.documents
        BY <2>1, Alone
  <2> HIDE DEF u
  <2> QED BY <1>1, <1>2, <2>2 DEF u
<1>3. CASE ~(src.documents = {} /\ g = "primary")
  <2> DEFINE a == IF src.documents = {} THEN h ELSE t.activeEditor
             eds == [t.editors EXCEPT ![g] = src, ![h] = dest]
  <2>1. u = [editors |-> eds, activeEditor |-> a]
        BY <1>3 DEF Moved
  <2>2. a \in Groups
        BY <1>1 DEF Shaped
  <2>3. DOMAIN eds = Groups /\ eds[g] = src /\ eds[h] = dest
        BY <1>1 DEF Shaped
  <2> HIDE DEF a, eds
  <2>4. u.activeEditor = a /\ In(u, g) = src.documents /\ In(u, h) = dest.documents
        BY <2>1, <2>3 DEF In
  <2>5. Shaped(u)
    <3>1. \A k \in Groups : DOMAIN eds[k] = Fields
          BY <2>3 DEF Groups
    <3> QED BY <2>1, <2>2, <2>3, <3>1 DEF Shaped
  <2> HIDE DEF u
  <2>6. Apart(u) /\ All(u) = All(t)
        BY <1>1, <2>4 DEF Sound, Apart, All, Groups
  <2>7. In(u, a) # {}
    <3>1. CASE src.documents = {}
          BY <2>4, <3>1 DEF a
    <3>2. CASE src.documents # {}
          BY <1>1, <2>2, <2>4, <3>2 DEF Groups
    <3> QED BY <3>1, <3>2
  <2>8. Focused(u)
        BY <1>3, <2>4, <2>7 DEF Focused, Groups
  <2> QED BY <2>5, <2>6, <2>8 DEF Sound, u
<1> QED BY <1>2, <1>3

(***************************************************************************)
(* The actions                                                             *)
(***************************************************************************)
Keeps == Sound(tabs') /\ All(tabs') = All(tabs)

LEMMA Focusing ==
  ASSUME NEW t, Sound(t), NEW g \in Groups, NEW d \in In(t, g)
  PROVE  Sound(Focus(t, g, d)) /\ All(Focus(t, g, d)) = All(t)
<1> DEFINE u == Focus(t, g, d)
<1>1. Shaped(u) /\ u.activeEditor = g /\ \A h \in Groups : In(u, h) = In(t, h)
      BY FocusKeeps DEF Sound
<1> HIDE DEF u
<1> QED BY <1>1 DEF Sound, Apart, Focused, All, Groups, u

LEMMA SetActiveEditorKeeps ==
  ASSUME GroupsInv, NEW g \in Groups, SetActiveEditor(g)
  PROVE  Keeps
<1>1. Shaped(tabs') /\ tabs'.activeEditor = g /\ \A h \in Groups : In(tabs', h) = In(tabs, h)
      BY DEF SetActiveEditor, GroupsInv, Sound, Shaped, In
<1>2. In(tabs, g) # {}
      BY DEF SetActiveEditor, Has, In
<1> QED BY <1>1, <1>2 DEF Keeps, GroupsInv, Sound, Apart, Focused, All, Groups

\* A tab that stays in its group leaves the documents as they are.
LEMMA Reordered ==
  ASSUME GroupsInv, NEW g \in Groups, NEW order,
         tabs' = [tabs EXCEPT !.editors[g].tabOrder = order]
  PROVE  Keeps
<1>1. /\ Shaped(tabs') /\ tabs'.activeEditor = tabs.activeEditor
      /\ \A h \in Groups : In(tabs', h) = In(tabs, h)
      BY DEF GroupsInv, Sound, Shaped, In, Fields
<1> QED BY <1>1 DEF Keeps, GroupsInv, Sound, Apart, Focused, All, Groups

\* One that is dropped on the other group moves there.
LEMMA Dropped ==
  ASSUME GroupsInv, NEW g \in Groups, NEW h \in Groups, g # h, In(tabs, h) # {},
         NEW d, d \in In(tabs, g), NEW order, NEW recent,
         tabs' = Moved(tabs, g, h, RemoveDocumentFromTabGroup(tabs.editors[g], d),
                       [tabs.editors[h] EXCEPT !.documents = @ \cup {d},
                                               !.tabOrder = order, !.recentTabs = recent])
  PROVE  Keeps
<1> DEFINE src == RemoveDocumentFromTabGroup(tabs.editors[g], d)
           dest == [tabs.editors[h] EXCEPT !.documents = @ \cup {d},
                                           !.tabOrder = order, !.recentTabs = recent]
<1>1. DOMAIN src = Fields /\ src.documents = In(tabs, g) \ {d}
      BY Removed DEF In
<1>2. DOMAIN dest = Fields /\ dest.documents = In(tabs, h) \cup {d}
      BY DEF GroupsInv, Sound, Shaped, Fields, In
<1>3. tabs' = Moved(tabs, g, h, src, dest)
      OBVIOUS
<1> HIDE DEF src, dest
<1> QED BY <1>1, <1>2, <1>3, MovedKeeps DEF Keeps, GroupsInv

LEMMA AppendTabKeeps ==
  ASSUME GroupsInv, NEW g \in Groups, NEW h \in Groups, NEW d, AppendTab(g, h, d)
  PROVE  Keeps
<1>1. CASE g = h
  <2> DEFINE order == Append(Without(tabs.editors[g].tabOrder, d), d)
  <2>1. tabs' = [tabs EXCEPT !.editors[g].tabOrder = order]
        BY <1>1 DEF AppendTab
  <2> HIDE DEF order
  <2> QED BY <2>1, Reordered
<1>2. CASE g # h
  <2> DEFINE dest == tabs.editors[h]
             order == Append(dest.tabOrder, d)
             recent == Append(dest.recentTabs, d)
  <2>1. DOMAIN dest = Fields
        BY DEF GroupsInv, Sound, Shaped
  <2>2. [dest EXCEPT !.documents = @ \cup {d}, !.tabOrder = Append(@, d),
                     !.recentTabs = Append(@, d)]
        = [dest EXCEPT !.documents = @ \cup {d}, !.tabOrder = order, !.recentTabs = recent]
        BY <2>1 DEF Fields
  <2>3. tabs' = Moved(tabs, g, h, RemoveDocumentFromTabGroup(tabs.editors[g], d),
                      [dest EXCEPT !.documents = @ \cup {d},
                                   !.tabOrder = order, !.recentTabs = recent])
        BY <1>2, <2>2 DEF AppendTab
  <2>4. d \in In(tabs, g) /\ In(tabs, h) # {}
        BY DEF AppendTab, Has, In
  <2> HIDE DEF order, recent
  <2> QED BY <1>2, <2>3, <2>4, Dropped
<1> QED BY <1>1, <1>2

LEMMA SwapTabsKeeps ==
  ASSUME GroupsInv, NEW g \in Groups, NEW h \in Groups, NEW d, NEW x, SwapTabs(g, h, d, x)
  PROVE  Keeps
<1>1. CASE g = h
  <2>1. PICK order : tabs' = [tabs EXCEPT !.editors[g].tabOrder = order]
    <3> DEFINE swap == [e \in Docs |-> CASE e = d -> x [] e = x -> d [] OTHER -> e]
               order == [i \in DOMAIN tabs.editors[g].tabOrder |->
                           swap[tabs.editors[g].tabOrder[i]]]
    <3>1. tabs' = [tabs EXCEPT !.editors[g].tabOrder = order]
          BY <1>1 DEF SwapTabs
    <3> HIDE DEF order
    <3> QED BY <3>1
  <2> QED BY <2>1, Reordered
<1>2. CASE g # h
  <2> DEFINE dest == tabs.editors[h]
             order == InsertAfter(dest.tabOrder, x, d)
             recent == Append(dest.recentTabs, d)
  <2>1. DOMAIN dest = Fields
        BY DEF GroupsInv, Sound, Shaped
  <2>2. [dest EXCEPT !.documents = @ \cup {d}, !.tabOrder = InsertAfter(@, x, d),
                     !.recentTabs = Append(@, d)]
        = [dest EXCEPT !.documents = @ \cup {d}, !.tabOrder = order, !.recentTabs = recent]
        BY <2>1 DEF Fields
  <2>3. tabs' = Moved(tabs, g, h, RemoveDocumentFromTabGroup(tabs.editors[g], d),
                      [dest EXCEPT !.documents = @ \cup {d},
                                   !.tabOrder = order, !.recentTabs = recent])
        BY <1>2, <2>2 DEF SwapTabs
  <2>4. d \in In(tabs, g) /\ In(tabs, h) # {}
        BY DEF SwapTabs, Has, In
  <2> HIDE DEF order, recent
  <2> QED BY <1>2, <2>3, <2>4, Dropped
<1> QED BY <1>1, <1>2

\* A split: one group loses a tab but not its last, the other gains it and the focus.
LEMMA SplitKeeps ==
  ASSUME GroupsInv, NEW g \in Groups, NEW d, Split(g, d), In(tabs, g) \ {d} # {}
  PROVE  Sound(tabs') /\ All(tabs') = All(tabs) \cup {d}
<1> DEFINE h == Other(g)
           src == RemoveDocumentFromTabGroup(tabs.editors[g], d)
           dest == [documents |-> tabs.editors[h].documents \cup {d},
                    tabOrder |-> Append(tabs.editors[h].tabOrder, d),
                    recentTabs |-> <<d>> \o tabs.editors[h].recentTabs, active |-> d]
           eds == [tabs.editors EXCEPT ![g] = src, ![h] = dest]
<1>1. Shaped(tabs) /\ h \in Groups /\ h # g
      BY OtherGroup DEF GroupsInv, Sound
<1>2. DOMAIN src = Fields /\ src.documents = In(tabs, g) \ {d}
      BY Removed DEF In
<1>3. DOMAIN dest = Fields /\ dest.documents = In(tabs, h) \cup {d}
      BY DEF Fields, In
<1>4. tabs' = [editors |-> eds, activeEditor |-> h]
      BY <1>1 DEF Split, Shaped
<1> HIDE DEF src, dest
<1>5. DOMAIN eds = Groups /\ eds[g] = src /\ eds[h] = dest
      BY <1>1 DEF Shaped
<1> HIDE DEF eds, h
<1>6. /\ tabs'.activeEditor = h /\ In(tabs', g) = In(tabs, g) \ {d}
      /\ In(tabs', h) = In(tabs, h) \cup {d}
      BY <1>2, <1>3, <1>4, <1>5 DEF In
<1>7. Shaped(tabs')
  <2>1. \A k \in Groups : DOMAIN eds[k] = Fields
        BY <1>1, <1>2, <1>3, <1>5 DEF Groups
  <2> QED BY <1>1, <1>4, <1>5, <2>1 DEF Shaped
<1>8. Apart(tabs') /\ All(tabs') = All(tabs) \cup {d}
      BY <1>1, <1>6 DEF GroupsInv, Sound, Apart, All, Groups
<1>9. Focused(tabs')
      BY <1>1, <1>6 DEF Focused, Groups
<1> QED BY <1>7, <1>8, <1>9 DEF Sound

LEMMA DropLeftKeeps ==
  ASSUME GroupsInv, NEW d, DropTabOnLeftOverlay(d)
  PROVE  Keeps
<1> DEFINE one == [documents |-> {d}, tabOrder |-> <<d>>, recentTabs |-> <<d>>, active |-> d]
           rest == RemoveDocumentFromTabGroup(tabs.editors["primary"], d)
<1>1. DOMAIN one = Fields /\ one.documents = {d}
      BY DEF Fields
<1>2. DOMAIN rest = Fields /\ rest.documents = In(tabs, "primary") \ {d}
      BY Removed DEF In
<1>3. tabs' = [tabs EXCEPT !.editors = [g \in Groups |-> IF g = "primary" THEN one ELSE rest]]
      BY DEF DropTabOnLeftOverlay
<1> HIDE DEF one, rest
<1>4. /\ Shaped(tabs') /\ tabs'.activeEditor = tabs.activeEditor
      /\ In(tabs', "primary") = {d} /\ In(tabs', "secondary") = In(tabs, "primary") \ {d}
      BY <1>1, <1>2, <1>3 DEF GroupsInv, Sound, Shaped, In, Groups
<1>5. d \in In(tabs, "primary") /\ In(tabs, "primary") # {d} /\ In(tabs, "secondary") = {}
      BY DEF DropTabOnLeftOverlay, Splittable, Has, In
<1> QED BY <1>4, <1>5 DEF Keeps, GroupsInv, Sound, Apart, Focused, All

\* closeAll keeps what is global, and the groups in order.
LEMMA CloseAllKeeps ==
  ASSUME GroupsInv, CloseAll
  PROVE  Sound(tabs') /\ All(tabs') = All(tabs) \cap Globals
<1> DEFINE eds == [g \in Groups |-> WithoutFiles(tabs.editors[g])]
           t == [tabs EXCEPT !.editors = eds]
<1>1. \A g \in Groups : /\ DOMAIN eds[g] = Fields
                        /\ eds[g].documents = In(tabs, g) \cap Globals
      BY DEF WithoutFiles, Fields, In
<1>2. DOMAIN eds = Groups /\ tabs' = FixupTabGroups(t)
      BY DEF CloseAll
<1> HIDE DEF eds
<1>3. /\ Shaped(t) /\ t.activeEditor = tabs.activeEditor
      /\ \A g \in Groups : t.editors[g] = eds[g] /\ In(t, g) = In(tabs, g) \cap Globals
      BY <1>1, <1>2 DEF GroupsInv, Sound, Shaped, In
<1> HIDE DEF t
<1>4. All(t) = All(tabs) \cap Globals /\ Apart(t)
      BY <1>3 DEF GroupsInv, Sound, Apart, All, Groups
<1>5. CASE In(t, "primary") = {} /\ In(t, "secondary") # {}
  <2>1. tabs' = SetNewPrimaryEditor(t.editors["secondary"])
        BY <1>2, <1>5 DEF FixupTabGroups, In
  <2>2. DOMAIN t.editors["secondary"] = Fields
        BY <1>3 DEF Shaped, Groups
  <2> QED BY <1>4, <1>5, <2>1, <2>2, Alone DEF In, All
<1>6. CASE ~(In(t, "primary") = {} /\ In(t, "secondary") # {})
  <2> DEFINE a == IF In(t, "secondary") = {} THEN "primary" ELSE t.activeEditor
  <2>1. tabs' = [t EXCEPT !.activeEditor = a]
        BY <1>2, <1>3, <1>6 DEF FixupTabGroups, In, Shaped
  <2>2. /\ Shaped(tabs') /\ tabs'.activeEditor = a
        /\ \A g \in Groups : In(tabs', g) = In(t, g)
        BY <1>3, <2>1 DEF Shaped, In, Groups
  <2> QED BY <1>4, <1>6, <2>2 DEF Sound, Apart, Focused, All, Groups
<1> QED BY <1>5, <1>6

\* A transcript that was read again is closed and opened: it comes back.
LEMMA ReloadKeeps ==
  ASSUME GroupsInv, NEW d, Reload(d)
  PROVE  Sound(tabs') /\ All(tabs') = All(tabs) \cup {d}
<1>1. CASE d \in OpenDocs
  <2>1. PICK g \in Groups : d \in In(tabs, g) /\ tabs' = Opened(Closed(tabs, g, d), d)
    <3> DEFINE g == CHOOSE g \in Groups : d \in Has(g)
    <3>1. \E k \in Groups : d \in Has(k)
          BY <1>1 DEF OpenDocs, Groups
    <3>2. g \in Groups /\ d \in Has(g)
          BY <3>1
    <3> QED BY <1>1, <3>2 DEF Reload, Has, In
  <2>2. /\ Sound(Closed(tabs, g, d))
        /\ All(Closed(tabs, g, d)) = All(tabs) \ {d}
        BY <2>1, ClosedKeeps DEF GroupsInv
  <2>3. Sound(tabs') /\ All(tabs') = (All(tabs) \ {d}) \cup {d}
        BY <2>1, <2>2, OpenedKeeps
  <2> QED BY <2>3, <1>1 DEF OpenDocs, Has, All, In
<1>2. CASE d \notin OpenDocs
      BY <1>2, OpenedKeeps DEF Reload, GroupsInv
<1> QED BY <1>1, <1>2

(***************************************************************************)
(* The invariant, and what leaves the tabs                                 *)
(***************************************************************************)
LEMMA InitGroups == Init => GroupsInv
<1> SUFFICES ASSUME Init PROVE GroupsInv
    OBVIOUS
<1>1. /\ Shaped(tabs) /\ tabs.activeEditor = "primary"
      /\ \A g \in Groups : In(tabs, g) = {}
      BY EmptyEditor DEF Init, Shaped, In, Groups
<1> QED BY <1>1 DEF GroupsInv, Sound, Apart, Focused, All, Groups

\* What a step may take away.
MayLeave(d) == Close(d) \/ (CloseAll /\ d \notin Globals)

LEMMA AllOpen == All(tabs) = OpenDocs /\ All(tabs') = OpenDocs'
BY DEF All, OpenDocs, Has, In

\* The actions of which no document is closed: they keep all, and may add one.
LEMMA Arranged ==
  ASSUME GroupsInv,
         \/ \E g \in Groups : SetActiveEditor(g) \/ SplitTab(g)
         \/ \E d \in Docs :
              \/ Open(d) \/ SetActiveTab(d)
              \/ DropTabOnRightOverlay(d) \/ DropTabOnLeftOverlay(d)
              \/ \E g, h \in Groups :
                   AppendTab(g, h, d) \/ \E x \in Docs : SwapTabs(g, h, d, x)
         \/ \E d \in Files : Reload(d)
  PROVE  GroupsInv' /\ All(tabs) \subseteq All(tabs')
<1> USE DEF Keeps
<1>1. ASSUME NEW g \in Groups, SetActiveEditor(g)
      PROVE  GroupsInv' /\ All(tabs) \subseteq All(tabs')
      BY <1>1, SetActiveEditorKeeps DEF GroupsInv
<1>2. ASSUME NEW g \in Groups, SplitTab(g)
      PROVE  GroupsInv' /\ All(tabs) \subseteq All(tabs')
      BY <1>2, SplitKeeps DEF GroupsInv, SplitTab, Has, In
<1>3. ASSUME NEW d \in Docs, Open(d)
      PROVE  GroupsInv' /\ All(tabs) \subseteq All(tabs')
      BY <1>3, OpenedKeeps DEF GroupsInv, Open
<1>4. ASSUME NEW d \in Docs, SetActiveTab(d)
      PROVE  GroupsInv' /\ All(tabs) \subseteq All(tabs')
  <2>1. PICK g \in Groups : d \in In(tabs, g) /\ tabs' = Focus(tabs, g, d)
        BY <1>4 DEF SetActiveTab, Has, In
  <2> QED BY <2>1, Focusing DEF GroupsInv
<1>5. ASSUME NEW d \in Docs, DropTabOnRightOverlay(d)
      PROVE  GroupsInv' /\ All(tabs) \subseteq All(tabs')
  <2>1. Split("primary", d) /\ In(tabs, "primary") \ {d} # {} /\ "primary" \in Groups
        BY <1>5 DEF DropTabOnRightOverlay, Splittable, Has, In, Groups
  <2> QED BY <2>1, SplitKeeps DEF GroupsInv
<1>6. ASSUME NEW d \in Docs, DropTabOnLeftOverlay(d)
      PROVE  GroupsInv' /\ All(tabs) \subseteq All(tabs')
      BY <1>6, DropLeftKeeps DEF GroupsInv
<1>7. ASSUME NEW d \in Docs, NEW g \in Groups, NEW h \in Groups, AppendTab(g, h, d)
      PROVE  GroupsInv' /\ All(tabs) \subseteq All(tabs')
      BY <1>7, AppendTabKeeps DEF GroupsInv
<1>8. ASSUME NEW d \in Docs, NEW g \in Groups, NEW h \in Groups, NEW x \in Docs,
             SwapTabs(g, h, d, x)
      PROVE  GroupsInv' /\ All(tabs) \subseteq All(tabs')
      BY <1>8, SwapTabsKeeps DEF GroupsInv
<1>9. ASSUME NEW d \in Files, Reload(d)
      PROVE  GroupsInv' /\ All(tabs) \subseteq All(tabs')
      BY <1>9, ReloadKeeps DEF GroupsInv
<1> QED BY <1>1, <1>2, <1>3, <1>4, <1>5, <1>6, <1>7, <1>8, <1>9

\* Every step keeps the groups sound, and takes away only what it closes.
LEMMA StepKeeps ==
  ASSUME GroupsInv, [Next]_vars
  PROVE  GroupsInv' /\ \A d \in OpenDocs \ OpenDocs' : MayLeave(d)
<1>1. CASE All(tabs) \subseteq All(tabs') /\ GroupsInv'
      BY <1>1, AllOpen
<1>2. CASE UNCHANGED tabs
      BY <1>2, AllOpen DEF GroupsInv
<1>3. ASSUME CloseAll
      PROVE  GroupsInv' /\ \A d \in OpenDocs \ OpenDocs' : MayLeave(d)
      BY <1>3, CloseAllKeeps, AllOpen DEF GroupsInv, MayLeave
<1>4. ASSUME NEW d \in Docs, Close(d)
      PROVE  GroupsInv' /\ \A e \in OpenDocs \ OpenDocs' : MayLeave(e)
  <2>1. PICK g \in Groups : d \in In(tabs, g) /\ tabs' = Closed(tabs, g, d)
        BY <1>4 DEF Close, Has, In
  <2>2. Sound(tabs') /\ All(tabs') = All(tabs) \ {d}
        BY <2>1, ClosedKeeps DEF GroupsInv
  <2>3. OpenDocs \ OpenDocs' \subseteq {d}
        BY <2>2, AllOpen
  <2> QED BY <1>4, <2>2, <2>3 DEF GroupsInv, MayLeave
<1>5. ASSUME NEW d \in Files, FileChanged(d) \/ AnswerPrompt(d) \/ OpenChatFile(d) \/ ReadFails(d)
      PROVE  UNCHANGED tabs
      BY <1>5 DEF FileChanged, AnswerPrompt, OpenChatFile, ReadFails
<1> QED BY <1>1, <1>2, <1>3, <1>4, <1>5, Arranged DEF Next, vars

\* Both groups stay sound, whatever is opened, closed, dragged, split and reloaded.
THEOREM GroupsInvariant == Spec => []GroupsInv
<1>1. GroupsInv /\ [Next]_vars => GroupsInv'
      BY StepKeeps
<1> QED BY InitGroups, <1>1, PTL DEF Spec

\* No document is in both groups (the reducer looks for one group only).
THEOREM NeverInBoth == Spec => []OneGroupPerDocument
<1>1. GroupsInv => OneGroupPerDocument
      BY DEF GroupsInv, Sound, Apart, OneGroupPerDocument, Has, In
<1> QED BY GroupsInvariant, <1>1, PTL

\* The active group has tabs if there are any, and the secondary alone never has.
THEOREM FocusOnSomeTab == Spec => []FocusOnTabs
<1>1. GroupsInv => FocusOnTabs
      BY AllOpen DEF GroupsInv, Sound, Shaped, Focused, FocusOnTabs, All, Has, In, Groups
<1> QED BY GroupsInvariant, <1>1, PTL

\* Opening, moving, splitting and reloading lose no tab.
THEOREM NoTabLost == Spec => TabsSurvive
<1>1. GroupsInv /\ [Next]_vars
      => [\A d \in OpenDocs \ OpenDocs' : Close(d) \/ (CloseAll /\ d \notin Globals)]_vars
      BY StepKeeps DEF MayLeave
<1> QED BY GroupsInvariant, <1>1, PTL DEF Spec, TabsSurvive

-----------------------------------------------------------------------------
(* The orders of the tabs; what `filter` does to one is proved by induction. *)

(***************************************************************************)
(* Induction.  The library's induction theorems are about operators; this   *)
(* one is about sets, and follows from the least element of a set.          *)
(***************************************************************************)
LEMMA InductionOnNat ==
  ASSUME NEW T, 0 \in T, \A n \in Nat : n \in T => n + 1 \in T
  PROVE  Nat \subseteq T
<1> SUFFICES ASSUME Nat \ T # {} PROVE FALSE
    OBVIOUS
<1>1. IsWellFoundedOn(OpToRel(<, Nat), Nat)
      BY NatLessThanWellFounded
<1>2. PICK n \in Nat \ T : \A m \in Nat \ T : <<m, n>> \notin OpToRel(<, Nat)
      BY <1>1, WFMin
<1>3. \A m \in Nat \ T : ~(m < n)
      BY <1>2 DEF OpToRel
<1>4. n - 1 \in Nat /\ n - 1 \notin T => FALSE
      BY <1>3
<1> QED BY <1>4

(***************************************************************************)
(* Sequences that list a set                                               *)
(***************************************************************************)
Distinct(s) == \A i, j \in DOMAIN s : s[i] = s[j] => i = j

\* The sequence s lists the elements of S, each of them once.
Lists(s, S) == s \in Seq(S) /\ Distinct(s) /\ \A d \in S : \E i \in DOMAIN s : s[i] = d

LEMMA ListsIsOrder ==
  ASSUME NEW s, NEW S, Lists(s, S)
  PROVE  IsOrderOf(s, S)
<1>1. s \in [1..Len(s) -> S] /\ Len(s) \in Nat /\ DOMAIN s = 1..Len(s)
      BY LenProperties DEF Lists
<1>2. ToSet(s) = S
      BY <1>1 DEF ToSet, Lists
<1>3. s \in Bijection(1..Len(s), S)
      BY <1>1 DEF Bijection, Injection, Surjection, IsInjective, Lists, Distinct
<1>4. Cardinality(S) = Len(s)
      BY <1>1, <1>3, FS_CountingElements DEF ExistsBijection
<1> QED BY <1>2, <1>4 DEF IsOrderOf

\* The steps of `filter`: what is kept of the first n entries.
KeptOf(f, s, S, n) ==
  IF n = 0 THEN <<>> ELSE IF s[n] \in S THEN Append(f[n - 1], s[n]) ELSE f[n - 1]

LEMMA KeptExists ==
  ASSUME NEW s, NEW S
  PROVE  \A n \in Nat : \E f : f = [m \in 0..n |-> KeptOf(f, s, S, m)]
<1> DEFINE T == {n \in Nat : \E f : f = [m \in 0..n |-> KeptOf(f, s, S, m)]}
<1>1. 0 \in T
  <2> DEFINE f == [m \in 0..0 |-> <<>>]
  <2>1. f = [m \in 0..0 |-> KeptOf(f, s, S, m)]
        BY DEF KeptOf
  <2> HIDE DEF f
  <2> QED BY <2>1
<1>2. ASSUME NEW n \in Nat, n \in T
      PROVE  n + 1 \in T
  <2>1. PICK f : f = [m \in 0..n |-> KeptOf(f, s, S, m)]
        BY <1>2
  <2> DEFINE g == [m \in 0..(n + 1) |-> IF m = n + 1 THEN KeptOf(f, s, S, m) ELSE f[m]]
  <2>2. \A m \in 0..n : g[m] = f[m]
        OBVIOUS
  <2>3. \A m \in 0..(n + 1) : KeptOf(g, s, S, m) = KeptOf(f, s, S, m)
    <3> SUFFICES ASSUME NEW m \in 0..(n + 1) PROVE KeptOf(g, s, S, m) = KeptOf(f, s, S, m)
        OBVIOUS
    <3>1. m = 0 \/ m - 1 \in 0..n
          OBVIOUS
    <3> HIDE DEF g
    <3> QED BY <2>2, <3>1 DEF KeptOf
  <2>4. \A m \in 0..(n + 1) : g[m] = KeptOf(f, s, S, m)
    <3> SUFFICES ASSUME NEW m \in 0..(n + 1) PROVE g[m] = KeptOf(f, s, S, m)
        OBVIOUS
    <3>1. m # n + 1 => m \in 0..n
          OBVIOUS
    <3>2. m # n + 1 => f[m] = KeptOf(f, s, S, m)
          BY <2>1, <3>1
    <3> QED BY <3>2
  <2>5. g = [m \in 0..(n + 1) |-> KeptOf(g, s, S, m)]
    <3>1. DOMAIN g = 0..(n + 1) /\ g = [m \in 0..(n + 1) |-> g[m]]
          OBVIOUS
    <3> HIDE DEF g
    <3> QED BY <2>3, <2>4, <3>1
  <2> HIDE DEF g
  <2> QED BY <2>5
<1> HIDE DEF T
<1>3. Nat \subseteq T
      BY <1>1, <1>2, InductionOnNat
<1> QED BY <1>3 DEF T

\* `filter` returns the entries that are in S, and repeats none.
LEMMA KeepingIs ==
  ASSUME NEW D, NEW s \in Seq(D), NEW S
  PROVE  LET k == Keeping(s, S)
         IN  /\ k \in Seq(D)
             /\ \A i \in DOMAIN k : \E j \in DOMAIN s : k[i] = s[j] /\ s[j] \in S
             /\ \A j \in DOMAIN s : s[j] \in S => \E i \in DOMAIN k : k[i] = s[j]
             /\ Distinct(s) => Distinct(k)
<1> DEFINE N == Len(s)
           f == CHOOSE f : f = [m \in 0..N |-> KeptOf(f, s, S, m)]
<1>1. N \in Nat /\ DOMAIN s = 1..N /\ \A n \in 1..N : s[n] \in D
      BY LenProperties
<1>2. f = [m \in 0..N |-> KeptOf(f, s, S, m)]
      BY <1>1, KeptExists
<1>3. Keeping(s, S) = f[N]
      BY DEF Keeping, KeptOf
<1> DEFINE Holds(k, n) ==
             /\ k \in Seq(D)
             /\ \A i \in DOMAIN k : \E j \in 1..n : k[i] = s[j] /\ s[j] \in S
             /\ \A j \in 1..n : s[j] \in S => \E i \in DOMAIN k : k[i] = s[j]
             /\ Distinct(s) => Distinct(k)
           T == {n \in Nat : n <= N => Holds(f[n], n)}
<1> HIDE DEF f, N
<1>4. 0 \in T
  <2>1. f[0] = <<>>
        BY <1>1, <1>2 DEF KeptOf
  <2>2. Holds(<<>>, 0)
        BY DEF Distinct
  <2> HIDE DEF Holds
  <2> QED BY <2>1, <2>2
<1>5. ASSUME NEW n \in Nat, n \in T
      PROVE  n + 1 \in T
  <2> SUFFICES ASSUME n + 1 <= N PROVE Holds(f[n + 1], n + 1)
      OBVIOUS
  <2> DEFINE k == f[n]
             l == f[n + 1]
             x == s[n + 1]
  <2>1. Holds(k, n)
        BY <1>1, <1>5
  <2>2. l = IF x \in S THEN Append(k, x) ELSE k
    <3>1. n + 1 \in 0..N /\ n + 1 # 0 /\ (n + 1) - 1 = n
          BY <1>1
    <3>2. l = KeptOf(f, s, S, n + 1)
          BY <1>2, <3>1
    <3> QED BY <3>1, <3>2 DEF KeptOf
  <2>3. x \in D /\ n + 1 \in DOMAIN s /\ \A j \in 1..n : j \in DOMAIN s
        BY <1>1
  <2> HIDE DEF k, l, x
  <2>4. Len(k) \in Nat /\ DOMAIN k = 1..Len(k)
        BY <2>1, LenProperties
  <2>5. \A j \in 1..(n + 1) : j \in 1..n \/ j = n + 1
        OBVIOUS
  <2>6. CASE x \notin S
        BY <2>1, <2>2, <2>5, <2>6 DEF x, l
  <2>7. CASE x \in S
    <3>1. /\ l \in Seq(D) /\ DOMAIN l = 1..(Len(k) + 1)
          /\ \A i \in DOMAIN k : l[i] = k[i]
          /\ l[Len(k) + 1] = x
      <4>1. l = Append(k, x) /\ k \in Seq(D)
            BY <2>1, <2>2, <2>7
      <4>2. l \in Seq(D) /\ Len(l) = Len(k) + 1
            BY <4>1, <2>3, AppendProperties
      <4>3. DOMAIN l = 1..Len(l)
            BY <4>2, LenProperties
      <4> QED BY <4>1, <4>2, <4>3, <2>3, <2>4, AppendProperties
    <3>2. \A i \in DOMAIN l : i \in DOMAIN k \/ i = Len(k) + 1
          BY <3>1, <2>4
    <3>3. \A i \in DOMAIN k : i \in DOMAIN l /\ i # Len(k) + 1
          BY <3>1, <2>4
    <3>4. \A i \in DOMAIN l : \E j \in 1..(n + 1) : l[i] = s[j] /\ s[j] \in S
      <4> SUFFICES ASSUME NEW i \in DOMAIN l
                   PROVE  \E j \in 1..(n + 1) : l[i] = s[j] /\ s[j] \in S
          OBVIOUS
      <4>1. CASE i = Len(k) + 1
        <5>1. l[i] = s[n + 1] /\ s[n + 1] \in S
              BY <2>7, <3>1, <4>1 DEF x
        <5>2. n + 1 \in 1..(n + 1)
              OBVIOUS
        <5> QED BY <5>1, <5>2
      <4>2. CASE i \in DOMAIN k
        <5>1. PICK j \in 1..n : k[i] = s[j] /\ s[j] \in S
              BY <2>1, <4>2
        <5>2. j \in 1..(n + 1)
              OBVIOUS
        <5> QED BY <5>1, <5>2, <3>1, <4>2
      <4> QED BY <3>2, <4>1, <4>2
    <3>5. \A j \in 1..(n + 1) : s[j] \in S => \E i \in DOMAIN l : l[i] = s[j]
      <4> SUFFICES ASSUME NEW j \in 1..(n + 1), s[j] \in S
                   PROVE  \E i \in DOMAIN l : l[i] = s[j]
          OBVIOUS
      <4>1. CASE j = n + 1
        <5>1. Len(k) + 1 \in DOMAIN l
              BY <2>4, <3>1
        <5> QED BY <4>1, <5>1, <3>1 DEF x
      <4>2. CASE j \in 1..n
        <5>1. PICK i \in DOMAIN k : k[i] = s[j]
              BY <2>1, <4>2
        <5> QED BY <5>1, <3>1, <3>3
      <4> QED BY <2>5, <4>1, <4>2
    <3>6. Distinct(s) => Distinct(l)
      <4> SUFFICES ASSUME Distinct(s) PROVE Distinct(l)
          OBVIOUS
      <4>1. \A i \in DOMAIN k : l[i] # x
        <5> SUFFICES ASSUME NEW i \in DOMAIN k PROVE k[i] # x
            BY <3>1
        <5>1. PICK j \in 1..n : k[i] = s[j]
              BY <2>1
        <5>2. j # n + 1
              OBVIOUS
        <5> QED BY <5>1, <5>2, <2>3 DEF Distinct, x
      <4>2. Distinct(k)
            BY <2>1
      <4> QED BY <4>1, <4>2, <3>1, <3>2 DEF Distinct
    <3> HIDE DEF Holds
    <3>7. Holds(l, n + 1)
          BY <3>1, <3>4, <3>5, <3>6 DEF Holds
    <3> QED BY <3>7 DEF l
  <2> QED BY <2>6, <2>7
<1>6. Holds(f[N], N)
  <2> HIDE DEF Holds
  <2>1. N \in T
    <3> HIDE DEF T
    <3>1. Nat \subseteq T
          BY <1>4, <1>5, InductionOnNat
    <3> QED BY <3>1, <1>1
  <2> QED BY <2>1, <1>1
<1>7. Holds(Keeping(s, S), N)
  <2> HIDE DEF Holds
  <2> QED BY <1>3, <1>6
<1> HIDE DEF T
<1> QED BY <1>1, <1>7

(***************************************************************************)
(* What the reducer does to a list                                         *)
(***************************************************************************)
LEMMA ListShape ==
  ASSUME NEW s, NEW S, Lists(s, S)
  PROVE  /\ s \in Seq(S) /\ Len(s) \in Nat /\ DOMAIN s = 1..Len(s)
         /\ \A i \in DOMAIN s : s[i] \in S
BY LenProperties DEF Lists

LEMMA ListsNothing == Lists(<<>>, {})
BY EmptySeq DEF Lists, Distinct

\* A list is empty if it lists nothing, and what comes first in it is listed.
LEMMA FirstOfList ==
  ASSUME NEW s, NEW S, Lists(s, S)
  PROVE  /\ S = {} <=> s = <<>>
         /\ S # {} => First(s) \in S /\ First(s) = Head(s)
         /\ S = {} => First(s) = Null
<1>1. s \in Seq(S) /\ (S # {} => s # <<>>)
      BY EmptySeq DEF Lists
<1>2. s # <<>> => Head(s) \in S
      BY <1>1, HeadTailProperties
<1> QED BY <1>1, <1>2 DEF First

LEMMA ListsKeeping ==
  ASSUME NEW s, NEW S, Lists(s, S), NEW R
  PROVE  Lists(Keeping(s, R), S \cap R)
<1> DEFINE k == Keeping(s, R)
<1>1. s \in Seq(S) /\ DOMAIN s = 1..Len(s) /\ \A i \in DOMAIN s : s[i] \in S
      BY ListShape
<1>2. /\ k \in Seq(S)
      /\ \A i \in DOMAIN k : \E j \in DOMAIN s : k[i] = s[j] /\ s[j] \in R
      /\ \A j \in DOMAIN s : s[j] \in R => \E i \in DOMAIN k : k[i] = s[j]
      /\ Distinct(k)
  <2>1. Distinct(s)
        BY DEF Lists
  <2>2. s \in Seq(S)
        BY <1>1
  <2> QED BY ONLY <2>1, <2>2, KeepingIs
<1> HIDE DEF k
<1>3. \A i \in DOMAIN k : k[i] \in S \cap R
      BY <1>1, <1>2
<1>4. k \in Seq(S \cap R)
  <2>1. Len(k) \in Nat /\ DOMAIN k = 1..Len(k) /\ k \in [1..Len(k) -> S]
        BY <1>2, LenProperties
  <2>2. k \in [1..Len(k) -> S \cap R]
        BY <1>3, <2>1
  <2> QED BY <2>1, <2>2, SeqDef
<1>5. \A d \in S \cap R : \E i \in DOMAIN k : k[i] = d
  <2> SUFFICES ASSUME NEW d \in S \cap R PROVE \E i \in DOMAIN k : k[i] = d
      OBVIOUS
  <2>1. PICK j \in DOMAIN s : s[j] = d
        BY DEF Lists
  <2> QED BY <1>2, <2>1
<1> QED BY <1>2, <1>4, <1>5 DEF Lists, k

LEMMA ListsWithout ==
  ASSUME NEW s, NEW S \in SUBSET Docs, Lists(s, S), NEW d
  PROVE  Lists(Without(s, d), S \ {d})
<1>1. S \cap (Docs \ {d}) = S \ {d}
      OBVIOUS
<1> QED BY <1>1, ListsKeeping DEF Without

\* A new document put anywhere in a list: before it, after it or in the middle.
LEMMA ListsInserted ==
  ASSUME NEW s, NEW S, Lists(s, S), NEW d, d \notin S, NEW t, NEW i \in 1..(Len(s) + 1),
         t \in Seq(S \cup {d}), Len(t) = Len(s) + 1, t[i] = d,
         \A j \in 1..Len(t) : (j < i => t[j] = s[j]) /\ (j > i => t[j] = s[j - 1])
  PROVE  Lists(t, S \cup {d})
<1>1. Len(s) \in Nat /\ DOMAIN s = 1..Len(s) /\ \A j \in DOMAIN s : s[j] \in S
      BY ListShape
<1>2. DOMAIN t = 1..(Len(s) + 1)
      BY LenProperties
<1>3. \A j \in DOMAIN t : j # i => t[j] = s[IF j < i THEN j ELSE j - 1]
  <2> SUFFICES ASSUME NEW j \in DOMAIN t, j # i
               PROVE  t[j] = s[IF j < i THEN j ELSE j - 1]
      OBVIOUS
  <2>1. j \in 1..Len(t) /\ (j < i \/ j > i)
        BY <1>1, <1>2
  <2>2. CASE j < i
        BY <2>1, <2>2
  <2>3. CASE j > i
        BY <1>1, <1>2, <2>1, <2>3
  <2> QED BY <2>1, <2>2, <2>3
<1>4. \A j \in DOMAIN t : j # i => (IF j < i THEN j ELSE j - 1) \in DOMAIN s
      BY <1>1, <1>2
<1>5. \A j \in DOMAIN t : j # i => t[j] # d
      BY <1>1, <1>3, <1>4
<1>6. ASSUME NEW j \in DOMAIN t, NEW k \in DOMAIN t, t[j] = t[k]
      PROVE  j = k
  <2>1. CASE j = i \/ k = i
        BY <1>5, <1>6, <2>1
  <2>2. CASE j # i /\ k # i
    <3>1. (IF j < i THEN j ELSE j - 1) = (IF k < i THEN k ELSE k - 1)
          BY <1>3, <1>4, <1>6, <2>2 DEF Lists, Distinct
    <3> QED BY <3>1, <2>2, <1>1, <1>2
  <2> QED BY <2>1, <2>2
<1>7. ASSUME NEW e \in S \cup {d}
      PROVE  \E j \in DOMAIN t : t[j] = e
  <2>1. CASE e = d
        BY <1>1, <1>2, <2>1
  <2>2. CASE e # d
    <3>1. PICK k \in DOMAIN s : s[k] = e
          BY <2>2 DEF Lists
    <3>2. k \in 1..Len(s) /\ k \in DOMAIN t /\ k + 1 \in DOMAIN t
          BY <1>1, <1>2
    <3>3. k < i => t[k] = e
      <4>1. k \in 1..Len(t)
            BY <1>1, <3>2
      <4> QED BY <4>1, <3>1
    <3>4. ~(k < i) => t[k + 1] = e
      <4>1. (k + 1) - 1 = k
            BY <3>2
      <4>2. ~(k < i) => t[k + 1] = s[(k + 1) - 1]
            BY <1>1, <1>2, <3>2
      <4> QED BY <4>1, <4>2, <3>1
    <3> QED BY <3>2, <3>3, <3>4
  <2> QED BY <2>1, <2>2
<1> QED BY <1>6, <1>7 DEF Lists, Distinct

LEMMA ListsAppend ==
  ASSUME NEW s, NEW S, Lists(s, S), NEW d, d \notin S
  PROVE  /\ Lists(Append(s, d), S \cup {d})
         /\ S # {} => First(Append(s, d)) = First(s)
<1> DEFINE t == Append(s, d)
           i == Len(s) + 1
<1>1. Len(s) \in Nat /\ s \in Seq(S \cup {d})
      BY ListShape, SeqMonotonic
<1>2. /\ t \in Seq(S \cup {d}) /\ Len(t) = Len(s) + 1 /\ t[i] = d
      /\ \A j \in 1..Len(s) : t[j] = s[j]
      BY <1>1, AppendProperties
<1>3. t # <<>>
      BY <1>1, AppendProperties
<1>4. S # {} => First(t) = First(s)
      BY <1>1, <1>3, FirstOfList, HeadTailAppend DEF First
<1> HIDE DEF t
<1>5. i \in 1..(Len(s) + 1)
      BY <1>1
<1>6. \A j \in 1..Len(t) : (j < i => t[j] = s[j]) /\ (j > i => t[j] = s[j - 1])
      BY <1>1, <1>2
<1>7. Lists(t, S \cup {d})
      BY <1>2, <1>5, <1>6, ListsInserted
<1> QED BY <1>4, <1>7 DEF t

LEMMA ListsPrepend ==
  ASSUME NEW s, NEW S, Lists(s, S), NEW d, d \notin S
  PROVE  /\ Lists(<<d>> \o s, S \cup {d})
         /\ First(<<d>> \o s) = d
<1> DEFINE t == <<d>> \o s
<1>1. Len(s) \in Nat /\ s \in Seq(S \cup {d}) /\ DOMAIN s = 1..Len(s)
      BY ListShape, SeqMonotonic
<1>2. <<d>> \in Seq(S \cup {d}) /\ Len(<<d>>) = 1 /\ <<d>>[1] = d
      OBVIOUS
<1>3. /\ t \in Seq(S \cup {d}) /\ Len(t) = Len(s) + 1
      /\ \A j \in 1..(Len(s) + 1) : t[j] = IF j <= 1 THEN d ELSE s[j - 1]
  <2>1. /\ t \in Seq(S \cup {d}) /\ Len(t) = 1 + Len(s)
        /\ \A j \in 1..(1 + Len(s)) : t[j] = IF j <= 1 THEN <<d>>[j] ELSE s[j - 1]
        BY <1>1, <1>2, ConcatProperties
  <2>2. \A j \in 1..(1 + Len(s)) : j <= 1 => j = 1
        OBVIOUS
  <2> HIDE DEF t
  <2> QED BY <1>1, <1>2, <2>1, <2>2
<1> HIDE DEF t
<1>4. 1 \in 1..(Len(s) + 1) /\ t[1] = d
      BY <1>1, <1>3
<1>5. \A j \in 1..Len(t) : (j < 1 => t[j] = s[j]) /\ (j > 1 => t[j] = s[j - 1])
      BY <1>1, <1>3
<1>6. Lists(t, S \cup {d})
      BY <1>3, <1>4, <1>5, ListsInserted
<1>7. First(t) = d
  <2>1. t # <<>> /\ Head(t) = t[1]
        BY <1>1, <1>3
  <2> QED BY <2>1, <1>4 DEF First
<1> QED BY <1>6, <1>7 DEF t

LEMMA ListsInsertAfter ==
  ASSUME NEW s, NEW S, Lists(s, S), NEW a, NEW d, d \notin S
  PROVE  Lists(InsertAfter(s, a, d), S \cup {d})
<1> DEFINE I == {i \in 1..Len(s) : s[i] = a}
           p == SelectInSeq(s, LAMBDA e : e = a)
<1>1. Len(s) \in Nat /\ s \in Seq(S \cup {d}) /\ DOMAIN s = 1..Len(s)
      BY ListShape, SeqMonotonic
<1>2. p = IF I # {} THEN Min(I) ELSE 0
      BY DEF SelectInSeq
<1>3. I # {} => p \in 1..Len(s)
  <2> SUFFICES ASSUME I # {} PROVE Min(I) \in 1..Len(s)
      BY <1>2
  <2>1. PICK i \in I : TRUE
        OBVIOUS
  <2>2. \A j \in I : j = i
        BY <1>1, <2>1 DEF Lists, Distinct
  <2>3. Min(I) = i
    <3>1. \A x \in I : x \in Int
          OBVIOUS
    <3> HIDE DEF I
    <3> QED BY <2>1, <2>2, <3>1 DEF Min
  <2> QED BY <2>3
<1> HIDE DEF I
<1>4. p = 0 \/ p \in 1..Len(s)
      BY <1>2, <1>3
<1>5. InsertAfter(s, a, d) = IF p = 0 THEN Append(s, d) ELSE InsertAt(s, p + 1, d)
      BY DEF InsertAfter
<1> HIDE DEF p
<1>6. CASE p = 0
      BY <1>5, <1>6, ListsAppend
<1>7. CASE p # 0
  <2> DEFINE u == SubSeq(s, 1, p)
             v == u \o <<d>>
             w == SubSeq(s, p + 1, Len(s))
             t == v \o w
             n == Len(s)
             D == S \cup {d}
  <2>1. p \in 1..n /\ n \in Nat /\ (p + 1) - 1 = p
        BY <1>1, <1>4, <1>7
  <2>2. InsertAfter(s, a, d) = t
        BY <1>5, <1>7, <2>1 DEF InsertAt
  <2>3. \A i \in 1..n : s[i] \in D
        BY <1>1
  <2> HIDE DEF D
  <2>4. u \in Seq(D) /\ Len(u) = p /\ \A i \in 1..p : u[i] = s[i]
    <3>1. \A i \in 1..p : s[i] \in D
          BY <2>1, <2>3
    <3>2. /\ u \in Seq(D) /\ Len(u) = IF 1 <= p THEN p - 1 + 1 ELSE 0
          /\ \A i \in 1..(p - 1 + 1) : u[i] = s[1 + i - 1]
      <4>1. 1 \in Int /\ p \in Int
            BY <2>1
      <4> QED BY ONLY <3>1, <4>1, SubSeqProperties
    <3>3. \A i \in 1..p : i \in 1..(p - 1 + 1) /\ 1 + i - 1 = i
          BY <2>1
    <3> HIDE DEF u
    <3> QED BY <2>1, <3>2, <3>3
  <2>5. /\ w \in Seq(D) /\ Len(w) = n - p
        /\ \A i \in 1..(n - p) : w[i] = s[p + i]
    <3>1. \A i \in (p + 1)..n : s[i] \in D
          BY <2>1, <2>3
    <3>2. /\ w \in Seq(D) /\ Len(w) = IF p + 1 <= n THEN n - (p + 1) + 1 ELSE 0
          /\ \A i \in 1..(n - (p + 1) + 1) : w[i] = s[(p + 1) + i - 1]
      <4>1. p + 1 \in Int /\ n \in Int
            BY <2>1
      <4> QED BY ONLY <3>1, <4>1, SubSeqProperties
    <3>3. \A i \in 1..(n - p) : i \in 1..(n - (p + 1) + 1) /\ (p + 1) + i - 1 = p + i
          BY <2>1
    <3> HIDE DEF w
    <3> QED BY <2>1, <3>2, <3>3
  <2>6. <<d>> \in Seq(D) /\ Len(<<d>>) = 1 /\ <<d>>[1] = d
        BY DEF D
  <2> HIDE DEF u, w
  <2>7. /\ v \in Seq(D) /\ Len(v) = p + 1 /\ v[p + 1] = d
        /\ \A i \in 1..p : v[i] = s[i]
    <3>1. /\ v \in Seq(D) /\ Len(v) = p + 1
          /\ \A i \in 1..(p + 1) : v[i] = IF i <= p THEN u[i] ELSE <<d>>[i - p]
          BY <2>4, <2>6, ConcatProperties
    <3>2. p + 1 \in 1..(p + 1) /\ ~(p + 1 <= p) /\ (p + 1) - p = 1
          BY <2>1
    <3>3. \A i \in 1..p : i \in 1..(p + 1) /\ i <= p
          BY <2>1
    <3> HIDE DEF v
    <3> QED BY <2>4, <2>6, <3>1, <3>2, <3>3
  <2> HIDE DEF v
  <2>8. /\ t \in Seq(D) /\ Len(t) = n + 1
        /\ \A i \in 1..(n + 1) : t[i] = IF i <= p + 1 THEN v[i] ELSE w[i - (p + 1)]
    <3>1. /\ t \in Seq(D) /\ Len(t) = Len(v) + Len(w)
          /\ \A i \in 1..(Len(v) + Len(w)) :
               t[i] = IF i <= Len(v) THEN v[i] ELSE w[i - Len(v)]
      <4>1. v \in Seq(D) /\ w \in Seq(D)
            BY <2>5, <2>7
      <4> QED BY ONLY <4>1, ConcatProperties
    <3>2. Len(v) = p + 1 /\ Len(v) + Len(w) = n + 1
          BY <2>1, <2>5, <2>7
    <3> HIDE DEF t
    <3> QED BY <3>1, <3>2
  <2> HIDE DEF t
  <2>9. p + 1 \in 1..(n + 1) /\ t[p + 1] = d
        BY <2>1, <2>7, <2>8
  <2>10. \A j \in 1..Len(t) :
           (j < p + 1 => t[j] = s[j]) /\ (j > p + 1 => t[j] = s[j - 1])
    <3> SUFFICES ASSUME NEW j \in 1..(n + 1)
                 PROVE  (j < p + 1 => t[j] = s[j]) /\ (j > p + 1 => t[j] = s[j - 1])
        BY <2>8
    <3>1. ASSUME j < p + 1
          PROVE  t[j] = s[j]
      <4>1. j \in 1..p /\ j <= p + 1
            BY <2>1, <3>1
      <4> QED BY <4>1, <2>7, <2>8
    <3>2. ASSUME j > p + 1
          PROVE  t[j] = s[j - 1]
      <4>1. j - (p + 1) \in 1..(n - p) /\ ~(j <= p + 1) /\ p + (j - (p + 1)) = j - 1
            BY <2>1, <3>2
      <4> HIDE DEF n
      <4>2. t[j] = w[j - (p + 1)]
            BY <4>1, <2>8
      <4>3. w[j - (p + 1)] = s[p + (j - (p + 1))]
            BY <4>1, <2>5
      <4> QED BY <4>1, <4>2, <4>3
    <3> QED BY <3>1, <3>2
  <2>11. Lists(t, S \cup {d})
        BY <2>8, <2>9, <2>10, ListsInserted DEF D
  <2> QED BY <2>2, <2>11
<1> QED BY <1>6, <1>7

\* Two entries change places.
LEMMA ListsSwapped ==
  ASSUME NEW s, NEW S \in SUBSET Docs, Lists(s, S), NEW d \in S, NEW x \in S,
         NEW swap,
         swap = [e \in Docs |-> CASE e = d -> x [] e = x -> d [] OTHER -> e]
  PROVE  Lists([i \in DOMAIN s |-> swap[s[i]]], S)
<1> DEFINE t == [i \in DOMAIN s |-> swap[s[i]]]
<1>1. s \in Seq(S) /\ Len(s) \in Nat /\ DOMAIN s = 1..Len(s) /\ \A i \in DOMAIN s : s[i] \in S
      BY ListShape
<1>2. \A e \in S : swap[e] \in S /\ swap[swap[e]] = e
      OBVIOUS
<1>3. t \in [1..Len(s) -> S]
      BY <1>1, <1>2
<1>4. t \in Seq(S)
      BY <1>1, <1>3, SeqDef
<1>5. \A i \in DOMAIN s : swap[t[i]] = s[i]
      BY <1>1, <1>2
<1>6. DOMAIN t = DOMAIN s /\ Distinct(t)
      BY <1>5 DEF Distinct, Lists
<1>7. ASSUME NEW e \in S
      PROVE  \E i \in DOMAIN t : t[i] = e
  <2>1. PICK i \in DOMAIN s : s[i] = swap[e]
        BY <1>2 DEF Lists
  <2> QED BY <2>1, <1>2
<1> HIDE DEF t
<1>8. Lists(t, S)
      BY <1>4, <1>6, <1>7 DEF Lists
<1> QED BY <1>8 DEF t

(***************************************************************************)
(* A group, and the tabs                                                   *)
(***************************************************************************)
\* A group whose lists are of its documents, and which shows the most recent one.
Ordered == {e \in Editor : /\ Lists(e.tabOrder, e.documents)
                           /\ Lists(e.recentTabs, e.documents)
                           /\ e.active = First(e.recentTabs)}
Layout == [editors : [Groups -> Ordered], activeEditor : Groups]

\* What shows the first of its recent ones shows one of its own.
LEMMA OrderedIs ==
  ASSUME NEW S \in SUBSET Docs, NEW s, NEW r, Lists(s, S), Lists(r, S)
  PROVE  [documents |-> S, tabOrder |-> s, recentTabs |-> r, active |-> First(r)] \in Ordered
<1>1. s \in Seq(Docs) /\ r \in Seq(Docs)
      BY SeqMonotonic DEF Lists
<1>2. First(r) \in Docs \cup {Null}
      BY FirstOfList
<1> QED BY <1>1, <1>2 DEF Ordered, Editor

LEMMA OrderedGroup ==
  ASSUME NEW e \in Ordered
  PROVE  /\ e.documents \in SUBSET Docs /\ Lists(e.tabOrder, e.documents)
         /\ Lists(e.recentTabs, e.documents)
         /\ e.active = First(e.recentTabs)
         /\ e = [documents |-> e.documents, tabOrder |-> e.tabOrder,
                 recentTabs |-> e.recentTabs, active |-> e.active]
BY DEF Ordered, Editor

LEMMA OrderedNew == NewEditor \in Ordered
<1>1. First(<<>>) = Null
      BY DEF First
<1> QED BY <1>1, ListsNothing, OrderedIs DEF NewEditor

LEMMA OrderedRemove ==
  ASSUME NEW e \in Ordered, NEW d
  PROVE  RemoveDocumentFromTabGroup(e, d) \in Ordered
<1>1. Lists(Without(e.tabOrder, d), e.documents \ {d})
      /\ Lists(Without(e.recentTabs, d), e.documents \ {d})
      /\ e.documents \ {d} \in SUBSET Docs
      BY OrderedGroup, ListsWithout
<1> QED BY <1>1, OrderedIs, OrderedNew DEF RemoveDocumentFromTabGroup

LEMMA OrderedWithoutFiles ==
  ASSUME NEW e \in Ordered
  PROVE  WithoutFiles(e) \in Ordered
<1>1. Lists(Keeping(e.tabOrder, Globals), e.documents \cap Globals)
      /\ Lists(Keeping(e.recentTabs, Globals), e.documents \cap Globals)
      /\ e.documents \cap Globals \in SUBSET Docs
      BY OrderedGroup, ListsKeeping
<1> QED BY <1>1, OrderedIs DEF WithoutFiles

LEMMA LayoutAlone ==
  ASSUME NEW e \in Ordered
  PROVE  SetNewPrimaryEditor(e) \in Layout
BY OrderedNew DEF SetNewPrimaryEditor, Layout, Groups

Typed == [editors : [Groups -> Editor], activeEditor : Groups]

LEMMA LayoutIs ==
  ASSUME NEW t \in Layout
  PROVE  /\ t \in Typed /\ t.activeEditor \in Groups
         /\ t.editors \in [Groups -> Ordered]
         /\ \A g \in Groups : t.editors[g] \in Ordered /\ t.editors[g] \in Editor
BY DEF Layout, Typed, Ordered

\* A group of which one document comes to the front.
LEMMA LayoutFocus ==
  ASSUME NEW t \in Typed, NEW g \in Groups, NEW d \in t.editors[g].documents,
         \A h \in Groups \ {g} : t.editors[h] \in Ordered,
         Lists(t.editors[g].tabOrder, t.editors[g].documents),
         \/ Lists(t.editors[g].recentTabs, t.editors[g].documents)
         \/ Lists(t.editors[g].recentTabs, t.editors[g].documents \ {d})
  PROVE  Focus(t, g, d) \in Layout
<1> DEFINE e == t.editors[g]
           w == Without(e.recentTabs, d)
           r == <<d>> \o w
           n == [documents |-> e.documents, tabOrder |-> e.tabOrder, recentTabs |-> r, active |-> d]
<1>1. /\ e \in Editor /\ e.documents \in SUBSET Docs
      /\ t.editors \in [Groups -> Editor]
      BY DEF Typed, Editor
<1>2. Lists(w, e.documents \ {d})
  <2>1. e.documents \ {d} \in SUBSET Docs /\ (e.documents \ {d}) \ {d} = e.documents \ {d}
        BY <1>1
  <2> HIDE DEF w
  <2> QED BY <1>1, <2>1, ListsWithout DEF w
<1> HIDE DEF w
<1>3. Lists(r, e.documents) /\ First(r) = d
  <2>1. (e.documents \ {d}) \cup {d} = e.documents
        OBVIOUS
  <2>2. d \notin e.documents \ {d}
        OBVIOUS
  <2> QED BY <1>2, <2>1, <2>2, ListsPrepend
<1> HIDE DEF r
<1>4. n \in Ordered
      BY <1>1, <1>3, OrderedIs
<1> DEFINE eds == [t.editors EXCEPT ![g].active = d, ![g].recentTabs = r]
<1>5. Focus(t, g, d) = [editors |-> eds, activeEditor |-> g]
      BY DEF Focus, r, w
<1>6. DOMAIN eds = Groups /\ eds[g] = n /\ \A h \in Groups \ {g} : eds[h] = t.editors[h]
      BY <1>1 DEF Editor
<1>7. eds \in [Groups -> Ordered]
  <2>1. \A h \in Groups : eds[h] \in Ordered
        BY <1>4, <1>6
  <2>2. eds = [h \in Groups |-> eds[h]]
        BY <1>1
  <2> HIDE DEF eds, n
  <2> QED BY <2>1, <2>2
<1> HIDE DEF eds
<1> QED BY <1>5, <1>7 DEF Layout

LEMMA LayoutFocusOwn ==
  ASSUME NEW t \in Layout, NEW g \in Groups, NEW d \in t.editors[g].documents
  PROVE  Focus(t, g, d) \in Layout
<1>1. /\ t \in Typed /\ \A h \in Groups : t.editors[h] \in Ordered
      /\ Lists(t.editors[g].tabOrder, t.editors[g].documents)
      /\ Lists(t.editors[g].recentTabs, t.editors[g].documents)
      BY LayoutIs, OrderedGroup
<1> QED BY <1>1, LayoutFocus

LEMMA LayoutOpenIn ==
  ASSUME NEW t \in Layout, NEW g \in Groups, NEW d \in Docs
  PROVE  OpenIn(t, g, d) \in Layout
<1>1. CASE d \in t.editors[g].documents
      BY <1>1, LayoutFocusOwn DEF OpenIn
<1>2. CASE d \notin t.editors[g].documents
  <2> DEFINE e == t.editors[g]
             o == InsertAfter(e.tabOrder, e.active, d)
             u == [t EXCEPT !.editors[g].documents = @ \cup {d},
                            !.editors[g].tabOrder = InsertAfter(@, e.active, d)]
  <2>1. OpenIn(t, g, d) = Focus(u, g, d)
        BY <1>2 DEF OpenIn
  <2>2. /\ e.documents \in SUBSET Docs /\ Lists(e.tabOrder, e.documents)
        /\ Lists(e.recentTabs, e.documents) /\ e \in Editor /\ e.active \in Docs \cup {Null}
        BY LayoutIs, OrderedGroup DEF Editor
  <2>3. Lists(o, e.documents \cup {d})
        BY <1>2, <2>2, ListsInsertAfter
  <2>4. u = [t EXCEPT !.editors[g].documents = e.documents \cup {d}, !.editors[g].tabOrder = o]
    <3> DEFINE v == [t EXCEPT !.editors[g].documents = e.documents \cup {d}]
    <3>1. t \in Typed
          BY LayoutIs
    <3>2. v.editors[g].tabOrder = e.tabOrder
          BY <3>1, <2>2 DEF Typed, Editor
    <3> QED BY <3>2
  <2>5. o \in Seq(Docs)
        BY <2>2, <2>3, SeqMonotonic DEF Lists
  <2> HIDE DEF o, u
  <2>6. /\ u \in Typed /\ u.editors[g].documents = e.documents \cup {d}
        /\ u.editors[g].tabOrder = o /\ u.editors[g].recentTabs = e.recentTabs
        /\ \A h \in Groups \ {g} : u.editors[h] = t.editors[h]
    <3> DEFINE f == [e EXCEPT !.documents = e.documents \cup {d}, !.tabOrder = o]
    <3>1. t \in Typed
          BY LayoutIs
    <3>2. /\ f \in Editor /\ f.documents = e.documents \cup {d} /\ f.tabOrder = o
          /\ f.recentTabs = e.recentTabs
          BY <2>2, <2>5 DEF Editor
    <3>3. u = [t EXCEPT !.editors = [t.editors EXCEPT ![g] = f]]
      <4>1. u.editors = [t.editors EXCEPT ![g] = f]
            BY <2>4, <3>1 DEF Typed
      <4>2. u = [t EXCEPT !.editors = u.editors]
            BY <2>4, <3>1 DEF Typed
      <4> QED BY <4>1, <4>2
    <3> HIDE DEF f, e
    <3>5. u \in Typed /\ u.editors[g] = f /\ \A h \in Groups \ {g} : u.editors[h] = t.editors[h]
          BY <3>1, <3>2, <3>3 DEF Typed
    <3> QED BY <3>2, <3>5
  <2>7. (e.documents \cup {d}) \ {d} = e.documents
        BY <1>2
  <2>8. \A h \in Groups : t.editors[h] \in Ordered
        BY LayoutIs
  <2> HIDE DEF e
  <2>9. Focus(u, g, d) \in Layout
        BY <2>2, <2>3, <2>6, <2>7, <2>8, LayoutFocus
  <2> QED BY <2>1, <2>9
<1> QED BY <1>1, <1>2

LEMMA LayoutOpened ==
  ASSUME NEW t \in Layout, NEW d \in Docs
  PROVE  Opened(t, d) \in Layout
<1>1. t.activeEditor \in Groups /\ Other(t.activeEditor) \in Groups
      BY LayoutIs, OtherGroup
<1> QED BY <1>1, LayoutFocusOwn, LayoutOpenIn DEF Opened

LEMMA LayoutClosed ==
  ASSUME NEW t \in Layout, NEW g \in Groups, NEW d
  PROVE  Closed(t, g, d) \in Layout
<1> DEFINE e == RemoveDocumentFromTabGroup(t.editors[g], d)
<1>1. e \in Ordered /\ Other(g) \in Groups /\ t.editors[Other(g)] \in Ordered
      BY LayoutIs, OtherGroup, OrderedRemove
<1> HIDE DEF e
<1>2. [t EXCEPT !.editors[g] = e] \in Layout
      BY <1>1 DEF Layout
<1> QED BY <1>1, <1>2, LayoutAlone DEF Closed, e

LEMMA LayoutMoved ==
  ASSUME NEW t \in Layout, NEW g \in Groups, NEW h \in Groups, g # h,
         NEW src \in Ordered, NEW dest \in Ordered
  PROVE  Moved(t, g, h, src, dest) \in Layout
<1>1. [editors |-> [t.editors EXCEPT ![g] = src, ![h] = dest],
       activeEditor |-> IF src.documents = {} THEN h ELSE t.activeEditor] \in Layout
      BY DEF Layout
<1> QED BY <1>1, LayoutAlone DEF Moved

LEMMA LayoutFixedUp ==
  ASSUME NEW t \in Layout
  PROVE  FixupTabGroups(t) \in Layout
<1>1. t.editors["secondary"] \in Ordered
      BY LayoutIs DEF Groups
<1>2. [t EXCEPT !.activeEditor =
         IF t.editors["secondary"].documents = {} THEN "primary" ELSE @] \in Layout
      BY DEF Layout, Groups
<1> QED BY <1>1, <1>2, LayoutAlone DEF FixupTabGroups

(***************************************************************************)
(* The actions                                                             *)
(***************************************************************************)
OrderInv ==
  /\ tabs \in Layout
  /\ pending \subseteq Files /\ prompts \subseteq Files /\ reloading \subseteq Files

\* A document that comes from the other group is put behind the recent ones.
LEMMA OrderedReceives ==
  ASSUME NEW e \in Ordered, NEW d \in Docs, d \notin e.documents, e.documents # {}, NEW order,
         Lists(order, e.documents \cup {d})
  PROVE  [e EXCEPT !.documents = @ \cup {d}, !.tabOrder = order,
                   !.recentTabs = Append(@, d)] \in Ordered
<1> DEFINE r == Append(e.recentTabs, d)
           n == [e EXCEPT !.documents = @ \cup {d}, !.tabOrder = order,
                          !.recentTabs = Append(@, d)]
<1>1. /\ Lists(e.recentTabs, e.documents) /\ e.active = First(e.recentTabs)
      /\ e \in Editor /\ e.documents \cup {d} \in SUBSET Docs
      BY OrderedGroup DEF Ordered
<1>2. Lists(r, e.documents \cup {d}) /\ e.active = First(r)
      BY <1>1, ListsAppend
<1>3. order \in Seq(Docs) /\ r \in Seq(Docs)
      BY <1>1, <1>2, SeqMonotonic DEF Lists
<1>4. n = [e EXCEPT !.documents = e.documents \cup {d}, !.tabOrder = order, !.recentTabs = r]
      BY <1>1 DEF Editor
<1> HIDE DEF r, n
<1>5. /\ n \in Editor /\ n.documents = e.documents \cup {d} /\ n.tabOrder = order
      /\ n.recentTabs = r /\ n.active = e.active
      BY <1>1, <1>3, <1>4 DEF Editor
<1>6. n \in Ordered
      BY <1>2, <1>5 DEF Ordered
<1> QED BY <1>6 DEF n

\* A tab bar in another order.
LEMMA LayoutReordered ==
  ASSUME NEW t \in Layout, NEW g \in Groups, NEW order, Lists(order, t.editors[g].documents)
  PROVE  [t EXCEPT !.editors[g].tabOrder = order] \in Layout
<1> DEFINE e == t.editors[g]
           n == [e EXCEPT !.tabOrder = order]
<1>1. e \in Ordered /\ e \in Editor
      BY LayoutIs
<1>2. order \in Seq(Docs)
      BY <1>1, SeqMonotonic DEF Lists, Editor
<1>3. n \in Ordered
  <2>1. n \in Editor /\ n.documents = e.documents /\ n.tabOrder = order
        /\ n.recentTabs = e.recentTabs /\ n.active = e.active
        BY <1>1, <1>2 DEF Editor
  <2> HIDE DEF n
  <2> QED BY <1>1, <2>1 DEF Ordered
<1> HIDE DEF n
<1>4. [t EXCEPT !.editors[g] = n] \in Layout
      BY <1>3 DEF Layout
<1> QED BY <1>4 DEF n

LEMMA AppendTabOrders ==
  ASSUME GroupsInv, tabs \in Layout, NEW g \in Groups, NEW h \in Groups, NEW d \in Docs,
         AppendTab(g, h, d)
  PROVE  tabs' \in Layout
<1> DEFINE src == tabs.editors[g]
           dest == tabs.editors[h]
<1>1. src \in Ordered /\ dest \in Ordered /\ d \in src.documents /\ dest.documents # {}
      BY LayoutIs DEF AppendTab, Has
<1>2. /\ src.documents \in SUBSET Docs /\ Lists(src.tabOrder, src.documents)
      /\ Lists(dest.tabOrder, dest.documents)
      BY <1>1, OrderedGroup
<1>3. CASE g = h
  <2> DEFINE order == Append(Without(src.tabOrder, d), d)
  <2>1. (src.documents \ {d}) \cup {d} = src.documents
        BY <1>1
  <2>2. Lists(order, src.documents)
    <3>1. Lists(Without(src.tabOrder, d), src.documents \ {d}) /\ d \notin src.documents \ {d}
          BY <1>2, ListsWithout
    <3> HIDE DEF src
    <3>2. Lists(order, (src.documents \ {d}) \cup {d})
          BY <3>1, ListsAppend
    <3> QED BY <2>1, <3>2
  <2>3. tabs' = [tabs EXCEPT !.editors[g].tabOrder = order]
        BY <1>3 DEF AppendTab
  <2> HIDE DEF order
  <2> QED BY <2>2, <2>3, LayoutReordered
<1>4. CASE g # h
  <2>1. d \notin dest.documents
        BY <1>1, <1>4 DEF GroupsInv, Sound, Apart, In, Groups
  <2> DEFINE order == Append(dest.tabOrder, d)
             n == [dest EXCEPT !.documents = @ \cup {d}, !.tabOrder = order,
                               !.recentTabs = Append(@, d)]
  <2>2. Lists(order, dest.documents \cup {d})
        BY <1>2, <2>1, ListsAppend
  <2>3. n \in Ordered
    <3> HIDE DEF order, dest
    <3> QED BY <1>1, <2>1, <2>2, OrderedReceives
  <2>4. n = [dest EXCEPT !.documents = @ \cup {d}, !.tabOrder = Append(@, d),
                         !.recentTabs = Append(@, d)]
        BY <1>1 DEF Ordered, Editor
  <2>5. tabs' = Moved(tabs, g, h, RemoveDocumentFromTabGroup(src, d), n)
        BY <1>4, <2>4 DEF AppendTab
  <2> HIDE DEF n
  <2>6. RemoveDocumentFromTabGroup(src, d) \in Ordered
        BY <1>1, OrderedRemove
  <2> QED BY <1>4, <2>3, <2>5, <2>6, LayoutMoved
<1> QED BY <1>3, <1>4

LEMMA SwapTabsOrders ==
  ASSUME GroupsInv, tabs \in Layout, NEW g \in Groups, NEW h \in Groups, NEW d \in Docs,
         NEW x \in Docs, SwapTabs(g, h, d, x)
  PROVE  tabs' \in Layout
<1> DEFINE src == tabs.editors[g]
           dest == tabs.editors[h]
<1>1. /\ src \in Ordered /\ dest \in Ordered /\ d \in src.documents
      /\ x \in dest.documents /\ dest.documents # {}
      BY LayoutIs DEF SwapTabs, Has
<1>2. /\ src.documents \in SUBSET Docs /\ Lists(src.tabOrder, src.documents)
      /\ Lists(dest.tabOrder, dest.documents)
      BY <1>1, OrderedGroup
<1>3. CASE g = h
  <2> DEFINE swap == [e \in Docs |-> CASE e = d -> x [] e = x -> d [] OTHER -> e]
             order == [i \in DOMAIN src.tabOrder |-> swap[src.tabOrder[i]]]
  <2>1. tabs' = [tabs EXCEPT !.editors[g].tabOrder = order]
    <3>1. tabs' = [tabs EXCEPT !.editors[g].tabOrder = [i \in DOMAIN @ |-> swap[@[i]]]]
          BY <1>3 DEF SwapTabs
    <3>2. tabs \in Typed
          BY LayoutIs
    <3> QED BY <3>1, <3>2 DEF Typed, Editor
  <2>2. x \in src.documents
        BY <1>1, <1>3
  <2>3. Lists(order, src.documents)
    <3> HIDE DEF src
    <3> QED BY <1>1, <1>2, <2>2, ListsSwapped
  <2> HIDE DEF order
  <2> QED BY <2>1, <2>3, LayoutReordered
<1>4. CASE g # h
  <2>1. d \notin dest.documents
        BY <1>1, <1>4 DEF GroupsInv, Sound, Apart, In, Groups
  <2> DEFINE order == InsertAfter(dest.tabOrder, x, d)
             n == [dest EXCEPT !.documents = @ \cup {d}, !.tabOrder = order,
                               !.recentTabs = Append(@, d)]
  <2>2. Lists(order, dest.documents \cup {d})
        BY <1>2, <2>1, ListsInsertAfter
  <2>3. n \in Ordered
    <3> HIDE DEF order, dest
    <3> QED BY <1>1, <2>1, <2>2, OrderedReceives
  <2>4. n = [dest EXCEPT !.documents = @ \cup {d}, !.tabOrder = InsertAfter(@, x, d),
                         !.recentTabs = Append(@, d)]
        BY <1>1 DEF Ordered, Editor
  <2>5. tabs' = Moved(tabs, g, h, RemoveDocumentFromTabGroup(src, d), n)
        BY <1>4, <2>4 DEF SwapTabs
  <2> HIDE DEF n
  <2>6. RemoveDocumentFromTabGroup(src, d) \in Ordered
        BY <1>1, OrderedRemove
  <2> QED BY <1>4, <2>3, <2>5, <2>6, LayoutMoved
<1> QED BY <1>3, <1>4

LEMMA SplitOrders ==
  ASSUME GroupsInv, tabs \in Layout, NEW g \in Groups, NEW d, d \in In(tabs, g), Split(g, d)
  PROVE  tabs' \in Layout
<1> DEFINE h == Other(g)
           dest == tabs.editors[h]
           r == <<d>> \o dest.recentTabs
           n == [documents |-> dest.documents \cup {d}, tabOrder |-> Append(dest.tabOrder, d),
                 recentTabs |-> r, active |-> d]
           src == RemoveDocumentFromTabGroup(tabs.editors[g], d)
<1>1. h \in Groups /\ h # g /\ dest \in Ordered /\ tabs.editors[g] \in Ordered /\ src \in Ordered
      BY LayoutIs, OtherGroup, OrderedRemove
<1>2. d \notin dest.documents /\ d \in Docs
      BY <1>1, OrderedGroup DEF GroupsInv, Sound, Apart, In, Groups
<1>3. /\ Lists(dest.tabOrder, dest.documents) /\ Lists(dest.recentTabs, dest.documents)
      /\ dest.documents \cup {d} \in SUBSET Docs
      BY <1>1, <1>2, OrderedGroup
<1>4. Lists(r, dest.documents \cup {d}) /\ First(r) = d
      BY <1>2, <1>3, ListsPrepend
<1>5. Lists(Append(dest.tabOrder, d), dest.documents \cup {d})
      BY <1>2, <1>3, ListsAppend
<1> HIDE DEF r, dest
<1>6. n \in Ordered
      BY <1>3, <1>4, <1>5, OrderedIs
<1>7. tabs' = [editors |-> [tabs.editors EXCEPT ![g] = src, ![h] = n], activeEditor |-> h]
  <2>1. tabs.editors \in [Groups -> Ordered]
        BY LayoutIs
  <2> QED BY <1>1, <2>1 DEF Split, r, dest
<1> HIDE DEF n, src, h
<1> QED BY <1>1, <1>6, <1>7 DEF Layout

LEMMA DropLeftOrders ==
  ASSUME tabs \in Layout, NEW d \in Docs, DropTabOnLeftOverlay(d)
  PROVE  tabs' \in Layout
<1> DEFINE one == [documents |-> {d}, tabOrder |-> <<d>>, recentTabs |-> <<d>>, active |-> d]
           rest == RemoveDocumentFromTabGroup(tabs.editors["primary"], d)
<1>1. rest \in Ordered
      BY LayoutIs, OrderedRemove DEF Groups
<1>2. one \in Ordered
  <2>1. Lists(<<d>>, {d}) /\ First(<<d>>) = d
        BY DEF Lists, Distinct, First
  <2>2. {d} \in SUBSET Docs
        OBVIOUS
  <2>3. [documents |-> {d}, tabOrder |-> <<d>>, recentTabs |-> <<d>>, active |-> First(<<d>>)]
        \in Ordered
        BY <2>1, <2>2, OrderedIs
  <2> QED BY <2>1, <2>3
<1>3. tabs' = [tabs EXCEPT !.editors = [g \in Groups |-> IF g = "primary" THEN one ELSE rest]]
      BY DEF DropTabOnLeftOverlay
<1> HIDE DEF one, rest
<1> QED BY <1>1, <1>2, <1>3 DEF Layout

LEMMA CloseAllOrders ==
  ASSUME tabs \in Layout, CloseAll
  PROVE  tabs' \in Layout
<1> DEFINE t == [tabs EXCEPT !.editors = [g \in Groups |-> WithoutFiles(tabs.editors[g])]]
<1>1. \A g \in Groups : WithoutFiles(tabs.editors[g]) \in Ordered
      BY LayoutIs, OrderedWithoutFiles
<1>2. t \in Layout
      BY <1>1 DEF Layout
<1>3. tabs' = FixupTabGroups(t)
      BY DEF CloseAll
<1> HIDE DEF t
<1> QED BY <1>2, <1>3, LayoutFixedUp

\* What prompts is a file that has changed.
LEMMA PromptsForFiles ==
  ASSUME prompts \subseteq Files, pending' \subseteq Files, PromptIfPending
  PROVE  prompts' \subseteq Files
BY DEF PromptIfPending

LEMMA OrderStep ==
  ASSUME GroupsInv, OrderInv, [Next]_vars
  PROVE  OrderInv'
<1> DEFINE Rest == pending' \subseteq Files /\ prompts' \subseteq Files /\ reloading' \subseteq Files
<1>1. ASSUME CloseAll PROVE OrderInv'
      BY <1>1, CloseAllOrders DEF OrderInv, CloseAll
<1>2. ASSUME NEW g \in Groups, SetActiveEditor(g)
      PROVE  OrderInv'
  <2>1. tabs' \in Layout
        BY <1>2 DEF OrderInv, SetActiveEditor, Layout
  <2> QED BY <1>2, <2>1, PromptsForFiles DEF OrderInv, SetActiveEditor
<1>3. ASSUME NEW g \in Groups, SplitTab(g)
      PROVE  OrderInv'
  <2> DEFINE d == tabs.editors[g].active
  <2>1. d \in In(tabs, g)
    <3>1. tabs.editors[g] \in Ordered /\ In(tabs, g) # {}
          BY <1>3, LayoutIs DEF OrderInv, SplitTab, Has, In
    <3> QED BY <3>1, OrderedGroup, FirstOfList DEF In
  <2>2. Split(g, d)
        BY <1>3 DEF SplitTab
  <2> HIDE DEF d
  <2>3. tabs' \in Layout
        BY <2>1, <2>2, SplitOrders DEF OrderInv
  <2> QED BY <1>3, <2>3 DEF OrderInv, SplitTab
<1>4. ASSUME NEW d \in Docs, Open(d)
      PROVE  OrderInv'
  <2>1. tabs' \in Layout
        BY <1>4, LayoutOpened DEF OrderInv, Open
  <2> QED BY <1>4, <2>1, PromptsForFiles DEF OrderInv, Open
<1>5. ASSUME NEW d \in Docs, Close(d)
      PROVE  OrderInv'
      BY <1>5, LayoutClosed DEF OrderInv, Close
<1>6. ASSUME NEW d \in Docs, SetActiveTab(d)
      PROVE  OrderInv'
  <2>1. tabs' \in Layout
        BY <1>6, LayoutFocusOwn DEF OrderInv, SetActiveTab, Has
  <2> QED BY <1>6, <2>1, PromptsForFiles DEF OrderInv, SetActiveTab
<1>7. ASSUME NEW d \in Docs, DropTabOnRightOverlay(d)
      PROVE  OrderInv'
  <2>1. d \in In(tabs, "primary") /\ Split("primary", d) /\ "primary" \in Groups
        BY <1>7 DEF DropTabOnRightOverlay, Splittable, Has, In, Groups
  <2> QED BY <1>7, <2>1, SplitOrders DEF OrderInv, DropTabOnRightOverlay
<1>8. ASSUME NEW d \in Docs, DropTabOnLeftOverlay(d)
      PROVE  OrderInv'
      BY <1>8, DropLeftOrders DEF OrderInv, DropTabOnLeftOverlay
<1>9. ASSUME NEW d \in Docs, NEW g \in Groups, NEW h \in Groups, AppendTab(g, h, d)
      PROVE  OrderInv'
  <2>1. tabs' \in Layout
        BY <1>9, AppendTabOrders DEF OrderInv
  <2> QED BY <1>9, <2>1 DEF OrderInv, AppendTab
<1>10. ASSUME NEW d \in Docs, NEW g \in Groups, NEW h \in Groups, NEW x \in Docs,
              SwapTabs(g, h, d, x)
       PROVE  OrderInv'
  <2>1. tabs' \in Layout
        BY <1>10, SwapTabsOrders DEF OrderInv
  <2> QED BY <1>10, <2>1 DEF OrderInv, SwapTabs
<1>11. ASSUME NEW d \in Files, FileChanged(d)
       PROVE  OrderInv'
       BY <1>11, PromptsForFiles DEF OrderInv, FileChanged
<1>12. ASSUME NEW d \in Files, AnswerPrompt(d) \/ OpenChatFile(d) \/ ReadFails(d)
       PROVE  OrderInv'
       BY <1>12 DEF OrderInv, AnswerPrompt, OpenChatFile, ReadFails
<1>13. ASSUME NEW d \in Files, Reload(d)
       PROVE  OrderInv'
  <2>1. d \in Docs
        BY DEF Docs
  <2>2. tabs' \in Layout
    <3>1. CASE d \in OpenDocs
      <4> DEFINE g == CHOOSE g \in Groups : d \in Has(g)
      <4>1. g \in Groups
            BY <3>1 DEF OpenDocs, Groups
      <4>2. tabs' = Opened(Closed(tabs, g, d), d)
            BY <1>13, <3>1 DEF Reload
      <4> HIDE DEF g
      <4> QED BY <2>1, <4>1, <4>2, LayoutClosed, LayoutOpened DEF OrderInv
    <3>2. CASE d \notin OpenDocs
          BY <1>13, <2>1, <3>2, LayoutOpened DEF Reload, OrderInv
    <3> QED BY <3>1, <3>2
  <2> QED BY <1>13, <2>2, PromptsForFiles DEF OrderInv, Reload
<1>14. CASE UNCHANGED vars
       BY <1>14 DEF OrderInv, vars
<1> QED BY <1>1, <1>2, <1>3, <1>4, <1>5, <1>6, <1>7, <1>8, <1>9, <1>10, <1>11, <1>12, <1>13,
           <1>14 DEF Next

(***************************************************************************)
(* The theorems                                                            *)
(***************************************************************************)
\* Each group's lists are in order, whatever is opened, closed, dragged and reloaded.
THEOREM OrderInvariant == Spec => []OrderInv
<1>1. Init => OrderInv
      BY OrderedNew DEF Init, OrderInv, Layout, Groups
<1>2. GroupsInv /\ OrderInv /\ [Next]_vars => OrderInv'
      BY OrderStep
<1> QED BY GroupsInvariant, <1>1, <1>2, PTL DEF Spec

\* The tabs are two groups of documents with sequences of them.
THEOREM EditorTabsTyped == Spec => []TypeOK
<1>1. OrderInv => TypeOK
      BY LayoutIs DEF OrderInv, TypeOK, Typed
<1> QED BY OrderInvariant, <1>1, PTL

\* A group's documents, its tab bar and its recent tabs always list the same
\* documents, each once (the reducer keeps three lists of them).
THEOREM TabsAlwaysMatch == Spec => []TabsMatchDocuments
<1>1. OrderInv => TabsMatchDocuments
      BY LayoutIs, OrderedGroup, ListsIsOrder DEF OrderInv, TabsMatchDocuments
<1> QED BY OrderInvariant, <1>1, PTL

\* A group always shows its most recent document, and one if it has any.
THEOREM ShowsTheMostRecent == Spec => []ActiveIsRecent
<1>1. OrderInv => ActiveIsRecent
      BY LayoutIs, OrderedGroup DEF OrderInv, ActiveIsRecent
<1> QED BY OrderInvariant, <1>1, PTL
=============================================================================
