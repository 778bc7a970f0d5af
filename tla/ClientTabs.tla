----------------------------- MODULE ClientTabs -----------------------------
(***************************************************************************)
(* The list of tabs in one browser (useTabs.ts) over the requests of       *)
(* tabs-api.ts and the routes of tab-routes.ts, while other browsers       *)
(* change the same list.  The server's document and its operations are     *)
(* those of TabDocument; how it is kept is in TabStore.                    *)
(*                                                                         *)
(* A route changes the document first and reads the view it answers with   *)
(* later.  Answers reach the browser in any order, or are lost.  The       *)
(* state of the shell in a view and the error texts are left out; setting  *)
(* state and running the effects that follow are one step.                 *)
(***************************************************************************)
EXTENDS TabDocument, FiniteSets, SequencesExt

CONSTANTS TabRequests,        \* requests of this browser in flight
          NoTab,         \* null
          InitialTabs,  \* the tabs at the start, in order
          MaxTabChanges,   \* bound: changes users ask for, here and elsewhere
          MaxHides      \* bound: how often the page is hidden

TabsAssumption ==
    /\ NoTab \notin Ids /\ MaxTabChanges \in Nat /\ MaxHides \in Nat /\ Names # {}
    /\ InitialTabs \in Seq(Ids) /\ Len(InitialTabs) <= MaxCount
    /\ \A i, j \in DOMAIN InitialTabs : InitialTabs[i] = InitialTabs[j] => i = j

VARIABLES
    doc,        \* the document of the server
    ui,         \* the hook: tabs, revision, selected and visited
    tabCall,       \* each request in flight, or Free
    pageVisible,    \* document.visibilityState
    poll,       \* the timer the hook knows, and how many it has lost sight of
    budget      \* changes, hides and unused identifiers that are left

tabsVars == <<doc, ui, tabCall, pageVisible, poll, budget>>

Free == [kind |-> "none", op |-> NoTab, revision |-> 0, shown |-> <<>>, st |-> "free",
         answer |-> NoTab]
IdSeq(tabs) == [i \in DOMAIN tabs |-> tabs[i].id]
ShownIn(tabs) == {tabs[i].id : i \in DOMAIN tabs}
FreshTab(id) == [id |-> id, name |-> CHOOSE n \in Names : TRUE, position |-> 0, activity |-> 0,
              desired |-> "active"]

\* Only reorder sends a revision; shown, what its user saw, is a ghost.
Send(kind, op) ==
    LET sent == [Free EXCEPT !.kind = kind, !.op = op, !.st = "sent"]
    IN IF kind # "reorder" THEN sent
       ELSE [sent EXCEPT !.revision = ui.revision, !.shown = IdSeq(ui.tabs)]

\* The first render: the list is requested, and the poll timer runs.
TabsInit ==
    /\ doc = [revision |-> 0, tabs |-> [i \in DOMAIN InitialTabs |->
                 [FreshTab(InitialTabs[i]) EXCEPT !.position = i - 1]]]
    /\ ui = [tabs |-> <<>>, revision |-> 0, selected |-> NoTab, visited |-> {}]
    /\ \E c \in TabRequests :
          tabCall = [d \in TabRequests |->
                        IF d = c THEN [Free EXCEPT !.kind = "list", !.st = "sent"] ELSE Free]
    /\ pageVisible = TRUE /\ poll = [timer |-> TRUE, stray |-> 0]
    /\ budget = [changes |-> MaxTabChanges, hides |-> MaxHides, ids |-> Ids \ ToSet(InitialTabs)]

-----------------------------------------------------------------------------
(***************************************************************************)
(* What an answer does to the list.                                        *)
(***************************************************************************)
\* The effect that marks the selected tab as visited.
Visit(u) ==
    IF \E i \in DOMAIN u.tabs : u.tabs[i].id = u.selected /\ u.tabs[i].desired = "active"
    THEN [u EXCEPT !.visited = @ \cup {u.selected}] ELSE u

Reselect(tabs, selected) ==
    IF selected \in ShownIn(tabs) THEN selected
    ELSE IF tabs = <<>> THEN NoTab ELSE tabs[1].id

\* Mutant: an answer whose revision is known is skipped.
ApplyCollectionSkips(u, next) ==
    IF next.revision <= u.revision THEN u
    ELSE [u EXCEPT !.tabs = next.tabs, !.revision = next.revision,
                   !.selected = Reselect(next.tabs, @)]

\* applyCollection
ApplyCollection(u, next) ==
    [u EXCEPT !.tabs = next.tabs, !.revision = next.revision,
              !.selected = Reselect(next.tabs, @)]

Substituted(tabs, tab) == [i \in DOMAIN tabs |-> IF tabs[i].id = tab.id THEN tab ELSE tabs[i]]

CreateAnswered(u, tab) ==
    [u EXCEPT !.tabs = Append(@, tab), !.revision = @ + 1, !.selected = tab.id]

RenameAnswered(u, tab) == [u EXCEPT !.tabs = Substituted(@, tab), !.revision = @ + 1]

\* update
LifecycleAnswered(u, tab) == [u EXCEPT !.tabs = Substituted(@, tab)]

\* Mutant: the neighbour is looked up in the list that still has the tab.
NeighborOld(tabs, rest, at) == IF rest = <<>> THEN NoTab ELSE tabs[at].id

\* The tab before the one that is closed, else the first
Neighbor(tabs, rest, at) ==
    LET before == IF at > 2 THEN at - 1 ELSE 1
    IN IF rest = <<>> THEN NoTab
       ELSE rest[IF before > Len(rest) THEN Len(rest) ELSE before].id

\* findIndex, counted from 1
FirstAt(tabs, id) ==
    IF id \notin ShownIn(tabs) THEN 0
    ELSE CHOOSE n \in DOMAIN tabs :
             tabs[n].id = id /\ \A m \in DOMAIN tabs : tabs[m].id = id => n <= m

\* filter, which removes a tab that is shown twice twice
Without(tabs, id) ==
    LET upTo[n \in 0 .. Len(tabs)] ==
            IF n = 0 THEN <<>>
            ELSE IF tabs[n].id = id THEN upTo[n - 1] ELSE Append(upTo[n - 1], tabs[n])
    IN upTo[Len(tabs)]

Numbered(tabs) == [i \in DOMAIN tabs |-> [tabs[i] EXCEPT !.position = i - 1]]

CloseAnswered(u, id) ==
    LET rest == Without(u.tabs, id)
    IN [u EXCEPT !.tabs = Numbered(rest), !.revision = @ + 1, !.visited = @ \ {id},
                 !.selected = IF @ = id THEN Neighbor(u.tabs, rest, FirstAt(u.tabs, id)) ELSE @]

-----------------------------------------------------------------------------
(***************************************************************************)
(* Polling.                                                                *)
(***************************************************************************)
\* schedule: the variable holds only the latest timer
SchedulePoll(p) ==
    IF ~pageVisible THEN p
    ELSE [timer |-> TRUE, stray |-> IF p.timer THEN p.stray + 1 ELSE p.stray]

\* The refresh that ends here was part of a polling chain.
Chain(c) == IF tabCall[c].kind = "poll" THEN SchedulePoll(poll) ELSE poll

TimerFires(c) ==
    /\ poll.timer /\ tabCall[c] = Free
    /\ poll' = [poll EXCEPT !.timer = FALSE]
    /\ tabCall' = [tabCall EXCEPT ![c] = Send("poll", NoTab)]
    /\ UNCHANGED <<doc, ui, pageVisible, budget>>

StrayFires(c) ==
    /\ poll.stray > 0 /\ tabCall[c] = Free
    /\ poll' = [poll EXCEPT !.stray = @ - 1]
    /\ tabCall' = [tabCall EXCEPT ![c] = Send("poll", NoTab)]
    /\ UNCHANGED <<doc, ui, pageVisible, budget>>

\* onVisibility
HidePage ==
    /\ pageVisible /\ budget.hides > 0
    /\ pageVisible' = FALSE /\ poll' = [poll EXCEPT !.timer = FALSE]
    /\ budget' = [budget EXCEPT !.hides = @ - 1]
    /\ UNCHANGED <<doc, ui, tabCall>>

ShowPage(c) ==
    /\ ~pageVisible /\ tabCall[c] = Free
    /\ pageVisible' = TRUE /\ poll' = [poll EXCEPT !.timer = FALSE]
    /\ tabCall' = [tabCall EXCEPT ![c] = Send("poll", NoTab)]
    /\ UNCHANGED <<doc, ui, budget>>

-----------------------------------------------------------------------------
(***************************************************************************)
(* The user, here and in another browser.                                  *)
(***************************************************************************)
Select(id) ==
    /\ pageVisible /\ id \in ShownIn(ui.tabs)
    /\ ui' = Visit([ui EXCEPT !.selected = id])
    /\ UNCHANGED <<doc, tabCall, pageVisible, poll, budget>>

Spend == budget.changes > 0 /\ budget' = [budget EXCEPT !.changes = @ - 1]

\* What a user who is shown these tabs may ask for; reorderBy moves a tab by one.
Wishes(tabs) ==
    LET shown == IdSeq(tabs)
    IN [op : {"create"}, name : Names]
       \cup [op : {"rename"}, id : ShownIn(tabs), name : Names]
       \cup [op : {"setDesiredState"}, id : ShownIn(tabs), desired : {"active", "stopped"}]
       \cup [op : {"remove"}, id : ShownIn(tabs)]
       \cup {[op |-> "reorder", ids |-> [shown EXCEPT ![i] = shown[i + 1], ![i + 1] = shown[i]]] :
                i \in 1 .. Len(shown) - 1}

Ask(c) ==
    /\ pageVisible /\ tabCall[c] = Free /\ Spend
    /\ \E wish \in Wishes(ui.tabs) : tabCall' = [tabCall EXCEPT ![c] = Send(wish.op, wish)]
    /\ UNCHANGED <<doc, ui, pageVisible, poll>>

\* health when the session of a tab has changed; restart and restartBridge
\* answer a view like it and leave the document as it is.
Health(c) ==
    /\ tabCall[c] = Free /\ Spend
    /\ \E id \in ShownIn(ui.tabs) :
           tabCall' = [tabCall EXCEPT ![c] = Send("health", [op |-> "health", id |-> id])]
    /\ UNCHANGED <<doc, ui, pageVisible, poll>>

\* refresh without polling, on the way back from the administration
RefreshTabs(c) ==
    /\ pageVisible /\ tabCall[c] = Free /\ Spend
    /\ tabCall' = [tabCall EXCEPT ![c] = Send("list", NoTab)]
    /\ UNCHANGED <<doc, ui, pageVisible, poll>>

-----------------------------------------------------------------------------
(***************************************************************************)
(* The server.                                                             *)
(***************************************************************************)
Changed(d, o) ==
    CASE o.op = "create" -> Created(d, o)
      [] o.op = "rename" -> Renamed(d, o)
      [] o.op = "setDesiredState" -> StateSet(d, o)
      [] o.op = "remove" -> Removed(d, o)
      [] o.op = "reorder" -> Reordered(d, o)

\* The store gives a new tab an identifier that was never used.
Completed(o) ==
    IF o.op = "create" THEN {[op |-> "create", id |-> id, name |-> o.name] : id \in budget.ids}
    ELSE {o}
Used(o) == IF o.op = "create" THEN {o.id} ELSE {}

\* Another browser, which sees the document as it is
Elsewhere ==
    /\ budget.changes > 0
    /\ \E wish \in Wishes(doc.tabs) : \E o \in Completed(wish) :
           /\ ~Refused(o, doc.revision, doc)
           /\ doc' = Changed(doc, o)
           /\ budget' = [budget EXCEPT !.changes = @ - 1, !.ids = @ \ Used(o)]
    /\ UNCHANGED <<ui, tabCall, pageVisible, poll>>

\* The route changes the document.
Changes(c) == tabCall[c].kind \notin {"list", "poll", "health"}

\* The first half of a route: the store changes the document, or refuses.
Apply(c) ==
    /\ tabCall[c].st = "sent" /\ Changes(c)
    /\ \E o \in Completed(tabCall[c].op) :
           IF Refused(o, tabCall[c].revision, doc)
           THEN /\ tabCall' = [tabCall EXCEPT ![c].st =
                                   IF o.op = "reorder" THEN "conflict" ELSE "refused"]
                /\ UNCHANGED <<doc, budget>>
           ELSE /\ doc' = Changed(doc, o)
                /\ budget' = [budget EXCEPT !.ids = @ \ Used(o)]
                /\ tabCall' = [tabCall EXCEPT ![c].op = o,
                                        ![c].st = IF o.op = "remove" THEN "answered" ELSE "viewing"]
    /\ UNCHANGED <<ui, pageVisible, poll>>

\* The second half: the view is read, of the list or of one tab.
View(c) ==
    /\ tabCall[c].st = "viewing" \/ (tabCall[c].st = "sent" /\ ~Changes(c))
    /\ tabCall' =
           IF tabCall[c].kind \in {"list", "poll", "reorder"}
           THEN [tabCall EXCEPT ![c].st = "answered", ![c].answer = doc]
           ELSE IF tabCall[c].op.id \in IdsOf(doc)
           THEN [tabCall EXCEPT ![c].st = "answered",
                                ![c].answer = doc.tabs[IndexOf(doc, tabCall[c].op.id)]]
           ELSE [tabCall EXCEPT ![c].st = "refused"]
    /\ UNCHANGED <<doc, ui, pageVisible, poll, budget>>

-----------------------------------------------------------------------------
(***************************************************************************)
(* Answers reach the browser.                                              *)
(***************************************************************************)
TabsAnswered(u, k) ==
    CASE k.kind \in {"list", "poll", "reorder"} -> ApplyCollection(u, k.answer)
      [] k.kind = "create" -> CreateAnswered(u, k.answer)
      [] k.kind = "rename" -> RenameAnswered(u, k.answer)
      [] k.kind \in {"setDesiredState", "health"} -> LifecycleAnswered(u, k.answer)
      [] k.kind = "remove" -> CloseAnswered(u, k.op.id)

Deliver(c) ==
    /\ tabCall[c].st = "answered"
    /\ ui' = Visit(TabsAnswered(ui, tabCall[c]))
    /\ poll' = Chain(c)
    /\ tabCall' = [tabCall EXCEPT ![c] = Free]
    /\ UNCHANGED <<doc, pageVisible, budget>>

\* The server refuses, or the request or its answer is lost.
Fail(c) ==
    /\ tabCall[c].st \notin {"free", "conflict"}
    /\ poll' = Chain(c)
    /\ tabCall' = [tabCall EXCEPT ![c] = Free]
    /\ UNCHANGED <<doc, ui, pageVisible, budget>>

\* reorder reloads the list after a conflict.
Conflict(c) ==
    /\ tabCall[c].st = "conflict"
    /\ tabCall' = [tabCall EXCEPT ![c] = Send("list", NoTab)]
    /\ UNCHANGED <<doc, ui, pageVisible, poll, budget>>

-----------------------------------------------------------------------------
TabsNext ==
    \/ \E c \in TabRequests : \/ TimerFires(c) \/ StrayFires(c) \/ ShowPage(c)
                        \/ Ask(c) \/ Health(c) \/ RefreshTabs(c)
                        \/ Apply(c) \/ View(c) \/ Deliver(c) \/ Fail(c) \/ Conflict(c)
    \/ \E id \in Ids : Select(id)
    \/ HidePage \/ Elsewhere

TabsSpec == TabsInit /\ [][TabsNext]_tabsVars

-----------------------------------------------------------------------------
(***************************************************************************)
(* Properties.                                                             *)
(***************************************************************************)
\* What a request carries, and what is known of it in the browser and the server
TabOp ==
    [op : {"create"}, name : Names] \cup [op : {"create", "rename"}, id : Ids, name : Names]
    \cup [op : {"setDesiredState"}, id : Ids, desired : {"active", "stopped"}]
    \cup [op : {"remove", "health"}, id : Ids] \cup [op : {"reorder"}, ids : Seq(Ids)]
TabCall ==
    [kind : {"none", "list", "poll", "create", "rename", "setDesiredState", "remove", "reorder",
             "health"},
     op : TabOp \cup {NoTab}, revision : Nat, shown : Seq(Ids),
     st : {"free", "sent", "viewing", "answered", "refused", "conflict"},
     answer : Document \cup Tab \cup {NoTab}]
Ui == [tabs : Seq(Tab), revision : Nat, selected : Ids \cup {NoTab}, visited : SUBSET Ids]

TabsTypeOK ==
    /\ ValidDocument(doc) /\ ui \in Ui /\ tabCall \in [TabRequests -> TabCall]
    /\ pageVisible \in BOOLEAN /\ poll \in [timer : BOOLEAN, stray : Nat]
    /\ budget \in [changes : 0 .. MaxTabChanges, hides : 0 .. MaxHides, ids : SUBSET Ids]

\* Nobody has seen an identifier that is not in use yet.
Unseen(u, unused) == (ShownIn(u.tabs) \cup u.visited) \cap unused = {}
UnusedIsUnseen == IdsOf(doc) \cap budget.ids = {} /\ Unseen(ui, budget.ids)

\* Requests carry what their kind needs, and so do their answers.
CallFits(k, unused) ==
    /\ k.kind = "none" <=> k.st = "free"
    /\ k.kind \notin {"none", "list", "poll"} => k.op \in TabOp /\ k.op.op = k.kind
    /\ k.st = "conflict" => k.kind = "reorder"
    /\ k.st = "answered" /\ k.kind \in {"list", "poll", "reorder"} =>
           k.answer \in Document /\ IdsOf(k.answer) \cap unused = {}
    /\ k.st = "answered" /\ k.kind \in {"create", "rename", "setDesiredState", "health"} =>
           k.answer \in Tab /\ k.answer.id \notin unused
AnswersFit == \A c \in TabRequests : CallFits(tabCall[c], budget.ids)

\* Whatever answers arrive in whatever order, the selected tab is one of the
\* tabs shown, and none is selected only where there is none.
Selected(u) == IF u.tabs = <<>> THEN u.selected = NoTab ELSE u.selected \in ShownIn(u.tabs)
SelectionIsShown == Selected(ui)

\* While the page is visible some timer or refresh keeps the list up to date,
\* also after errors and after the page was hidden during a refresh.
ListIsPolled ==
    pageVisible => poll.timer \/ poll.stray > 0 \/ \E c \in TabRequests : tabCall[c].kind = "poll"

\* useTabs.ts: in whatever order answers arrive, and whoever changes the tabs, the
\* selected tab is shown, what is shown, visited or answered is a tab the server has or
\* had, and a timer or a request keeps a list that is visible up to date.
TabsAreKept ==
    TabsTypeOK /\ UnusedIsUnseen /\ AnswersFit /\ SelectionIsShown /\ ListIsPolled

\* useTabs.test.tsx: a created tab is added to the list, which has each tab once.
TabsShownOnce == \A i, j \in DOMAIN ui.tabs : ui.tabs[i].id = ui.tabs[j].id => i = j

\* useTabs.ts: when the order was changed elsewhere, the list is reloaded; so a
\* reorder that the server accepts was made from the server's own order.
NoBlindReorder ==
    [][\A c \in TabRequests :
           tabCall[c].kind = "reorder" /\ tabCall[c].st = "sent" /\ tabCall'[c].st = "viewing" =>
           tabCall[c].shown = IdSeq(doc.tabs)]_tabsVars

=============================================================================
