------------------------------- MODULE NavTree -------------------------------
(***************************************************************************)
(* The navigation tree of the generated documentation                      *)
(* (doc/html/navtree.js): items are created when their parent is first     *)
(* opened, from data that a script may still have to bring (getScript);    *)
(* navTo opens the way to the item of the page that is shown and selects   *)
(* it; with synchronisation off it goes to the link kept in localStorage   *)
(* instead.  Scripts that are appended to a document arrive in any order,  *)
(* and each runs its callback then, on whatever the tree has become.       *)
(*                                                                         *)
(* A node is named by the way to it: the root is <<>>, its only child the  *)
(* main page <<0>>.  Abstracted: labels, icons, indents, scrolling to an   *)
(* anchor and its glow, line numbers as anchors (navTo drops them, and     *)
(* they are in no index), the durations of slideUp and slideDown.          *)
(***************************************************************************)
EXTENDS Integers, Sequences, SequencesExt, FiniteSets

CONSTANTS
  Node,        \* all nodes of the tree
  Lazy,        \* those whose childrenData is the name of a script
  Page,        \* the pages of the documentation
  Anchor,      \* Anchor[p]: the anchors on page p; other pages may have the same
  NoAnchor,    \* no hash in the URL
  Link,        \* Link[n]: the page and anchor a node leads to
  Index,       \* Index[i]: NAVTREEINDEXi, the ways to the URLs it lists
  Part,        \* Part[u]: the index that the search in NAVTREEINDEX finds, or -1
  MainPage,    \* NAVTREE[0][1]
  MaxLoads     \* bound: scripts asked for and not here

Url   == UNION {[page : {p}, anchor : Anchor[p] \cup {NoAnchor}] : p \in Page}
NoUrl == [page |-> "", anchor |-> NoAnchor]    \* the empty link in localStorage
Root == <<>>
Kid(n, i) == Append(n, i)
Parent == {Front(n) : n \in Node \ {Root}}

ASSUME NodeAssumption == /\ {Root, <<0>>} \subseteq Node /\ Parent \subseteq Node
                         /\ Lazy \subseteq Parent \ {Root}
                         /\ \A n \in Node : n \in Seq(Nat)
ASSUME IndexAssumption ==
  \A i \in DOMAIN Index : \A u \in DOMAIN Index[i] : Index[i][u] \in Seq(Nat)
ASSUME PartAssumption == 0 \in DOMAIN Index /\ \A u \in Url : Part[u] \in DOMAIN Index \cup {-1}
ASSUME LinkAssumption ==
  NoUrl.page \notin Page /\ \A n \in Node : Link[n].page \in Page => Link[n] \in Url
ASSUME MaxLoadsAssumption == MaxLoads \in Nat

VARIABLES
  tree,        \* the object o with its nodes; its fields are given by TypeOK
  location,    \* the page that is shown and the hash in its URL
  loaded,      \* has the window's load event been?
  navpath,     \* localStorage: the link to stay on, NoUrl for none
  sync,        \* the class sync of the button nav-sync
  goal,        \* history: the way that was last taken, and the URL that led to it
  alone        \* history: no other navigation can have left items selected; see Toward

vars == <<tree, location, loaded, navpath, sync, goal, alone>>

-----------------------------------------------------------------------------
(* The functions of navtree.js, as functions of the tree t.                *)

\* childrenData is an array: given with the parent's, or brought by a script.
HasArray(t, n) == n \in Parent /\ (n \in Lazy => n \in t.arrived)

Items(t) == {n \in Node \ {Root} : t.created[Front(n)] > 0}

\* getScript appends a script to the document; callback says what it runs.
GetScript(t, callback) == [t EXCEPT !.scripts = Append(@, callback)]

\* Variant with a mistake: the children are created each time.
OpenAgain(t, nodes) ==
  [t EXCEPT !.created = [n \in Parent |-> IF n \in nodes THEN @[n] + 1 ELSE @[n]],
            !.expanded = @ \cup nodes]

\* Nodes with an array are opened: getNode creates their children once.
Open(t, nodes) ==
  [t EXCEPT !.created = [n \in Parent |-> IF n \in nodes /\ @[n] = 0 THEN 1 ELSE @[n]],
            !.expanded = @ \cup nodes]

\* Variant with a mistake: a node without children is opened, too.
ExpandNodeAny(t, n) ==
  CASE n \in t.expanded                       -> t
    [] n \notin t.expanded /\ HasArray(t, n)  -> Open(t, {n})
    [] n \notin t.expanded /\ ~HasArray(t, n) -> GetScript(t, [kind |-> "expand", node |-> n])

ExpandNode(t, n) ==
  CASE n \notin Parent \ t.expanded                  -> t
    [] n \in Parent \ t.expanded /\ HasArray(t, n)  -> Open(t, {n})
    [] n \in Parent \ t.expanded /\ ~HasArray(t, n) -> GetScript(t, [kind |-> "expand", node |-> n])

\* The items with the class of the hash, or else n (Root for none), are selected.
SelectAndHighlight(t, hash, n) ==
  LET a == {m \in Items(t) : hash # NoAnchor /\ Link[m] = [page |-> location.page, anchor |-> hash]}
  IN  [t EXCEPT !.selected = @ \cup (IF a # {} THEN a ELSE {n} \ {Root}),
                !.retry = TRUE]

(* showNode goes down from n along breadcrumbs, from breadcrumbs[index] on, *)
(* and opens every node on the way.  It stops where a script has to come    *)
(* first, and its callback goes on from there, along the breadcrumbs of     *)
(* that time.  With no child at the breadcrumb the handler throws.          *)
ShowLeaf(t, n, index, hash) ==
  LET leaf == Kid(n, IF index <= Len(t.breadcrumbs) THEN t.breadcrumbs[index] ELSE -1)
  IN  CASE leaf \notin Node -> t
        [] leaf \in Lazy \ t.arrived ->
             GetScript(t, [kind |-> "child", node |-> n, leaf |-> leaf,
                           index |-> index, hash |-> hash])
        [] OTHER -> SelectAndHighlight(
                      IF location.page = MainPage THEN ExpandNode(t, leaf) ELSE t, hash, leaf)

ShowNode(t, n, index, hash) ==
  LET steps == Max({0, Len(t.breadcrumbs) - index})
      way   == [k \in 0 .. steps |-> n \o SubSeq(t.breadcrumbs, index, index + k - 1)]
      stops == {k \in 0 .. steps : ~HasArray(t, way[k])}
      stop  == IF stops = {} THEN steps + 1 ELSE Min(stops)
      shown == Open(t, {way[k] : k \in 0 .. stop - 1})
  IN  CASE stops = {} -> ShowLeaf(shown, way[steps], index + steps, hash)
        [] stops # {} /\ way[stop] \in Lazy ->
             GetScript(shown, [kind |-> "show", node |-> way[stop],
                               index |-> index + stop, hash |-> hash])
        [] OTHER -> SelectAndHighlight(shown, hash, Root)

\* The way to a URL in index i: with its hash, without it, or to the main page.
Way(i, u) == LET page == [u EXCEPT !.anchor = NoAnchor]
             IN  <<0>> \o (IF u \in DOMAIN Index[i] THEN Index[i][u]
                       ELSE IF page \in DOMAIN Index[i] THEN Index[i][page] ELSE <<>>)

\* The link of an item is in the index that is searched, with the way to an item.
ASSUME WayAssumption == \A n \in Node : Link[n] \in Url =>
  LET i == Part[Link[n]]
  IN  i # -1 /\ Way(i, Link[n]) \in Node /\ Link[Way(i, Link[n])] = Link[n]

\* The index and the URL that navTo goes by: index 0 and the main page for none.
PartOf(u)   == IF Part[u] = -1 THEN 0 ELSE Part[u]
Resolved(u) == IF Part[u] = -1 THEN [u EXCEPT !.page = MainPage] ELSE u

\* A way to an anchor is for the page of that anchor only.
ASSUME WayPageAssumption == \A u \in Url :
  LET n == Way(PartOf(u), Resolved(u))
  IN  n \in Node /\ Link[n].anchor # NoAnchor => Link[n].page = u.page

GotoNode(t, i, u) == ShowNode([t EXCEPT !.breadcrumbs = Way(i, u)], Root, 1, u.anchor)

\* What navTo looks for: the stored link, if any.
Wanted(u) == IF navpath # NoUrl THEN navpath ELSE u

NavTo(t, u) ==
  LET w == Wanted(u)
  IN  IF PartOf(w) \in t.parts THEN GotoNode(t, PartOf(w), Resolved(w))
      ELSE GetScript(t, [kind |-> "index", part |-> PartOf(w), url |-> Resolved(w)])

-----------------------------------------------------------------------------
NewTree == [arrived |-> {}, created |-> [n \in Parent |-> 0], expanded |-> {}, selected |-> {},
            breadcrumbs |-> <<>>, parts |-> {}, scripts |-> <<>>, retry |-> FALSE]

Cleared(t) == [t EXCEPT !.selected = {}]

\* A navigation is under way while a script is out that it waits for.
Waits(callback)   == callback.kind # "expand"
Navigating(t)     == \E i \in DOMAIN t.scripts : Waits(t.scripts[i])

(* The items in s are selected for the goal g: all with the link of the     *)
(* item where the way leads; or, with a link kept of another page, all     *)
(* with that link's anchor on the page that is shown.                      *)
Fit(s, g) == \/ s = {}
             \/ g.way \in Node /\ \A m \in s : Link[m] = Link[g.way]
             \/ /\ g.url.page # location.page /\ g.url.anchor # NoAnchor
                /\ \A m \in s : Link[m] = [page |-> location.page, anchor |-> g.url.anchor]

(* The document goes to g, and the code has made the tree t.  The new       *)
(* navigation is alone when no other is under way, and none that was not   *)
(* alone itself can have left what is selected.                            *)
Toward(g, t) == goal' = g /\ alone' = (~Navigating(t) /\ (alone \/ t.selected = {}))

Goal(u) == [way |-> Way(PartOf(Wanted(u)), Resolved(Wanted(u))), url |-> Wanted(u)]

Navigate(t, u) == tree' = NavTo(t, u) /\ Toward(Goal(u), t)

\* Variant with a mistake: links are stored although the tree follows the pages.
StoreLinkAlways(u) == navpath' = u

StoreLink(u) == navpath' = IF sync THEN navpath ELSE u

\* A document is opened and initNavTree makes its tree.
Document(u) == /\ location' = u /\ tree' = NewTree /\ loaded' = FALSE
               /\ sync' = (navpath' = NoUrl)
               /\ goal' = [way |-> Root, url |-> NoUrl] /\ alone' = TRUE

Init == /\ location \in Url /\ tree = NewTree /\ loaded = FALSE
        /\ navpath = NoUrl /\ sync = TRUE
        /\ goal = [way |-> Root, url |-> NoUrl] /\ alone = TRUE

\* The page once more; or another page, or this one without a hash, by a
\* link of the text or by one of the tree.
OpenPage(u) == /\ \/ u = location /\ UNCHANGED navpath
                  \/ /\ u.page # location.page \/ u.anchor = NoAnchor
                     /\ UNCHANGED navpath \/ \E n \in Items(tree) : Link[n] = u /\ StoreLink(u)
               /\ Document(u)

\* The handler of load clears no selection: it is alone when there is none.
WindowLoad == /\ ~loaded /\ loaded' = TRUE
              /\ tree' = NavTo([tree EXCEPT !.retry = TRUE], location)
              /\ goal' = Goal(location) /\ alone' = (~Navigating(tree) /\ tree.selected = {})
              /\ UNCHANGED <<location, navpath, sync>>

\* Variant with a mistake: what was selected stays selected.
HashChangeKeepsSelection(a) ==
  LET u == [location EXCEPT !.anchor = a]
  IN  /\ a # location.anchor /\ location' = u
      /\ Navigate(tree, u)
      /\ UNCHANGED <<loaded, navpath, sync>>

\* The handler of hashchange, which an animation may keep from going back.
HashChange(a) ==
  LET u == [location EXCEPT !.anchor = a]
  IN  /\ a # location.anchor /\ location' = u
      /\ CASE a = NoAnchor -> \/ Navigate(Cleared(tree), u)
                              \/ UNCHANGED <<tree, goal, alone>>
           [] OTHER -> Navigate(IF \E m \in tree.selected : Link[m] = u
                                THEN tree ELSE Cleared(tree), u)
      /\ UNCHANGED <<loaded, navpath, sync>>

\* The link of an item to an anchor of this page; the hash changes later.
ClickAnchor(n) ==
  /\ n \in Items(tree) /\ Link[n].page = location.page /\ Link[n].anchor # NoAnchor
  /\ StoreLink(Link[n])
  /\ tree' = IF n \in tree.selected THEN tree ELSE [tree EXCEPT !.selected = {n}]
  /\ Toward([way |-> n, url |-> Link[n]], IF n \in tree.selected THEN tree ELSE Cleared(tree))
  /\ UNCHANGED <<location, loaded, sync>>

\* The arrow of an item: it closes, or opens as soon as its data is there.
Toggle(n) ==
  /\ n \in Items(tree) \cap Parent
  /\ tree' = IF n \in tree.expanded THEN [tree EXCEPT !.expanded = @ \ {n}]
             ELSE ExpandNode(tree, n)
  /\ UNCHANGED <<location, loaded, navpath, sync, goal, alone>>

\* When the tree is kept at a URL that it is not at, what is selected may stay
\* so when it goes there.
ToggleSyncButton ==
  /\ sync' = ~sync
  /\ navpath' = IF sync THEN location ELSE NoUrl
  /\ alone' = (alone /\ (sync => goal.url \in {location, NoUrl}))
  /\ UNCHANGED <<tree, location, loaded, goal>>

\* What the script brings, and what its callback goes on with.
Arrive(t, n)        == [t EXCEPT !.arrived = @ \cup {n}]
ArriveBelow(t, n, m) == [Arrive(t, n) EXCEPT !.expanded = @ \ {m}]

ExpandArrives(t, c) == ExpandNode(Arrive(t, c.node), c.node)
ShowArrives(t, c)   == ShowNode(Arrive(t, c.node), c.node, c.index, c.hash)
ChildArrives(t, c)  == ShowNode(ArriveBelow(t, c.leaf, c.node), c.node, c.index, c.hash)
IndexArrives(t, c)  == GotoNode([t EXCEPT !.parts = @ \cup {c.part}], c.part, c.url)

ScriptArrives(i) ==
  LET c == tree.scripts[i]
      t == [tree EXCEPT !.scripts = RemoveAt(@, i)]
  IN  /\ tree' = CASE c.kind = "expand" -> ExpandArrives(t, c)
                   [] c.kind = "show"   -> ShowArrives(t, c)
                   [] c.kind = "child"  -> ChildArrives(t, c)
                   [] c.kind = "index"  -> IndexArrives(t, c)
      /\ UNCHANGED <<location, loaded, navpath, sync, goal, alone>>

\* showRoot: retry until there is an item to scroll to.
Retry == /\ tree.retry /\ tree.selected # {}
         /\ tree' = [tree EXCEPT !.retry = FALSE]
         /\ UNCHANGED <<location, loaded, navpath, sync, goal, alone>>

User == \/ \E u \in Url : OpenPage(u)
        \/ \E a \in Anchor[location.page] \cup {NoAnchor} : HashChange(a)
        \/ \E n \in Node : ClickAnchor(n) \/ Toggle(n)
        \/ ToggleSyncButton

Next == /\ \/ User \/ WindowLoad \/ Retry
           \/ \E i \in DOMAIN tree.scripts : ScriptArrives(i)
        /\ Len(tree'.scripts) <= MaxLoads

Spec == Init /\ [][Next]_vars

-----------------------------------------------------------------------------
Goals  == [way : Seq(Nat), url : Url \cup {NoUrl}]

TypeOK == /\ tree.arrived \subseteq Lazy /\ tree.created \in [Parent -> Nat]
          /\ tree.expanded \subseteq Parent /\ tree.selected \subseteq Node \ {Root}
          /\ tree.breadcrumbs \in Seq(Nat) /\ tree.parts \subseteq DOMAIN Index
          /\ Len(tree.scripts) <= MaxLoads /\ tree.retry \in BOOLEAN
          /\ location \in Url /\ loaded \in BOOLEAN /\ sync \in BOOLEAN
          /\ navpath \in Url \cup {NoUrl} /\ goal \in Goals /\ alone \in BOOLEAN

(* However often and in whatever order the scripts arrive, the children of *)
(* a node are created once, from its data, under a parent that is in the   *)
(* tree; and only what is in the tree is open or selected.                 *)
ChildrenOnce ==
  /\ \A n \in Parent : tree.created[n] > 0 =>
       tree.created[n] = 1 /\ HasArray(tree, n) /\ (n # Root => n \in Items(tree))
  /\ \A n \in tree.expanded : tree.created[n] > 0
  /\ tree.selected \subseteq Items(tree)

(* An item is selected once the scripts are here, and what is selected is  *)
(* one item, with its namesakes, of the link navigated to: a hash change   *)
(* clears what was selected, or keeps it only when it is for the new hash, *)
(* too.  Not so when a navigation began before another was done, when the  *)
(* page's load came with an item selected already, or when the tree was    *)
(* told to stay on the document's URL while it was at another one; then it *)
(* is so again from the next navigation on that clears the selection.      *)
SelectionFollows ==
  loaded /\ alone /\ ~Navigating(tree) =>
    /\ goal.way \in Node => tree.selected # {}
    /\ Fit(tree.selected, goal)

\* The button shows whether the tree stays on a link, over pages and clicks.
SyncShowsLink == sync <=> navpath = NoUrl
=============================================================================
