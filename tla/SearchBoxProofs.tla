--------------------------- MODULE SearchBoxProofs ---------------------------
(***************************************************************************)
(* Theorems about SearchBox, for all texts, filters, entries and any       *)
(* number of key timers.                                                   *)
(*                                                                         *)
(* The methods of the panel call each other three deep.  For each of them  *)
(* a lemma says that it keeps PanelInv and what it does to the timers; the *)
(* lemma of an action then joins those of the methods that it calls.       *)
(* The arrow keys come last: the rows that are displayed follow each       *)
(* other, because the entries are in order, and an element of the page has *)
(* the focus only while it is displayed (FocusInv).                        *)
(***************************************************************************)
EXTENDS SearchBox, DataTheorems

\* The panel with any number of key timers: KeyUp bounds them only afterwards.
PanelType ==
  [field : Texts, active : BOOLEAN, last : Query,
   index : Section \cup {SelectItemCount}, mark : Section \cup {-1},
   results : BOOLEAN, close : BOOLEAN, select : BOOLEAN,
   keyTimeout : BOOLEAN, keyTimers : Nat,
   hideTimeout : BOOLEAN, hideTimers : Nat,
   focus : Element \cup {Nowhere, Field} \cup {Select(i) : i \in Section},
   loading : Document \cup {Blank}]

\* What is displayed, or awaited, with document d in the frame.
Displays(b, d) == IF b.loading = Blank THEN d ELSE b.loading

\* Document d is the answer to text t in one of the sections.
Answers(t, d) == \E s \in Section : d = Location(s, t)

(* The results are of the last search, and a last search that is known has *)
(* results: without this a text could be taken for searched that is not.   *)
Shape(b, d) ==
  /\ b \in PanelType
  /\ b.last # Empty => b.results
  /\ b.close = b.results
  /\ b.results => Displays(b, d) # Blank /\ Answers(b.last, Displays(b, d))

PanelInv(b, d) == Shape(b, d) /\ (b.keyTimeout => b.keyTimers > 0)

SameHide(b, c) == c.hideTimeout = b.hideTimeout /\ c.hideTimers = b.hideTimers
FewerKeys(b, c) == c.keyTimers <= b.keyTimers

\* What has the focus when it is set: an element of the page, the field, a filter.
Target(e) == \/ e \in {Nowhere, Field}
             \/ \E i \in Section : e = Select(i)
             \/ \E r : e = Item(r)
             \/ \E r, c : e = Child(r, c)

-----------------------------------------------------------------------------
LEMMA EmptyIsQuery == Empty \in Query
<1>1. TrimLeft(Empty) = Empty
  BY DEF TrimLeft, Empty
<1> QED
  BY <1>1, TextsAssumption DEF Query

\* The document that Search asks for is there.
LEMMA LocationIs ==
  ASSUME NEW s \in Section, NEW t \in Query
  PROVE  /\ Location(s, t) \in Document /\ Location(s, t) # Blank
         /\ Answers(t, Location(s, t))
<1> DEFINE found == {i \in DOMAIN Content[s] : t = Empty \/ Content[s][i] = t[1]}
<1>1. found \in SUBSET Nat /\ found \subseteq DOMAIN Content[s]
  BY ContentAssumption
<1>4. Answers(t, Location(s, t))
  BY DEF Answers
<1>2. CASE found = {}
  <2>1. Location(s, t) = [page |-> NoMatches, query |-> <<>>]
    BY <1>2 DEF Location, Empty
  <2> QED
    BY <1>4, <2>1, SMTT(30) DEF Document, Blank, NoMatches
<1>3. CASE found # {}
  <2> DEFINE p == <<s, Min(found) - 1>>
  <2>1. Location(s, t) = [page |-> p, query |-> t]
    BY <1>3 DEF Location
  <2>2. Min(found) \in DOMAIN Content[s]
    BY <1>1, <1>3, MinIsLeast
  <2>3. p \in DOMAIN Entries
    BY <2>2, ContentAssumption
  <2>4. p # <<>>
    OBVIOUS
  <2> HIDE DEF p
  <2> QED
    BY <1>4, <2>1, <2>3, <2>4 DEF Document, Blank
<1> QED
  BY <1>2, <1>3

LEMMA RenderedIsElement ==
  ASSUME doc \in Document \cup {Blank}, NEW e, Target(e), OnPage(e), Rendered(e)
  PROVE  e \in Element
<1>1. Shown \subseteq Row
  BY DEF Shown, Matches, Row
<1>2. Row # {} => doc.page \in DOMAIN Entries /\ Row = RowsOf(doc.page)
  BY DEF Row, RowsOf
<1>3. CASE \E r : e = Item(r)
  <2>1. PICK r : e = Item(r)
    BY <1>3
  <2>2. r \in Row
    BY <2>1, <1>1 DEF Rendered, Item
  <2> QED
    BY <2>1, <2>2, <1>2 DEF Element, ElementsOf
<1>4. CASE \E r, c : e = Child(r, c)
  <2>1. PICK r, c : e = Child(r, c)
    BY <1>4
  <2>2. r \in Row /\ c \in 0 .. Kids(r) - 1
    BY <2>1, <1>1 DEF Rendered, Child
  <2>3. c \in 0 .. Entries[doc.page][r + 1].kids - 1
    BY <2>2 DEF Kids
  <2> QED
    BY <2>1, <2>2, <2>3, <1>2 DEF Element, ElementsOf
<1> QED
  BY <1>3, <1>4 DEF Target, OnPage, Nowhere, Field, Select

-----------------------------------------------------------------------------
(* What the text says when no timer runs and no handler is owed.           *)
Caught(b, o) ==
  b.active /\ b.keyTimers = 0 /\ ~o /\ Strip(b.field) # Empty /\ b.index \in Section
    => b.results /\ Strip(b.last) = Strip(b.field)

\* b becomes c by a method that has no part in the timers.
Leaves(b, c) == /\ SameHide(b, c) /\ FewerKeys(b, c)
                /\ \A o \in BOOLEAN : Caught(b, o) => Caught(c, o)

LEMMA ActivateKeeps ==
  ASSUME NEW b, NEW d, PanelInv(b, d), NEW a \in BOOLEAN
  PROVE  PanelInv(Activate(b, a), d) /\ Leaves(b, Activate(b, a))
<1>1. CASE (a \/ b.results) /\ b.field # Label
  BY <1>1 DEF Activate, Leaves, SameHide, FewerKeys, PanelInv, Shape, PanelType
<1>2. CASE (a \/ b.results) /\ b.field = Label
  <2> DEFINE c == [b EXCEPT !.field = Empty, !.active = TRUE]
  <2>1. Activate(b, a) = c
    BY <1>2 DEF Activate
  <2>2. c \in PanelType
    BY TextsAssumption DEF PanelInv, Shape, PanelType
  <2>3. PanelInv(c, d)
    BY <2>2 DEF PanelInv, Shape, PanelType, Displays
  <2>4. Leaves(b, c)
    BY SpacesAssumption DEF Leaves, SameHide, FewerKeys, Caught, PanelInv, Shape, PanelType
  <2> QED
    BY <2>1, <2>3, <2>4
<1>3. CASE ~ (a \/ b.results)
  <2> DEFINE c == [b EXCEPT !.field = Label, !.active = FALSE, !.last = Empty]
  <2>1. Activate(b, a) = c
    BY <1>3 DEF Activate
  <2>2. c \in PanelType
    BY TextsAssumption, EmptyIsQuery DEF PanelInv, Shape, PanelType
  <2>3. PanelInv(c, d)
    BY <1>3, <2>2 DEF PanelInv, Shape, PanelType, Displays
  <2>4. Leaves(b, c)
    BY DEF Leaves, SameHide, FewerKeys, Caught, PanelInv, Shape, PanelType
  <2> QED
    BY <2>1, <2>3, <2>4
<1> QED
  BY <1>1, <1>2, <1>3, Zenon

\* What moves only the focus is of no consequence.
LEMMA FocusOnly ==
  ASSUME NEW b, NEW d, PanelInv(b, d),
         NEW e \in Element \cup {Nowhere, Field} \cup {Select(i) : i \in Section}
  PROVE  PanelInv([b EXCEPT !.focus = e], d) /\ Leaves(b, [b EXCEPT !.focus = e])
<1> DEFINE c == [b EXCEPT !.focus = e]
<1>1. c \in PanelType
  BY DEF PanelInv, Shape, PanelType
<1>2. PanelInv(c, d)
  BY <1>1 DEF PanelInv, Shape, PanelType, Displays
<1>3. Leaves(b, c)
  BY DEF Leaves, SameHide, FewerKeys, Caught, PanelInv, Shape, PanelType
<1> QED
  BY <1>2, <1>3

LEMMA LeavesTransitive ==
  ASSUME NEW b, NEW c, NEW e, Leaves(b, c), Leaves(c, e),
         b.keyTimers \in Nat, c.keyTimers \in Nat, e.keyTimers \in Nat
  PROVE  Leaves(b, e)
  BY DEF Leaves, SameHide, FewerKeys

LEMMA PanelTimers == ASSUME NEW b, NEW d, PanelInv(b, d) PROVE b.keyTimers \in Nat
  BY DEF PanelInv, Shape, PanelType

LEMMA LeavesSame == ASSUME NEW b, NEW d, PanelInv(b, d) PROVE Leaves(b, b)
  BY DEF Leaves, SameHide, FewerKeys, PanelInv, Shape, PanelType

LEMMA MoveFocusKeeps ==
  ASSUME NEW b, NEW d, PanelInv(b, d),
         NEW e \in Element \cup {Nowhere, Field} \cup {Select(i) : i \in Section}
  PROVE  PanelInv(MoveFocus(b, e), d) /\ Leaves(b, MoveFocus(b, e))
<1> DEFINE c == [b EXCEPT !.focus = e]
<1>1. PanelInv(c, d) /\ Leaves(b, c)
  BY FocusOnly
<1>2. CASE b.focus = e
  <2>1. MoveFocus(b, e) = b
    BY <1>2, Zenon DEF MoveFocus
  <2> QED
    BY <2>1, LeavesSame
<1>3. ASSUME NEW a \in BOOLEAN
      PROVE  PanelInv(Activate(c, a), d) /\ Leaves(b, Activate(c, a))
  <2> HIDE DEF c
  <2>1. PanelInv(Activate(c, a), d) /\ Leaves(c, Activate(c, a))
    BY <1>1, ActivateKeeps
  <2> QED
    BY <1>1, <2>1, LeavesTransitive, PanelTimers
<1>4. CASE b.focus # e /\ b.focus = Field
  <2>1. MoveFocus(b, e) = Activate(c, FALSE)
    BY <1>4, Zenon DEF MoveFocus
  <2> QED
    BY <2>1, <1>3
<1>5. CASE b.focus # e /\ b.focus # Field /\ e = Field
  <2>1. MoveFocus(b, e) = Activate(c, TRUE)
    BY <1>5, Zenon DEF MoveFocus
  <2> QED
    BY <2>1, <1>3
<1>6. CASE b.focus # e /\ b.focus # Field /\ e # Field
  <2>1. MoveFocus(b, e) = c
    BY <1>6 DEF MoveFocus
  <2> QED
    BY <2>1, <1>1
<1> QED
  BY <1>2, <1>4, <1>5, <1>6

LEMMA FocusKeeps ==
  ASSUME doc \in Document \cup {Blank}, NEW b, NEW d, PanelInv(b, d), NEW e, Target(e)
  PROVE  PanelInv(Focus(b, e), d) /\ Leaves(b, Focus(b, e))
<1>1. CASE e \in Element \cup {Nowhere, Field} \cup {Select(i) : i \in Section}
  <2>1. Focus(b, e) \in {b, MoveFocus(b, e)}
    BY DEF Focus
  <2> QED
    BY <1>1, <2>1, MoveFocusKeeps, LeavesSame
<1>2. CASE e \notin Element \cup {Nowhere, Field} \cup {Select(i) : i \in Section}
  <2>1. e # Field /\ e[1] # "select" /\ ~ (OnPage(e) /\ Rendered(e))
    BY <1>2, RenderedIsElement DEF Target, Item, Child
  <2>2. Focus(b, e) = b
    BY <2>1 DEF Focus
  <2> QED
    BY <2>2, LeavesSame
<1> QED
  BY <1>1, <1>2

LEMMA CloseResultsWindowKeeps ==
  ASSUME NEW b, NEW d, PanelInv(b, d)
  PROVE  PanelInv(CloseResultsWindow(b), d) /\ Leaves(b, CloseResultsWindow(b))
<1> DEFINE f == IF OnPage(b.focus) THEN Nowhere ELSE b.focus
           c == [b EXCEPT !.results = FALSE, !.close = FALSE, !.focus = f]
           e == [c EXCEPT !.field = Label, !.active = FALSE, !.last = Empty]
<1>1. CloseResultsWindow(b) = e
  <2>1. HideResults(b) = c
    BY DEF HideResults, PanelInv, Shape, PanelType
  <2>2. ~ c.results
    BY DEF PanelInv, Shape, PanelType
  <2> QED
    BY <2>1, <2>2 DEF CloseResultsWindow, Activate
<1>2. f \in Element \cup {Nowhere, Field} \cup {Select(i) : i \in Section}
  BY DEF PanelInv, Shape, PanelType
<1> HIDE DEF f
<1>3. e \in PanelType
  BY <1>2, TextsAssumption, EmptyIsQuery DEF PanelInv, Shape, PanelType
<1>4. PanelInv(e, d)
  BY <1>3 DEF PanelInv, Shape, PanelType
<1>5. Leaves(b, e)
  BY DEF Leaves, SameHide, FewerKeys, Caught, PanelInv, Shape, PanelType
<1> QED
  BY <1>1, <1>4, <1>5

LEMMA CloseSelectionWindowKeeps ==
  ASSUME NEW b, NEW d, PanelInv(b, d)
  PROVE  PanelInv(CloseSelectionWindow(b), d) /\ Leaves(b, CloseSelectionWindow(b))
<1> DEFINE f == IF b.focus[1] = "select" THEN Nowhere ELSE b.focus
           c == [b EXCEPT !.select = FALSE, !.focus = f]
<1>1. CloseSelectionWindow(b) = c
  BY DEF CloseSelectionWindow, PanelInv, Shape, PanelType
<1>2. f \in Element \cup {Nowhere, Field} \cup {Select(i) : i \in Section}
  BY DEF PanelInv, Shape, PanelType
<1> HIDE DEF f
<1>3. c \in PanelType
  BY <1>2 DEF PanelInv, Shape, PanelType
<1>4. PanelInv(c, d)
  BY <1>3 DEF PanelInv, Shape, PanelType, Displays
<1>5. Leaves(b, c)
  BY DEF Leaves, SameHide, FewerKeys, Caught, PanelInv, Shape, PanelType
<1> QED
  BY <1>1, <1>4, <1>5

-----------------------------------------------------------------------------
\* A search leaves nothing to be searched.
LEMMA SearchDone ==
  ASSUME NEW b, NEW d, Shape(b, d)
  PROVE  /\ PanelInv(Search(b), d) /\ SameHide(b, Search(b)) /\ FewerKeys(b, Search(b))
         /\ \A o \in BOOLEAN : Caught(Search(b), o)
<1> DEFINE text == TrimLeft(b.field)
<1>1. CASE b.index \notin Section
  <2> DEFINE c == [b EXCEPT !.keyTimeout = FALSE]
  <2>1. Search(b) = c
    BY <1>1 DEF Search
  <2>2. c \in PanelType
    BY DEF Shape, PanelType
  <2>3. PanelInv(c, d)
    BY <2>2 DEF PanelInv, Shape, PanelType, Displays
  <2>4. SameHide(b, c) /\ FewerKeys(b, c) /\ \A o \in BOOLEAN : Caught(c, o)
    BY <1>1 DEF SameHide, FewerKeys, Caught, Shape, PanelType
  <2> QED
    BY <2>1, <2>3, <2>4
<1>2. CASE b.index \in Section
  <2> DEFINE l == Location(b.index, text)
             x == b.close \/ ~b.results
             c == [b EXCEPT !.keyTimeout = FALSE, !.loading = l, !.close = x,
                            !.results = TRUE, !.last = text]
  <2>1. Search(b) = c
    BY <1>2, Zenon DEF Search
  <2>2. text \in Query
    BY DEF Shape, PanelType, Query
  <2>3. l \in Document /\ l # Blank /\ Answers(text, l)
    BY <1>2, <2>2, LocationIs
  <2>4. x = TRUE
    BY DEF Shape, PanelType
  <2>5. Strip(text) = Strip(b.field)
    BY SpacesAssumption DEF Shape, PanelType
  <2> HIDE DEF l, text, x
  <2>6. c \in PanelType
    BY <2>2, <2>3, <2>4, ZenonT(40) DEF Shape, PanelType
  <2>7. PanelInv(c, d)
    BY <2>3, <2>4, <2>6 DEF PanelInv, Shape, PanelType, Displays
  <2>8. SameHide(b, c) /\ FewerKeys(b, c) /\ \A o \in BOOLEAN : Caught(c, o)
    BY <2>5 DEF SameHide, FewerKeys, Caught, Shape, PanelType
  <2> QED
    BY <2>1, <2>7, <2>8
<1> QED
  BY <1>1, <1>2

LEMMA OnSelectItemDone ==
  ASSUME NEW b, NEW d, PanelInv(b, d), NEW i \in Section \cup {SelectItemCount}
  PROVE  PanelInv(OnSelectItem(b, i), d) /\ Leaves(b, OnSelectItem(b, i))
<1> DEFINE x == IF i \in Section THEN i ELSE -1
           c == [b EXCEPT !.index = i, !.mark = x]
<1>1. x \in Section \cup {-1}
  OBVIOUS
<1> HIDE DEF x
<1>2. c \in PanelType
  BY <1>1 DEF PanelInv, Shape, PanelType
<1>3. PanelInv(c, d)
  BY <1>2 DEF PanelInv, Shape, PanelType, Displays
<1>4. c.field = b.field /\ c.active = b.active /\ SameHide(b, c) /\ FewerKeys(b, c)
  BY DEF SameHide, FewerKeys, PanelInv, Shape, PanelType
<1>5. OnSelectItem(b, i) = IF Strip(b.field) # Empty /\ b.active THEN Search(c) ELSE c
  BY DEF OnSelectItem, x
<1> HIDE DEF c
<1>6. CASE Strip(b.field) # Empty /\ b.active
  <2>1. OnSelectItem(b, i) = Search(c)
    BY <1>5, <1>6
  <2>2. /\ PanelInv(Search(c), d) /\ SameHide(c, Search(c)) /\ FewerKeys(c, Search(c))
        /\ \A o \in BOOLEAN : Caught(Search(c), o)
    BY <1>3, SearchDone DEF PanelInv
  <2>3. SameHide(b, Search(c)) /\ FewerKeys(b, Search(c))
    BY <1>3, <1>4, <2>2, PanelTimers DEF SameHide, FewerKeys
  <2> QED
    BY <2>1, <2>2, <2>3 DEF Leaves
<1>7. CASE ~ (Strip(b.field) # Empty /\ b.active)
  <2>1. OnSelectItem(b, i) = c
    BY <1>5, <1>7
  <2>2. \A o : Caught(c, o)
    BY <1>4, <1>7 DEF Caught
  <2> QED
    BY <1>3, <1>4, <2>1, <2>2 DEF Leaves
<1> QED
  BY <1>6, <1>7

LEMMA OnSearchSelectKeyKeeps ==
  ASSUME doc \in Document \cup {Blank}, NEW b, NEW d, PanelInv(b, d), NEW k \in Keys
  PROVE  PanelInv(OnSearchSelectKey(b, k), d) /\ Leaves(b, OnSearchSelectKey(b, k))
<1>1. b.index \in 0 .. SelectItemCount /\ Section = 0 .. SelectItemCount - 1
      /\ SelectItemCount \in Nat \ {0}
  BY ContentAssumption DEF PanelInv, Shape, PanelType
<1>2. CASE k = "down" /\ b.index < SelectItemCount
  <2>1. OnSearchSelectKey(b, k) = OnSelectItem(b, b.index + 1)
    BY <1>2 DEF OnSearchSelectKey
  <2>2. b.index + 1 \in Section \cup {SelectItemCount}
    BY <1>1, <1>2
  <2> QED
    BY <2>1, <2>2, OnSelectItemDone
<1>3. CASE k = "up" /\ b.index > 0
  <2>1. OnSearchSelectKey(b, k) = OnSelectItem(b, b.index - 1)
    BY <1>3 DEF OnSearchSelectKey
  <2>2. b.index - 1 \in Section \cup {SelectItemCount}
    BY <1>1, <1>3
  <2> QED
    BY <2>1, <2>2, OnSelectItemDone
<1>4. CASE k \in {"escape", "enter"}
  <2> DEFINE c == OnSelectItem(b, b.index)
             e == CloseSelectionWindow(c)
  <2>1. PanelInv(c, d) /\ Leaves(b, c)
    BY <1>1, OnSelectItemDone
  <2>2. PanelInv(e, d) /\ Leaves(c, e)
    BY <2>1, CloseSelectionWindowKeeps
  <2>3. PanelInv(Focus(e, Field), d) /\ Leaves(e, Focus(e, Field))
    BY <2>2, FocusKeeps DEF Target
  <2>4. Leaves(b, Focus(e, Field))
    BY <2>1, <2>2, <2>3, LeavesTransitive, PanelTimers
  <2>5. OnSearchSelectKey(b, k) \in {c, Focus(e, Field)}
    BY <1>4 DEF OnSearchSelectKey
  <2> QED
    BY <2>1, <2>3, <2>4, <2>5
<1>5. CASE /\ ~ (k = "down" /\ b.index < SelectItemCount)
           /\ ~ (k = "up" /\ b.index > 0)
           /\ k \notin {"escape", "enter"}
  <2>1. OnSearchSelectKey(b, k) = b
    BY <1>5 DEF OnSearchSelectKey
  <2> QED
    BY <2>1, LeavesSame
<1> QED
  BY <1>2, <1>3, <1>4, <1>5

-----------------------------------------------------------------------------
LEMMA KillKeyTimerKeeps ==
  ASSUME NEW b, NEW d, PanelInv(b, d)
  PROVE  /\ PanelInv(KillKeyTimer(b), d) /\ SameHide(b, KillKeyTimer(b))
         /\ FewerKeys(b, KillKeyTimer(b))
         /\ ~ b.keyTimeout => KillKeyTimer(b) = b
         /\ KillKeyTimer(b).active = b.active
<1>1. CASE ~ b.keyTimeout
  <2>1. KillKeyTimer(b) = b
    BY <1>1 DEF KillKeyTimer
  <2> QED
    BY <2>1, LeavesSame DEF Leaves
<1>2. CASE b.keyTimeout
  <2> DEFINE n == b.keyTimers - 1
             c == [b EXCEPT !.keyTimeout = FALSE, !.keyTimers = n]
  <2>1. KillKeyTimer(b) = c
    BY <1>2 DEF KillKeyTimer, PanelInv, Shape, PanelType
  <2>2. n \in Nat /\ n <= b.keyTimers
    BY <1>2 DEF PanelInv, Shape, PanelType
  <2> HIDE DEF n
  <2>3. c \in PanelType
    BY <2>2 DEF PanelInv, Shape, PanelType
  <2>4. PanelInv(c, d)
    BY <2>3 DEF PanelInv, Shape, PanelType, Displays
  <2>5. SameHide(b, c) /\ FewerKeys(b, c) /\ c.active = b.active
    BY <2>2 DEF SameHide, FewerKeys, PanelInv, Shape, PanelType
  <2> QED
    BY <1>2, <2>1, <2>4, <2>5
<1> QED
  BY <1>1, <1>2

\* The end of OnSearchFieldChange leaves nothing to be searched.
LEMMA ValueChangedDone ==
  ASSUME NEW b, NEW d, PanelInv(b, d)
  PROVE  /\ PanelInv(ValueChanged(b), d) /\ SameHide(b, ValueChanged(b))
         /\ \A o \in BOOLEAN : Caught(ValueChanged(b), o)
<1>1. CASE Strip(b.field) = b.last
  <2>1. ValueChanged(b) = b
    BY <1>1, Zenon DEF ValueChanged
  <2>2. Strip(b.last) = Strip(b.field)
    BY <1>1, SpacesAssumption DEF PanelInv, Shape, PanelType
  <2>3. \A o \in BOOLEAN : Caught(b, o)
    BY <1>1, <2>2 DEF Caught, PanelInv, Shape
  <2> QED
    BY <2>1, <2>3 DEF SameHide
<1>2. CASE Strip(b.field) = Empty /\ b.last # Empty
  <2> DEFINE f == IF OnPage(b.focus) THEN Nowhere ELSE b.focus
             c == [b EXCEPT !.results = FALSE, !.close = FALSE, !.focus = f, !.last = Empty]
  <2>1. ValueChanged(b) = [HideResults(b) EXCEPT !.last = Empty]
    BY <1>2, Zenon DEF ValueChanged
  <2>2. ValueChanged(b) = c
    BY <2>1 DEF HideResults, PanelInv, Shape, PanelType
  <2>3. f \in Element \cup {Nowhere, Field} \cup {Select(i) : i \in Section}
    BY DEF PanelInv, Shape, PanelType
  <2> HIDE DEF f
  <2>4. c \in PanelType
    BY <2>3, EmptyIsQuery DEF PanelInv, Shape, PanelType
  <2>5. PanelInv(c, d)
    BY <2>4 DEF PanelInv, Shape, PanelType
  <2>6. SameHide(b, c) /\ \A o \in BOOLEAN : Caught(c, o)
    BY <1>2 DEF SameHide, Caught, PanelInv, Shape, PanelType
  <2> QED
    BY <2>2, <2>5, <2>6
<1>3. CASE Strip(b.field) # b.last /\ ~ (Strip(b.field) = Empty /\ b.last # Empty)
  <2> DEFINE n == b.keyTimers + 1
             c == [b EXCEPT !.keyTimeout = TRUE, !.keyTimers = n]
  <2>1. ValueChanged(b) = c
    BY <1>3, Zenon DEF ValueChanged
  <2>2. n \in Nat /\ n > 0
    BY DEF PanelInv, Shape, PanelType
  <2> HIDE DEF n
  <2>3. c \in PanelType
    BY <2>2 DEF PanelInv, Shape, PanelType
  <2>4. PanelInv(c, d)
    BY <2>2, <2>3 DEF PanelInv, Shape, PanelType, Displays
  <2>5. SameHide(b, c) /\ \A o \in BOOLEAN : Caught(c, o)
    BY <2>2 DEF SameHide, Caught, PanelInv, Shape, PanelType
  <2> QED
    BY <2>1, <2>4, <2>5
<1> QED
  BY <1>1, <1>2, <1>3

LEMMA EscapeFieldDone ==
  ASSUME NEW b, NEW d, PanelInv(b, d)
  PROVE  /\ PanelInv(EscapeField(b), d) /\ SameHide(b, EscapeField(b))
         /\ \A o \in BOOLEAN : Caught(EscapeField(b), o)
<1> DEFINE a == MoveFocus(b, Nowhere)
           f == IF OnPage(a.focus) THEN Nowhere ELSE a.focus
           c == [a EXCEPT !.results = FALSE, !.close = FALSE, !.focus = f, !.last = Empty]
           e == [c EXCEPT !.field = Label, !.active = FALSE, !.last = Empty]
<1>1. PanelInv(a, d) /\ Leaves(b, a)
  BY MoveFocusKeeps
<1>2. EscapeField(b) = Activate([HideResults(a) EXCEPT !.last = Empty], FALSE)
  BY Zenon DEF EscapeField
<1> HIDE DEF a
<1>3. EscapeField(b) = e
  <2>1. [HideResults(a) EXCEPT !.last = Empty] = c
    BY <1>1 DEF HideResults, PanelInv, Shape, PanelType
  <2>2. ~ c.results
    BY <1>1 DEF PanelInv, Shape, PanelType
  <2> QED
    BY <1>2, <2>1, <2>2 DEF Activate
<1>4. f \in Element \cup {Nowhere, Field} \cup {Select(i) : i \in Section}
  BY <1>1 DEF PanelInv, Shape, PanelType
<1> HIDE DEF f
<1>5. e \in PanelType
  <2>1. a \in PanelType
    BY <1>1 DEF PanelInv, Shape
  <2>2. c \in PanelType
    BY <2>1, <1>4, EmptyIsQuery DEF PanelType
  <2> HIDE DEF c
  <2> QED
    BY <2>2, TextsAssumption, EmptyIsQuery DEF PanelType
<1>6. PanelInv(e, d)
  BY <1>1, <1>5 DEF PanelInv, Shape, PanelType
<1>7. SameHide(a, e) /\ \A o \in BOOLEAN : Caught(e, o)
  BY <1>1 DEF SameHide, Caught, PanelInv, Shape, PanelType
<1>8. SameHide(b, e)
  BY <1>1, <1>7 DEF Leaves, SameHide
<1> QED
  BY <1>3, <1>6, <1>7, <1>8

-----------------------------------------------------------------------------
(* The selection window with the pointer at p: HideTimerHeld of a panel.   *)
Held(b, p) == /\ b.hideTimers <= 1
              /\ b.hideTimeout => b.hideTimers = 1
              /\ b.hideTimers = 1 => b.hideTimeout /\ p = "away"

LEMMA HeldSame ==
  ASSUME NEW b, NEW c, NEW p, Held(b, p), SameHide(b, c)
  PROVE  Held(c, p)
  BY DEF Held, SameHide

\* Whoever shows the window has stopped the timer, wherever the pointer goes.
LEMMA ShowStopsTimer ==
  ASSUME NEW b, NEW d, NEW p, PanelInv(b, d), Held(b, p)
  PROVE  LET c == OnSearchSelectShow(b)
         IN  /\ PanelInv(c, d) /\ \A q : Held(c, q)
             /\ FewerKeys(b, c) /\ \A o \in BOOLEAN : Caught(b, o) => Caught(c, o)
<1> DEFINE n == IF b.hideTimeout THEN b.hideTimers - 1 ELSE b.hideTimers
           c == [b EXCEPT !.select = TRUE, !.hideTimeout = FALSE, !.hideTimers = n]
<1>1. OnSearchSelectShow(b) = c
  BY DEF OnSearchSelectShow, PanelInv, Shape, PanelType
<1>2. n = 0
  BY DEF Held, PanelInv, Shape, PanelType
<1> HIDE DEF n
<1>3. c \in PanelType
  BY <1>2 DEF PanelInv, Shape, PanelType
<1>4. PanelInv(c, d)
  BY <1>3 DEF PanelInv, Shape, PanelType, Displays
<1>5. FewerKeys(b, c) /\ \A o \in BOOLEAN : Caught(b, o) => Caught(c, o)
  BY DEF FewerKeys, Caught, PanelInv, Shape, PanelType
<1>6. \A q : Held(c, q)
  BY <1>2 DEF Held, PanelInv, Shape, PanelType
<1> QED
  BY <1>1, <1>4, <1>5, <1>6

\* The element that the pointer leaves starts the only timer.
LEMMA HideStartsTimer ==
  ASSUME NEW b, NEW d, NEW p, PanelInv(b, d), Held(b, p), p # "away"
  PROVE  LET c == OnSearchSelectHide(b)
         IN  PanelInv(c, d) /\ Held(c, "away")
             /\ FewerKeys(b, c) /\ \A o \in BOOLEAN : Caught(b, o) => Caught(c, o)
<1> DEFINE n == b.hideTimers + 1
           c == [b EXCEPT !.hideTimeout = TRUE, !.hideTimers = n]
<1>1. OnSearchSelectHide(b) = c
  BY DEF OnSearchSelectHide, PanelInv, Shape, PanelType
<1>2. n = 1
  BY DEF Held, PanelInv, Shape, PanelType
<1> HIDE DEF n
<1>3. c \in PanelType
  BY <1>2 DEF PanelInv, Shape, PanelType
<1>4. PanelInv(c, d)
  BY <1>3 DEF PanelInv, Shape, PanelType, Displays
<1>5. FewerKeys(b, c) /\ \A o \in BOOLEAN : Caught(b, o) => Caught(c, o)
  BY DEF FewerKeys, Caught, PanelInv, Shape, PanelType
<1>6. Held(c, "away")
  BY <1>2 DEF Held, PanelInv, Shape, PanelType
<1> QED
  BY <1>1, <1>4, <1>5, <1>6

LEMMA FocusHeld ==
  ASSUME doc \in Document \cup {Blank}, NEW b, NEW d, PanelInv(b, d), NEW e, Target(e),
         NEW p, Held(b, p)
  PROVE  /\ PanelInv(Focus(b, e), d) /\ Held(Focus(b, e), p)
         /\ \A o \in BOOLEAN : Caught(b, o) => Caught(Focus(b, e), o)
  BY FocusKeeps, HeldSame DEF Leaves

LEMMA NavNextIsTarget == \A i : Target(NavNext(i))
  BY DEF NavNext, Target

LEMMA NavPrevIsTarget == \A i : Target(NavPrev(i))
  BY DEF NavPrev, Target

LEMMA UpIsTarget == \A e : Target(IF UpFrom(e) = Nowhere THEN Field ELSE UpFrom(e))
<1>1. \A r : Target(UpFromItem(r))
  BY NavPrevIsTarget DEF UpFromItem, Target
<1>2. \A r, c : Target(UpFromChild(r, c))
  BY DEF UpFromChild, Target
<1>3. Target(Field)
  BY DEF Target
<1> QED
  BY <1>1, <1>2, <1>3, Zenon DEF UpFrom

LEMMA DownIsTarget == \A e : Target(DownFrom(e))
<1>1. \A r : Target(DownFromItem(r))
  BY NavNextIsTarget DEF DownFromItem, Target
<1>2. \A r, c : Target(DownFromChild(r, c))
  BY NavNextIsTarget DEF DownFromChild, Target
<1> QED
  BY <1>1, <1>2, Zenon DEF DownFrom

(* A key of the field ends with nothing to be searched, except that Shift  *)
(* with Down or Enter drops what was due.                                  *)
LEMMA FieldChangeDone ==
  ASSUME doc \in Document \cup {Blank}, NEW b, NEW d, PanelInv(b, d), NEW p, Held(b, p),
         NEW key, NEW shift \in BOOLEAN, NEW o \in BOOLEAN, Caught(b, o)
  PROVE  LET r == OnSearchFieldChange(b, key, shift)
         IN  /\ PanelInv(r, d) /\ Held(r, p)
             /\ Caught(r, key \in {"down", "enter"} /\ shift /\ (o \/ b.keyTimeout))
<1> DEFINE c == KillKeyTimer(b)
<1>1. PanelInv(c, d) /\ Held(c, p) /\ (~ b.keyTimeout => c = b)
  BY KillKeyTimerKeeps, HeldSame
<1>2. b.keyTimeout \in BOOLEAN
  BY DEF PanelInv, Shape, PanelType
<1> HIDE DEF c
<1>3. CASE key \in {"down", "enter"} /\ shift
  <2> DEFINE s == OnSearchSelectShow(c)
  <2>1. OnSearchFieldChange(b, key, shift) = Focus(s, Select(0))
    BY <1>3, Zenon DEF OnSearchFieldChange, c
  <2>2. PanelInv(s, d) /\ Held(s, p) /\ \A q \in BOOLEAN : Caught(c, q) => Caught(s, q)
    BY <1>1, ShowStopsTimer
  <2>3. Target(Select(0))
    BY ContentAssumption DEF Target
  <2> HIDE DEF s
  <2>4. /\ PanelInv(Focus(s, Select(0)), d) /\ Held(Focus(s, Select(0)), p)
        /\ \A q \in BOOLEAN : Caught(s, q) => Caught(Focus(s, Select(0)), q)
    BY <2>2, <2>3, FocusHeld
  <2>5. CASE b.keyTimeout
    <3>1. Caught(Focus(s, Select(0)), TRUE)
      BY DEF Caught
    <3> QED
      BY <1>3, <2>1, <2>4, <2>5, <3>1
  <2>6. CASE ~ b.keyTimeout
    <3>1. Caught(Focus(s, Select(0)), o)
      BY <1>1, <2>2, <2>4, <2>6
    <3> QED
      BY <1>3, <2>1, <2>4, <2>6, <3>1
  <2> QED
    BY <1>2, <2>5, <2>6
<1>4. ASSUME NEW e, PanelInv(e, d), Held(e, p)
      PROVE  PanelInv(ValueChanged(e), d) /\ Held(ValueChanged(e), p)
             /\ Caught(ValueChanged(e), FALSE)
  BY <1>4, ValueChangedDone, HeldSame
<1>5. CASE key \in {"down", "enter"} /\ ~ shift
  <2> DEFINE f == Focus(c, NavNext(0))
  <2>1. OnSearchFieldChange(b, key, shift) = ValueChanged(f)
    BY <1>5, Zenon DEF OnSearchFieldChange, c
  <2>2. PanelInv(f, d) /\ Held(f, p)
    BY <1>1, NavNextIsTarget, FocusHeld
  <2> HIDE DEF f
  <2> QED
    BY <1>4, <1>5, <2>1, <2>2
<1>6. CASE key = "escape"
  <2>1. OnSearchFieldChange(b, key, shift) = EscapeField(c)
    BY <1>6, Zenon DEF OnSearchFieldChange, c
  <2>2. PanelInv(EscapeField(c), d) /\ Held(EscapeField(c), p)
        /\ Caught(EscapeField(c), FALSE)
    BY <1>1, EscapeFieldDone, HeldSame
  <2> QED
    BY <1>6, <2>1, <2>2
<1>7. CASE key \notin {"down", "enter", "escape"}
  <2>1. OnSearchFieldChange(b, key, shift) = ValueChanged(c)
    BY <1>7, Zenon DEF OnSearchFieldChange, c
  <2> QED
    BY <1>1, <1>4, <1>7, <2>1
<1> QED
  BY <1>3, <1>5, <1>6, <1>7

-----------------------------------------------------------------------------
(* The inductive invariant.  ResultsAreOfLastSearch and CaughtUp need each *)
(* other: a text counts as searched when it is the last one, which is true *)
(* only while the results of the last one are displayed.                   *)
PageInv == /\ doc \in Document \cup {Blank} /\ open \subseteq Row
           /\ held \in Keys \cup {"none"} /\ repeatOn \in BOOLEAN
           /\ pointer \in {"away", "icon", "window"} /\ owed \in BOOLEAN

Inv == /\ PageInv
       /\ PanelInv(box, doc) /\ box.keyTimers <= MaxTimers
       /\ Caught(box, owed) /\ Held(box, pointer)

\* What a step that goes through Change has to show.
LEMMA ChangeKeeps ==
  ASSUME NEW b, NEW o \in BOOLEAN, Change(b, o), PanelInv(b, doc), doc' = doc,
         b.keyTimers <= MaxTimers, Caught(b, o), Held(b, pointer'),
         owed' \in BOOLEAN => PageInv'
  PROVE  Inv'
<1>1. owed' = (o /\ b.active) /\ box' = b
  BY DEF Change
<1>2. owed' \in BOOLEAN
  BY <1>1 DEF PanelInv, Shape, PanelType
<1>3. Caught(b, owed')
  BY <1>1, <1>2 DEF Caught
<1> QED
  BY <1>1, <1>2, <1>3 DEF Inv, PanelInv, Shape, Displays

\* Most steps leave the timers alone, and the frame.
LEMMA LeavesKeeps ==
  ASSUME Inv, NEW b, Change(b, owed), PanelInv(b, doc), Leaves(box, b),
         UNCHANGED <<doc, pointer>>, owed' \in BOOLEAN => PageInv'
  PROVE  Inv'
<1>1. /\ owed \in BOOLEAN /\ box.keyTimers \in Nat /\ b.keyTimers \in Nat
      /\ PanelInv(box, doc)
  BY PanelTimers DEF Inv, PageInv
<1>2. b.keyTimers <= MaxTimers
  BY <1>1, MaxTimersAssumption DEF Leaves, FewerKeys, Inv
<1>3. Caught(b, owed)
  BY <1>1 DEF Leaves, Inv
<1>4. Held(b, pointer')
  BY HeldSame DEF Leaves, Inv
<1> QED
  BY <1>1, <1>2, <1>3, <1>4, ChangeKeeps

LEMMA InitInv == Init => Inv
<1> SUFFICES ASSUME Init PROVE Inv
  OBVIOUS
<1>1. 0 \in Section
  BY ContentAssumption
<1>2. box \in PanelType
  BY <1>1, TextsAssumption, EmptyIsQuery DEF Init, PanelType, Blank, Nowhere
<1>3. PanelInv(box, doc)
  BY <1>2 DEF Init, PanelInv, Shape
<1>4. Caught(box, owed) /\ Held(box, pointer)
  BY DEF Init, Caught, Held
<1>5. PageInv
  BY DEF Init, PageInit, PageInv
<1> QED
  BY <1>3, <1>4, <1>5, MaxTimersAssumption DEF Init, Inv

LEMMA EditInv == ASSUME Inv, NEW t \in Texts, Edit(t) PROVE Inv'
<1> DEFINE c == [box EXCEPT !.field = t]
<1>1. PanelInv(box, doc) /\ c \in PanelType
  BY DEF Inv, PanelInv, Shape, PanelType
<1>2. PanelInv(c, doc)
  BY <1>1 DEF PanelInv, Shape, PanelType, Displays
<1>3. Caught(c, TRUE) /\ Held(c, pointer') /\ c.keyTimers <= MaxTimers
  BY <1>1 DEF Caught, Held, Inv, PanelInv, Shape, PanelType, Edit
<1>4. owed' \in BOOLEAN => PageInv'
  BY DEF Inv, PageInv, Edit, page, keys, Row
<1>5. Change(c, TRUE) /\ doc' = doc
  BY DEF Edit, page
<1> QED
  BY <1>2, <1>3, <1>4, <1>5, ChangeKeeps

LEMMA PlacesOfFocus ==
  /\ Nowhere \in Element \cup {Nowhere, Field} \cup {Select(i) : i \in Section}
  /\ Field \in Element \cup {Nowhere, Field} \cup {Select(i) : i \in Section}
  /\ \A i \in Section :
       Select(i) \in Element \cup {Nowhere, Field} \cup {Select(j) : j \in Section}
  OBVIOUS

LEMMA ClicksInv ==
  ASSUME Inv, ClickField \/ ClickAway \/ ClickClose \/ \E i \in Section : ClickFilter(i)
  PROVE  Inv'
<1>1. PanelInv(box, doc)
  BY DEF Inv
<1>2. UNCHANGED <<doc, pointer>> /\ (owed' \in BOOLEAN => PageInv')
  BY DEF Inv, PageInv, ClickField, ClickAway, ClickClose, ClickFilter, page, keys, Row
<1>3. CASE ClickField
  BY <1>1, <1>2, <1>3, PlacesOfFocus, MoveFocusKeeps, LeavesKeeps DEF ClickField
<1>4. CASE ClickAway
  BY <1>1, <1>2, <1>4, PlacesOfFocus, MoveFocusKeeps, LeavesKeeps DEF ClickAway
<1>5. CASE ClickClose
  <2> DEFINE m == MoveFocus(box, Nowhere)
             c == CloseResultsWindow(m)
  <2>1. PanelInv(m, doc) /\ Leaves(box, m)
    BY <1>1, PlacesOfFocus, MoveFocusKeeps
  <2>2. PanelInv(c, doc) /\ Leaves(m, c)
    BY <2>1, CloseResultsWindowKeeps
  <2>3. Leaves(box, c)
    BY <1>1, <2>1, <2>2, PanelTimers, LeavesTransitive
  <2>4. Change(c, owed)
    BY <1>5 DEF ClickClose
  <2> QED
    BY <1>2, <2>2, <2>3, <2>4, LeavesKeeps
<1>6. ASSUME NEW i \in Section, ClickFilter(i) PROVE Inv'
  <2> DEFINE m == MoveFocus(box, Select(i))
             c == OnSelectItem(m, i)
  <2>1. PanelInv(m, doc) /\ Leaves(box, m)
    BY <1>1, PlacesOfFocus, MoveFocusKeeps
  <2>2. PanelInv(c, doc) /\ Leaves(m, c)
    BY <2>1, OnSelectItemDone
  <2>3. Leaves(box, c)
    BY <1>1, <2>1, <2>2, PanelTimers, LeavesTransitive
  <2>4. Change(c, owed)
    BY <1>6 DEF ClickFilter
  <2> QED
    BY <1>2, <2>2, <2>3, <2>4, LeavesKeeps
<1> QED
  BY <1>3, <1>4, <1>5, <1>6

LEMMA ClickItemInv == ASSUME Inv, NEW r \in Row, ClickItem(r) PROVE Inv'
<1>1. PanelInv(box, doc) /\ doc \in Document \cup {Blank}
  BY DEF Inv, PageInv
<1>2. Item(r) \in Element
  <2>1. Rendered(Item(r)) /\ OnPage(Item(r)) /\ Target(Item(r))
    BY DEF ClickItem, Rendered, Item, OnPage, Target
  <2> QED
    BY <1>1, <2>1, RenderedIsElement
<1>3. UNCHANGED <<doc, pointer>> /\ (owed' \in BOOLEAN => PageInv')
  BY DEF Inv, PageInv, ClickItem, Toggle, keys, Row
<1> QED
  BY <1>1, <1>2, <1>3, MoveFocusKeeps, LeavesKeeps DEF ClickItem

\* The keys of the page move the focus and unfold rows.
LEMMA NavInv ==
  ASSUME Inv, NEW event, Nav(event), pointer' = pointer, held' \in Keys
  PROVE  Inv'
<1> DEFINE k == IF Acts(event) THEN held' ELSE "none"
           up == IF UpFrom(box.focus) = Nowhere THEN Field ELSE UpFrom(box.focus)
           w == CloseResultsWindow(box)
           c == CASE k = "up"     -> Focus(box, up)
                  [] k = "down"   -> Focus(box, DownFrom(box.focus))
                  [] k = "escape" -> Focus(w, Field)
                  [] OTHER        -> box
<1>1. PanelInv(box, doc) /\ doc \in Document \cup {Blank} /\ open \subseteq Row
  BY DEF Inv, PageInv
<1>2. Change(c, owed) /\ doc' = doc /\ Unfold(k, box.focus) /\ ProcessKeys(event)
  BY DEF Nav
<1>3. open' \subseteq Row
  BY <1>1, <1>2 DEF Unfold, Kids
<1>4. owed' \in BOOLEAN => PageInv'
  BY <1>1, <1>2, <1>3 DEF Inv, PageInv, ProcessKeys, Row
<1>5. Target(up) /\ Target(DownFrom(box.focus)) /\ Target(Field)
  BY UpIsTarget, DownIsTarget DEF Target
<1> HIDE DEF k, up
<1>6. PanelInv(c, doc) /\ Leaves(box, c)
  <2>1. CASE k = "up"
    <3>1. c = Focus(box, up)
      BY <2>1
    <3> QED
      BY <1>1, <1>5, <3>1, FocusKeeps
  <2>2. CASE k = "down"
    <3>1. c = Focus(box, DownFrom(box.focus))
      BY <2>2
    <3> QED
      BY <1>1, <1>5, <3>1, FocusKeeps
  <2>3. CASE k = "escape"
    <3>1. c = Focus(w, Field)
      BY <2>3
    <3>2. PanelInv(w, doc) /\ Leaves(box, w)
      BY <1>1, CloseResultsWindowKeeps
    <3> HIDE DEF w
    <3>3. PanelInv(Focus(w, Field), doc) /\ Leaves(w, Focus(w, Field))
      BY <1>1, <1>5, <3>2, FocusKeeps
    <3>4. Leaves(box, Focus(w, Field))
      BY <1>1, <3>2, <3>3, PanelTimers, LeavesTransitive
    <3> QED
      BY <3>1, <3>3, <3>4
  <2>4. CASE k \notin {"up", "down", "escape"}
    <3>1. c = box
      BY <2>4
    <3> QED
      BY <1>1, <3>1, LeavesSame
  <2> QED
    BY <2>1, <2>2, <2>3, <2>4
<1> HIDE DEF c
<1> QED
  BY <1>2, <1>4, <1>6, LeavesKeeps

\* Enter is pressed on the page only where there are children.
LEMMA EnterOnRow ==
  ASSUME OnPage(box.focus), KeyDown("enter")
  PROVE  box.focus[2] \in Row /\ Kids(box.focus[2]) > 0 /\ box.focus[1] = "item"
<1>1. "enter" \in KeysAt(box.focus)
  BY DEF KeyDown
<1>2. box.focus[1] = "item" /\ Kids(box.focus[2]) > 0
  BY <1>1, Zenon DEF KeysAt
<1>3. ASSUME NEW r, Kids(r) > 0 PROVE r \in Row
  BY <1>3 DEF Kids
<1> QED
  BY <1>2, <1>3

LEMMA KeyDownInv == ASSUME Inv, NEW k \in Keys, KeyDown(k) PROVE Inv'
<1>1. PanelInv(box, doc) /\ doc \in Document \cup {Blank} /\ held' = k /\ pointer' = pointer
  BY DEF Inv, PageInv, KeyDown
<1>2. CASE Nav("keydown")
  BY <1>1, <1>2, NavInv
<1>3. CASE ~OnPage(box.focus)
  <2> DEFINE c == IF box.focus[1] = "select" THEN OnSearchSelectKey(box, k) ELSE box
  <2>1. Change(c, owed) /\ UNCHANGED <<page, repeatOn>>
    BY <1>3 DEF KeyDown
  <2>2. PanelInv(c, doc) /\ Leaves(box, c)
    BY <1>1, OnSearchSelectKeyKeeps, LeavesSame
  <2>3. UNCHANGED doc /\ (owed' \in BOOLEAN => PageInv')
    BY <1>1, <2>1 DEF Inv, PageInv, page, Row
  <2> HIDE DEF c
  <2> QED
    BY <1>1, <2>1, <2>2, <2>3, LeavesKeeps
<1>4. CASE /\ OnPage(box.focus) /\ k = "enter"
           /\ Toggle(box.focus[2]) /\ UNCHANGED <<box, owed, repeatOn>>
  <2>1. box.focus[2] \in Row
    BY <1>4, EnterOnRow
  <2>2. PageInv'
    BY <1>1, <1>4, <2>1 DEF Inv, PageInv, Toggle, Row
  <2> QED
    BY <1>1, <1>4, <2>2 DEF Inv, Toggle
<1> QED
  BY <1>2, <1>3, <1>4 DEF KeyDown

LEMMA KeyPressInv == ASSUME Inv, KeyPress PROVE Inv'
<1>1. held' \in Keys /\ pointer' = pointer /\ Nav("keypress")
  BY DEF KeyPress, Inv, PageInv
<1> QED
  BY <1>1, NavInv

LEMMA KeyUpInv == ASSUME Inv, NEW shift \in BOOLEAN, KeyUp(shift) PROVE Inv'
<1>1. /\ PanelInv(box, doc) /\ doc \in Document \cup {Blank} /\ Held(box, pointer)
      /\ Caught(box, owed) /\ owed \in BOOLEAN /\ box.keyTimeout \in BOOLEAN
  BY DEF Inv, PageInv, PanelInv, Shape, PanelType
<1>2. UNCHANGED <<doc, pointer>> /\ (owed' \in BOOLEAN => PageInv')
  BY DEF Inv, PageInv, KeyUp, ProcessKeys, page, Row
<1>3. CASE box.focus = Field
  <2> DEFINE r == OnSearchFieldChange(box, held, shift)
             o == held \in {"down", "enter"} /\ shift /\ (owed \/ box.keyTimeout)
  <2>1. Change(r, o) /\ box'.keyTimers <= MaxTimers
    BY <1>3 DEF KeyUp
  <2>2. PanelInv(r, doc) /\ Held(r, pointer) /\ Caught(r, o)
    BY <1>1, FieldChangeDone
  <2>3. o \in BOOLEAN
    OBVIOUS
  <2> HIDE DEF r, o
  <2>4. r.keyTimers <= MaxTimers
    BY <2>1 DEF Change
  <2> QED
    BY <1>2, <2>1, <2>2, <2>3, <2>4, ChangeKeeps
<1>4. CASE box.focus # Field
  BY <1>1, <1>2, <1>4 DEF KeyUp, Inv
<1> QED
  BY <1>3, <1>4

LEMMA PointerInv ==
  ASSUME Inv, PointerLeave \/ \E p \in {"icon", "window"} : PointerEnter(p)
  PROVE  Inv'
<1>1. /\ PanelInv(box, doc) /\ Held(box, pointer) /\ Caught(box, owed)
      /\ owed \in BOOLEAN /\ box.keyTimers \in Nat /\ box.keyTimers <= MaxTimers
  BY PanelTimers DEF Inv, PageInv
<1>2. UNCHANGED doc /\ (owed' \in BOOLEAN => PageInv')
  BY DEF Inv, PageInv, PointerLeave, PointerEnter, page, keys, Row
<1> DEFINE h == OnSearchSelectHide(box)
<1>3. pointer # "away" =>
        /\ PanelInv(h, doc) /\ Held(h, "away") /\ Caught(h, owed)
        /\ h.keyTimers \in Nat /\ h.keyTimers <= MaxTimers
  BY <1>1, HideStartsTimer, PanelTimers, MaxTimersAssumption DEF FewerKeys
<1> HIDE DEF h
<1>4. CASE PointerLeave
  <2>1. CASE Change(h, owed)
    BY <1>1, <1>2, <1>3, <1>4, <2>1, ChangeKeeps DEF PointerLeave
  <2>2. CASE UNCHANGED <<box, owed>>
    <3>1. Held(box, pointer')
      BY <1>1, <1>4 DEF PointerLeave, Held
    <3> QED
      BY <1>1, <1>2, <2>2, <3>1 DEF Inv
  <2> QED
    BY <1>4, <2>1, <2>2 DEF PointerLeave, h
<1>5. ASSUME NEW p \in {"icon", "window"}, PointerEnter(p) PROVE Inv'
  <2> DEFINE b == IF pointer = "away" THEN box ELSE h
             c == OnSearchSelectShow(b)
  <2>1. Change(c, owed)
    BY <1>5, Zenon DEF PointerEnter, h
  <2>2. /\ PanelInv(b, doc) /\ Caught(b, owed) /\ b.keyTimers \in Nat
        /\ b.keyTimers <= MaxTimers /\ \E q : Held(b, q)
    BY <1>1, <1>3
  <2> HIDE DEF b
  <2>3. /\ PanelInv(c, doc) /\ Caught(c, owed) /\ c.keyTimers <= b.keyTimers
        /\ \A q : Held(c, q)
    BY <1>1, <2>2, ShowStopsTimer DEF FewerKeys
  <2> HIDE DEF c
  <2>4. c.keyTimers <= MaxTimers
    BY <2>2, <2>3, PanelTimers, MaxTimersAssumption
  <2> QED
    BY <1>1, <1>2, <2>1, <2>3, <2>4, ChangeKeeps
<1> QED
  BY <1>4, <1>5

LEMMA KeyTimerInv == ASSUME Inv, KeyTimer PROVE Inv'
<1> DEFINE n == box.keyTimers - 1
           b == [box EXCEPT !.keyTimers = n]
           c == Search(b)
<1>1. PanelInv(box, doc) /\ owed \in BOOLEAN /\ Held(box, pointer)
  BY DEF Inv, PageInv
<1>2. n \in Nat /\ n <= MaxTimers
  BY <1>1, MaxTimersAssumption, PanelTimers DEF KeyTimer, Inv
<1>3. Change(c, owed) /\ UNCHANGED <<doc, pointer>> /\ (owed' \in BOOLEAN => PageInv')
  BY DEF KeyTimer, Inv, PageInv, page, keys, Row
<1> HIDE DEF n
<1>4. b \in PanelType
  BY <1>1, <1>2 DEF PanelInv, Shape, PanelType
<1>5. Shape(b, doc)
  BY <1>1, <1>4 DEF PanelInv, Shape, PanelType, Displays
<1>6. SameHide(box, b) /\ b.keyTimers = n
  BY <1>1 DEF SameHide, PanelInv, Shape, PanelType
<1> HIDE DEF b
<1>7. /\ PanelInv(c, doc) /\ SameHide(b, c) /\ c.keyTimers <= n /\ Caught(c, owed)
  BY <1>1, <1>5, <1>6, SearchDone DEF FewerKeys
<1> HIDE DEF c
<1>8. Held(c, pointer') /\ c.keyTimers <= MaxTimers
  BY <1>1, <1>2, <1>3, <1>6, <1>7, HeldSame, PanelTimers, MaxTimersAssumption DEF SameHide
<1> QED
  BY <1>1, <1>3, <1>7, <1>8, ChangeKeeps

LEMMA HideTimerInv == ASSUME Inv, HideTimer PROVE Inv'
<1> DEFINE w == CloseSelectionWindow(box)
           c == [w EXCEPT !.hideTimeout = FALSE, !.hideTimers = 0]
<1>1. /\ PanelInv(box, doc) /\ owed \in BOOLEAN /\ box.hideTimers = 1
      /\ Caught(box, owed) /\ box.keyTimers <= MaxTimers /\ box.keyTimers \in Nat
  BY PanelTimers DEF Inv, PageInv, HideTimer, Held, PanelInv, Shape, PanelType
<1>2. PanelInv(w, doc) /\ Leaves(box, w)
  BY <1>1, CloseSelectionWindowKeeps
<1>3. UNCHANGED <<doc, pointer>> /\ (owed' \in BOOLEAN => PageInv')
  BY DEF HideTimer, Inv, PageInv, page, keys, Row
<1> HIDE DEF w
<1>4. w.hideTimers = 1
  BY <1>1, <1>2 DEF Leaves, SameHide
<1>5. [w EXCEPT !.hideTimeout = @ /\ box.hideTimers > 1, !.hideTimers = @ - 1] = c
  <2>1. (w.hideTimeout /\ box.hideTimers > 1) = FALSE
    BY <1>1
  <2>2. w.hideTimers - 1 = 0
    BY <1>4
  <2> QED
    BY <2>1, <2>2, Zenon
<1>6. Change(c, owed)
  BY <1>5 DEF HideTimer, w
<1>7. c \in PanelType
  BY <1>2 DEF PanelInv, Shape, PanelType
<1>8. PanelInv(c, doc)
  BY <1>2, <1>7 DEF PanelInv, Shape, PanelType, Displays
<1>9. Caught(w, owed) /\ w.keyTimers <= MaxTimers
  BY <1>1, <1>2, PanelTimers, MaxTimersAssumption DEF Leaves, FewerKeys
<1>10. Caught(c, owed) /\ c.keyTimers <= MaxTimers /\ Held(c, pointer')
  BY <1>2, <1>9 DEF Caught, Held, PanelInv, Shape, PanelType
<1> HIDE DEF c
<1> QED
  BY <1>1, <1>3, <1>6, <1>8, <1>10, ChangeKeeps

\* While a document is on its way the frame does not decide what is displayed.
LEMMA FrameInv == ASSUME Inv, FrameUnload \/ FrameLoad PROVE Inv'
<1>1. PanelInv(box, doc) /\ box.loading \in Document \cup {Blank}
  BY DEF Inv, PanelInv, Shape, PanelType
<1>2. CASE FrameUnload
  <2> DEFINE f == IF OnPage(box.focus) THEN Nowhere ELSE box.focus
             c == [box EXCEPT !.focus = f]
  <2>1. box' = c /\ doc' = Blank /\ open' = {} /\ UNCHANGED <<pointer, owed, keys>>
    BY <1>2 DEF FrameUnload, Load
  <2>2. f \in Element \cup {Nowhere, Field} \cup {Select(i) : i \in Section}
    BY <1>1 DEF PanelInv, Shape, PanelType
  <2> HIDE DEF f
  <2>3. PanelInv(c, doc) /\ Leaves(box, c)
    BY <1>1, <2>2, FocusOnly
  <2>4. c.loading # Blank
    BY <1>1, <1>2 DEF FrameUnload, PanelInv, Shape, PanelType
  <2>5. PanelInv(c, doc')
    BY <2>3, <2>4 DEF PanelInv, Shape, Displays
  <2>6. PageInv'
    BY <2>1 DEF Inv, PageInv, keys
  <2>7. Caught(c, owed) /\ Held(c, pointer) /\ c.keyTimers <= MaxTimers
    BY <1>1 DEF Inv, Caught, Held, PanelInv, Shape, PanelType
  <2> HIDE DEF c
  <2> QED
    BY <2>1, <2>5, <2>6, <2>7 DEF Inv
<1>3. CASE FrameLoad
  <2> DEFINE c == [box EXCEPT !.loading = Blank]
  <2>1. box' = c /\ doc' = box.loading /\ open' = {} /\ UNCHANGED <<pointer, owed, keys>>
    BY <1>3 DEF FrameLoad, Load
  <2>2. c \in PanelType
    BY <1>1 DEF PanelInv, Shape, PanelType
  <2>3. PanelInv(c, doc')
    BY <1>1, <1>3, <2>1, <2>2 DEF FrameLoad, PanelInv, Shape, PanelType, Displays
  <2>4. PageInv'
    BY <1>1, <2>1 DEF Inv, PageInv, keys
  <2>5. Caught(c, owed) /\ Held(c, pointer) /\ c.keyTimers <= MaxTimers
    BY <1>1 DEF Inv, Caught, Held, PanelInv, Shape, PanelType
  <2> HIDE DEF c
  <2> QED
    BY <2>1, <2>3, <2>4, <2>5 DEF Inv
<1> QED
  BY <1>2, <1>3

LEMMA StutterInv == ASSUME Inv, UNCHANGED vars PROVE Inv'
  BY DEF Inv, PageInv, vars, PanelInv, Shape, Displays, Row

LEMMA NextInv == Inv /\ [Next]_vars => Inv'
<1> SUFFICES ASSUME Inv, [Next]_vars PROVE Inv'
  OBVIOUS
<1>1. ASSUME NEW t \in Texts, Edit(t) PROVE Inv'
  BY <1>1, EditInv
<1>2. CASE ClickField \/ ClickAway \/ ClickClose \/ \E i \in Section : ClickFilter(i)
  BY <1>2, ClicksInv
<1>3. ASSUME NEW r \in Row, ClickItem(r) PROVE Inv'
  BY <1>3, ClickItemInv
<1>4. ASSUME NEW k \in Keys, KeyDown(k) PROVE Inv'
  BY <1>4, KeyDownInv
<1>5. CASE KeyPress
  BY <1>5, KeyPressInv
<1>6. ASSUME NEW shift \in BOOLEAN, KeyUp(shift) PROVE Inv'
  BY <1>6, KeyUpInv
<1>7. CASE PointerLeave \/ \E p \in {"icon", "window"} : PointerEnter(p)
  BY <1>7, PointerInv
<1>8. CASE KeyTimer
  BY <1>8, KeyTimerInv
<1>9. CASE HideTimer
  BY <1>9, HideTimerInv
<1>10. CASE FrameUnload \/ FrameLoad
  BY <1>10, FrameInv
<1>11. CASE UNCHANGED vars
  BY <1>11, StutterInv
<1> QED
  BY <1>1, <1>2, <1>3, <1>4, <1>5, <1>6, <1>7, <1>8, <1>9, <1>10, <1>11 DEF Next

LEMMA SpecInv == Spec => []Inv
  BY InitInv, NextInv, PTL DEF Spec

-----------------------------------------------------------------------------
(* The fields of the panel are what they are said to be, with any number   *)
(* of filters, entries and texts: the index of the filter stays at most    *)
(* one past the last, the focus is on an element that exists, and the      *)
(* frame is given only documents that were generated.                      *)
THEOREM SearchTypeCorrect == Spec => []TypeOK
<1>1. Inv => TypeOK
  <2> SUFFICES ASSUME Inv PROVE TypeOK
    OBVIOUS
  <2>1. box \in PanelType /\ box.keyTimers <= MaxTimers /\ PageInv
    BY DEF Inv, PanelInv, Shape
  <2>2. box \in Panel
    BY <2>1, MaxTimersAssumption DEF PanelType, Panel
  <2> QED
    BY <2>1, <2>2 DEF TypeOK, PageInv
<1> QED
  BY <1>1, SpecInv, PTL

(* What is displayed, or on its way to the frame, are the results of the   *)
(* last search, and the close button is there exactly with them.           *)
THEOREM ResultsCorrect == Spec => []ResultsAreOfLastSearch
<1>1. Inv => ResultsAreOfLastSearch
  BY Zenon DEF Inv, PanelInv, Shape, Displays, Answers, ResultsAreOfLastSearch
<1> QED
  BY <1>1, SpecInv, PTL

(* No order of keys, timers, focus changes and filter choices loses the    *)
(* last change of the text: at rest it is the text that was searched.      *)
THEOREM CaughtUpCorrect == Spec => []CaughtUp
<1>1. Inv => CaughtUp
  BY Zenon DEF Inv, Caught, CaughtUp
<1> QED
  BY <1>1, SpecInv, PTL

(* The timer that closes the selection window can always be stopped, and   *)
(* none runs while the pointer is on the icon or the window.               *)
THEOREM HideTimerCorrect == Spec => []HideTimerHeld
<1>1. Inv => HideTimerHeld
  BY DEF Inv, Held, HideTimerHeld
<1> QED
  BY <1>1, SpecInv, PTL

-----------------------------------------------------------------------------
(* What is displayed of the page: rows that follow each other, and the     *)
(* children of those among them that are open.                             *)
Displayed == {f \in Element : Rendered(f)}

\* The identifier that the rows of document d begin with.
IdOf(d) == ConvertToId(TrimRight(TrimLeft(d.query)))

\* A sequence that two others begin with is one of those that a third begins with.
LEMMA PrefixBetween ==
  ASSUME NEW S, NEW q \in Seq(S), NEW T, NEW a \in Seq(T), NEW U, NEW b \in Seq(U),
         NEW V, NEW c \in Seq(V),
         CommonPrefixes({a, c}) \subseteq Prefixes(b), IsPrefix(q, a), IsPrefix(q, c)
  PROVE  IsPrefix(q, b)
<1>1. q = SubSeq(q, 1, Len(q)) /\ Len(q) \in Nat /\ Len(a) \in Nat /\ Len(b) \in Nat
  <2>1. q = SubSeq(q, 1, Len(q)) /\ Len(q) \in Nat
    BY SubSeqFull, LenProperties, Zenon
  <2>2. Len(a) \in Nat /\ Len(b) \in Nat
    BY LenProperties, ZenonT(40)
  <2> QED
    BY <2>1, <2>2
<1>2. q \in Prefixes(a)
  <2>1. Len(q) \in 0 .. Len(a) /\ q = SubSeq(a, 1, Len(q))
    BY <1>1 DEF IsPrefix
  <2> QED
    BY <2>1 DEF Prefixes
<1>3. q \in CommonPrefixes({a, c})
  BY <1>2, Zenon DEF CommonPrefixes
<1>4. PICK l \in 0 .. Len(b) : q = SubSeq(b, 1, l)
  BY <1>3 DEF Prefixes
<1>5. Len(q) = l
  BY <1>1, <1>4
<1> QED
  BY <1>1, <1>4, <1>5 DEF IsPrefix

LEMMA PageIs ==
  ASSUME doc \in Document \cup {Blank}, Row # {}
  PROVE  /\ doc \in Document /\ doc.page \in DOMAIN Entries
         /\ Row = 0 .. Len(Entries[doc.page]) - 1
         /\ DOMAIN Entries[doc.page] = 1 .. Len(Entries[doc.page])
         /\ Len(Entries[doc.page]) \in Nat
<1>1. doc.page \in DOMAIN Entries /\ Row = 0 .. Len(Entries[doc.page]) - 1
  BY DEF Row, RowsOf
<1>2. doc.page \in Nat \X Nat /\ Entries[doc.page] \in Seq(Range(Entries[doc.page]))
  BY <1>1, EntriesAssumption
<1>3. doc # Blank
  <2>1. <<>> \notin Nat \X Nat
    OBVIOUS
  <2>2. Blank.page = <<>>
    BY DEF Blank
  <2> QED
    BY <1>2, <2>1, <2>2, Zenon
<1>4. DOMAIN Entries[doc.page] = 1 .. Len(Entries[doc.page]) /\ Len(Entries[doc.page]) \in Nat
  <2> DEFINE s == Entries[doc.page]
             S == Range(s)
  <2>1. s \in Seq(S)
    BY <1>2
  <2> HIDE DEF s, S
  <2>2. DOMAIN s = 1 .. Len(s) /\ Len(s) \in Nat
    BY <2>1
  <2> QED
    BY <2>2 DEF s
<1>5. doc \in Document
  BY <1>3
<1> QED
  BY <1>1, <1>4, <1>5, Zenon

LEMMA RowsAre ==
  ASSUME doc \in Document \cup {Blank}
  PROVE  /\ Shown \subseteq Row /\ Row \subseteq Nat
         /\ \A r \in Row : Kids(r) \in Nat
<1>1. Shown \subseteq Row
  BY DEF Shown, Matches, Row
<1>2. ASSUME NEW r \in Row PROVE r \in Nat /\ Kids(r) \in Nat
  <2>1. /\ doc.page \in DOMAIN Entries /\ r \in 0 .. Len(Entries[doc.page]) - 1
        /\ DOMAIN Entries[doc.page] = 1 .. Len(Entries[doc.page])
        /\ Len(Entries[doc.page]) \in Nat
    BY PageIs
  <2>2. r + 1 \in DOMAIN Entries[doc.page] /\ r \in Nat
    BY <2>1
  <2>3. Entries[doc.page][r + 1].kids \in Nat
    BY <2>1, <2>2, EntriesAssumption
  <2> QED
    BY <2>2, <2>3 DEF Kids
<1> QED
  BY <1>1, <1>2

\* The rows that are displayed follow each other without a gap.
LEMMA ShownTogether ==
  ASSUME doc \in Document \cup {Blank}, NEW i \in Shown, NEW k \in Shown,
         NEW j \in Nat, i < j, j < k
  PROVE  j \in Shown
<1> DEFINE p == doc.page
           id(r) == Entries[p][r + 1].id
           q == IdOf(doc)
<1>1. Shown = {r \in RowsOf(p) : IsPrefix(q, id(r))}
  BY DEF Shown, Matches, IdOf
<1>2. i \in Row /\ k \in Row /\ i \in Nat /\ k \in Nat
  BY RowsAre
<1>3. /\ doc \in Document /\ p \in DOMAIN Entries /\ Row = 0 .. Len(Entries[p]) - 1
      /\ DOMAIN Entries[p] = 1 .. Len(Entries[p]) /\ Len(Entries[p]) \in Nat
  BY <1>2, PageIs
<1>4. /\ i + 1 \in DOMAIN Entries[p] /\ j + 1 \in DOMAIN Entries[p] /\ k + 1 \in DOMAIN Entries[p]
      /\ i + 1 < j + 1 /\ j + 1 < k + 1 /\ j \in Row
  BY <1>2, <1>3
<1>5. q \in Seq(Range(q))
  <2>1. doc.query \in Query
    BY <1>3, EmptyIsQuery DEF Document, Empty
  <2> QED
    BY <2>1, IdAssumption DEF IdOf
<1>6. /\ id(i) \in Seq(Range(id(i))) /\ id(j) \in Seq(Range(id(j))) /\ id(k) \in Seq(Range(id(k)))
      /\ CommonPrefixes({id(i), id(k)}) \subseteq Prefixes(id(j))
  BY <1>3, <1>4, EntriesAssumption
<1>7. IsPrefix(q, id(i)) /\ IsPrefix(q, id(k))
  BY <1>1
<1>8. j \in RowsOf(p)
  BY <1>4 DEF Row
<1> HIDE DEF q, id, p
<1>9. IsPrefix(q, id(j))
  BY <1>5, <1>6, <1>7, PrefixBetween
<1> QED
  BY <1>1, <1>8, <1>9

LEMMA DisplayedAre ==
  ASSUME doc \in Document \cup {Blank}
  PROVE  /\ \A r \in Shown : Item(r) \in Displayed
         /\ \A r \in Shown \cap open : \A c \in 0 .. Kids(r) - 1 : Child(r, c) \in Displayed
         /\ \A f \in Displayed : \/ \E r \in Shown : f = Item(r)
                                 \/ \E r \in Shown \cap open : \E c \in 0 .. Kids(r) - 1 :
                                      f = Child(r, c)
<1>1. ASSUME NEW r \in Shown PROVE Item(r) \in Displayed
  <2>1. Target(Item(r)) /\ OnPage(Item(r)) /\ Rendered(Item(r))
    BY DEF Target, OnPage, Rendered, Item
  <2> QED
    BY <2>1, RenderedIsElement DEF Displayed
<1>2. ASSUME NEW r \in Shown \cap open, NEW c \in 0 .. Kids(r) - 1
      PROVE  Child(r, c) \in Displayed
  <2>1. Target(Child(r, c)) /\ OnPage(Child(r, c)) /\ Rendered(Child(r, c))
    BY DEF Target, OnPage, Rendered, Child
  <2> QED
    BY <2>1, RenderedIsElement DEF Displayed
<1>3. ASSUME NEW f \in Displayed
      PROVE  \/ \E r \in Shown : f = Item(r)
             \/ \E r \in Shown \cap open : \E c \in 0 .. Kids(r) - 1 : f = Child(r, c)
  <2>1. (\E r : f = Item(r)) \/ (\E r, c : f = Child(r, c))
    BY DEF Displayed, Element, ElementsOf
  <2>2. CASE \E r : f = Item(r)
    <3>1. PICK r : f = Item(r)
      BY <2>2
    <3>2. r \in Shown
      BY <3>1 DEF Displayed, Rendered, Item
    <3> QED
      BY <3>1, <3>2
  <2>3. CASE \E r, c : f = Child(r, c)
    <3>1. PICK r, c : f = Child(r, c)
      BY <2>3
    <3>2. r \in Shown \cap open /\ c \in 0 .. Kids(r) - 1
      BY <3>1 DEF Displayed, Rendered, Child
    <3> QED
      BY <3>1, <3>2
  <2> QED
    BY <2>1, <2>2, <2>3
<1> QED
  BY <1>1, <1>2, <1>3

-----------------------------------------------------------------------------
\* The order of the elements: a row, its children, the next row.
LEMMA Order ==
  /\ \A r, s \in Nat : Before(Item(r), Item(s)) <=> r < s
  /\ \A r, s, d \in Nat : Before(Item(r), Child(s, d)) <=> r <= s
  /\ \A r, s, c \in Nat : Before(Child(r, c), Item(s)) <=> r < s
  /\ \A r, s, c, d \in Nat : Before(Child(r, c), Child(s, d)) <=> r < s \/ (r = s /\ c < d)
<1>1. \A r : Place(Item(r)) = <<r, 0>>
  BY DEF Place, Item
<1>2. \A r, c : Place(Child(r, c)) = <<r, c + 1>>
  BY DEF Place, Child
<1> QED
  BY <1>1, <1>2 DEF Before

LEMMA DisplayedType ==
  ASSUME doc \in Document \cup {Blank}, NEW f \in Displayed
  PROVE  (\E r \in Nat : f = Item(r)) \/ (\E r, c \in Nat : f = Child(r, c))
<1>1. CASE \E r \in Shown : f = Item(r)
  BY <1>1, RowsAre
<1>2. CASE \E r \in Shown \cap open : \E c \in 0 .. Kids(r) - 1 : f = Child(r, c)
  <2>0. PICK r \in Shown \cap open : \E c \in 0 .. Kids(r) - 1 : f = Child(r, c)
    BY <1>2
  <2>1. PICK c \in 0 .. Kids(r) - 1 : f = Child(r, c)
    BY <2>0
  <2>2. r \in Nat /\ Kids(r) \in Nat
    BY RowsAre
  <2>3. c \in Nat
    BY <2>2
  <2> QED
    BY <2>1, <2>2, <2>3
<1> QED
  BY <1>1, <1>2, DisplayedAre

LEMMA OneOrder ==
  ASSUME doc \in Document \cup {Blank}, NEW f \in Displayed, NEW g \in Displayed,
         Before(f, g), Before(g, f)
  PROVE  FALSE
<1>1. (\E r \in Nat : f = Item(r)) \/ (\E r, c \in Nat : f = Child(r, c))
  BY DisplayedType
<1>2. (\E r \in Nat : g = Item(r)) \/ (\E r, c \in Nat : g = Child(r, c))
  BY DisplayedType
<1> QED
  BY <1>1, <1>2, Order

\* What the nearest displayed neighbours of e are.
LEMMA FollowingIs ==
  ASSUME doc \in Document \cup {Blank}, NEW e, NEW n \in Displayed, Before(e, n),
         \A g \in Displayed : Before(e, g) => g = n \/ Before(n, g)
  PROVE  Following(e) = n
<1> DEFINE after == {f \in Element : Rendered(f) /\ Before(e, f)}
           x == CHOOSE f \in after : \A g \in after : g = f \/ Before(f, g)
<1>1. n \in after /\ after \subseteq Displayed /\ \A g \in after : g = n \/ Before(n, g)
  BY DEF Displayed
<1>2. Following(e) = x
  BY <1>1 DEF Following
<1> HIDE DEF after
<1>3. x \in after /\ \A g \in after : g = x \/ Before(x, g)
  BY <1>1, Zenon
<1> HIDE DEF x
<1>4. (n = x \/ Before(x, n)) /\ (x = n \/ Before(n, x)) /\ x \in Displayed
  BY <1>1, <1>3
<1> QED
  BY <1>2, <1>4, OneOrder

LEMMA NoFollowing ==
  ASSUME NEW e, \A g \in Displayed : ~ Before(e, g) PROVE Following(e) = e
  BY DEF Following, Displayed

LEMMA PreviousIs ==
  ASSUME doc \in Document \cup {Blank}, NEW e, NEW n \in Displayed, Before(n, e),
         \A g \in Displayed : Before(g, e) => g = n \/ Before(g, n)
  PROVE  Previous(e) = n
<1> DEFINE ahead == {f \in Element : Rendered(f) /\ Before(f, e)}
           x == CHOOSE f \in ahead : \A g \in ahead : g = f \/ Before(g, f)
<1>1. n \in ahead /\ ahead \subseteq Displayed /\ \A g \in ahead : g = n \/ Before(g, n)
  BY DEF Displayed
<1>2. Previous(e) = x
  BY <1>1 DEF Previous
<1> HIDE DEF ahead
<1>3. x \in ahead /\ \A g \in ahead : g = x \/ Before(g, x)
  BY <1>1, Zenon
<1> HIDE DEF x
<1>4. (n = x \/ Before(n, x)) /\ (x = n \/ Before(x, n)) /\ x \in Displayed
  BY <1>1, <1>3
<1> QED
  BY <1>2, <1>4, OneOrder

LEMMA NoPrevious ==
  ASSUME NEW e, \A g \in Displayed : ~ Before(g, e) PROVE Previous(e) = Field
  BY DEF Previous, Displayed
-----------------------------------------------------------------------------
\* The nearest row at r or behind it, and the nearest one before r.
LEMMA NavNextIs ==
  ASSUME doc \in Document \cup {Blank}, NEW r \in Nat
  PROVE  \/ NavNext(r) = Nowhere /\ \A s \in Shown : s < r
         \/ \E m \in Shown : NavNext(r) = Item(m) /\ m >= r /\ \A s \in Shown : s >= r => m <= s
<1> DEFINE rows == {s \in Shown : s >= r}
<1>1. rows \in SUBSET Nat /\ Shown \subseteq Nat
  BY RowsAre
<1>2. CASE rows = {}
  <2>1. NavNext(r) = Nowhere
    BY <1>2, Zenon DEF NavNext
  <2>2. \A s \in Shown : s < r
    BY <1>1, <1>2
  <2> QED
    BY <2>1, <2>2
<1>3. CASE rows # {}
  <2>1. NavNext(r) = Item(Min(rows))
    BY <1>3, Zenon DEF NavNext
  <2>2. Min(rows) \in rows /\ \A s \in rows : Min(rows) <= s
    BY <1>1, <1>3, MinIsLeast
  <2> DEFINE m == Min(rows)
  <2>3. m \in Shown /\ m >= r /\ \A s \in Shown : s >= r => m <= s
    BY <2>2
  <2> HIDE DEF m
  <2> QED
    BY <2>1, <2>3 DEF m
<1> QED
  BY <1>2, <1>3

LEMMA NavPrevIs ==
  ASSUME doc \in Document \cup {Blank}, NEW r \in Shown
  PROVE  \/ NavPrev(r - 1) = Nowhere /\ \A s \in Shown : s >= r
         \/ r - 1 \in Shown /\ NavPrev(r - 1) = Item(r - 1)
<1> DEFINE rows == {s \in Shown : s <= r - 1}
<1>1. Shown \subseteq Nat /\ r \in Nat
  BY RowsAre
<1>2. CASE rows = {}
  <2>1. NavPrev(r - 1) = Nowhere
    BY <1>2, Zenon DEF NavPrev
  <2>2. \A s \in Shown : s >= r
    BY <1>1, <1>2
  <2> QED
    BY <2>1, <2>2
<1>3. CASE rows # {}
  <2>1. PICK s \in Shown : s <= r - 1
    BY <1>3
  <2>2. r - 1 \in Shown
    <3>1. CASE s = r - 1
      BY <2>1, <3>1
    <3>2. CASE s # r - 1
      <4>1. s \in Nat /\ r - 1 \in Nat /\ s < r - 1 /\ r - 1 < r
        BY <1>1, <2>1, <3>2
      <4> QED
        BY <4>1, ShownTogether
    <3> QED
      BY <3>1, <3>2
  <2>3. r - 1 \in rows /\ \A t \in rows : r - 1 >= t
    BY <1>1, <2>2
  <2>4. \A x \in rows : (\A t \in rows : x >= t) => x = r - 1
    BY <1>1, <2>3
  <2>5. NavPrev(r - 1) = Item(Max(rows))
    BY <1>3, Zenon DEF NavPrev
  <2> HIDE DEF rows
  <2>6. Max(rows) = r - 1
    BY <2>3, <2>4 DEF Max
  <2> QED
    BY <2>2, <2>5, <2>6
<1> QED
  BY <1>2, <1>3

\* Down from e leads to n, or there is nothing behind e; and so for Up.
Behind(e, n) == \/ n \in Displayed /\ Following(e) = n
                \/ n = Nowhere /\ Following(e) = e
Prior(e, n) == \/ n \in Displayed /\ Previous(e) = n
               \/ n = Nowhere /\ Previous(e) = Field

\* Behind the last of a row and its children comes the next row.
LEMMA RowBehind ==
  ASSUME doc \in Document \cup {Blank}, NEW e, NEW r \in Nat,
         \A s \in Shown : Before(e, Item(s)) <=> s > r,
         \A s \in Shown \cap open : \A c \in 0 .. Kids(s) - 1 : Before(e, Child(s, c)) <=> s > r
  PROVE  Behind(e, NavNext(r + 1))
<1>1. CASE NavNext(r + 1) = Nowhere /\ \A s \in Shown : s < r + 1
  <2>1. ASSUME NEW g \in Displayed, Before(e, g) PROVE FALSE
    <3>1. \A s \in Shown : ~ (s > r)
      BY <1>1, RowsAre
    <3>2. CASE \E s \in Shown : g = Item(s)
      BY <2>1, <3>1, <3>2
    <3>3. CASE \E s \in Shown \cap open : \E c \in 0 .. Kids(s) - 1 : g = Child(s, c)
      BY <2>1, <3>1, <3>3
    <3> QED
      BY <3>2, <3>3, DisplayedAre
  <2> QED
    BY <1>1, <2>1, NoFollowing DEF Behind
<1>2. ASSUME NEW m \in Shown, NavNext(r + 1) = Item(m), m >= r + 1,
             \A s \in Shown : s >= r + 1 => m <= s
      PROVE  Behind(e, NavNext(r + 1))
  <2>1. m \in Nat /\ m > r /\ Shown \subseteq Nat
    BY <1>2, RowsAre
  <2>2. Item(m) \in Displayed /\ Before(e, Item(m))
    BY <2>1, DisplayedAre
  <2>3. ASSUME NEW g \in Displayed, Before(e, g) PROVE g = Item(m) \/ Before(Item(m), g)
    <3>1. ASSUME NEW s \in Shown, g = Item(s) PROVE g = Item(m) \/ Before(Item(m), g)
      <4>1. s > r
        BY <2>3, <3>1
      <4>2. s \in Nat /\ (m = s \/ m < s)
        BY <1>2, <2>1, <4>1
      <4> QED
        BY <2>1, <3>1, <4>2, Order
    <3>2. ASSUME NEW s \in Shown \cap open, NEW c \in 0 .. Kids(s) - 1, g = Child(s, c)
          PROVE  g = Item(m) \/ Before(Item(m), g)
      <4>1. s > r
        BY <2>3, <3>2
      <4>2. s \in Nat /\ m <= s /\ c \in Nat
        BY <1>2, <2>1, <4>1, RowsAre
      <4> QED
        BY <2>1, <3>2, <4>2, Order
    <3> QED
      BY <3>1, <3>2, DisplayedAre
  <2>4. Following(e) = Item(m)
    BY <2>2, <2>3, FollowingIs
  <2> QED
    BY <1>2, <2>2, <2>4, Zenon DEF Behind
<1>3. r + 1 \in Nat
  OBVIOUS
<1> QED
  BY <1>1, <1>2, <1>3, NavNextIs

\* Rows that are open have children.
OpenInv == \A r \in open : Kids(r) > 0

LEMMA DownLeads ==
  ASSUME doc \in Document \cup {Blank}, OpenInv, NEW e \in Displayed
  PROVE  Behind(e, DownFrom(e))
<1>1. ASSUME NEW r \in Shown, e = Item(r) PROVE Behind(e, DownFrom(e))
  <2>1. DownFrom(e) = DownFromItem(r) /\ r \in Nat /\ Shown \subseteq Nat /\ Kids(r) \in Nat
    BY <1>1, RowsAre DEF DownFrom, Item
  <2>2. CASE r \in open
    <3>1. DownFrom(e) = Child(r, 0) /\ r \in Shown \cap open /\ 0 \in 0 .. Kids(r) - 1
      BY <1>1, <2>1, <2>2 DEF DownFromItem, OpenInv
    <3>2. Child(r, 0) \in Displayed /\ Before(e, Child(r, 0))
      BY <1>1, <2>1, <3>1, DisplayedAre, Order
    <3>3. ASSUME NEW g \in Displayed, Before(e, g)
          PROVE  g = Child(r, 0) \/ Before(Child(r, 0), g)
      <4>1. (\E s \in Nat : g = Item(s)) \/ (\E s, c \in Nat : g = Child(s, c))
        BY DisplayedType
      <4> QED
        BY <1>1, <2>1, <3>3, <4>1, Order
    <3>4. Following(e) = Child(r, 0)
      BY <3>2, <3>3, FollowingIs
    <3> QED
      BY <3>1, <3>2, <3>4, Zenon DEF Behind
  <2>3. CASE r \notin open
    <3>1. DownFrom(e) = NavNext(r + 1)
      BY <2>1, <2>3 DEF DownFromItem
    <3>2. \A s \in Shown : Before(e, Item(s)) <=> s > r
      BY <1>1, <2>1, Order
    <3>3. ASSUME NEW s \in Shown \cap open, NEW c \in 0 .. Kids(s) - 1
          PROVE  Before(e, Child(s, c)) <=> s > r
      <4>1. c \in Nat /\ s \in Nat /\ s # r
        BY <2>1, <2>3, RowsAre
      <4> QED
        BY <1>1, <2>1, <4>1, Order
    <3> QED
      BY <2>1, <3>1, <3>2, <3>3, RowBehind
  <2> QED
    BY <2>2, <2>3
<1>2. ASSUME NEW r \in Shown \cap open, NEW c \in 0 .. Kids(r) - 1, e = Child(r, c)
      PROVE  Behind(e, DownFrom(e))
  <2>1. /\ DownFrom(e) = DownFromChild(r, c) /\ r \in Nat /\ Shown \subseteq Nat
        /\ Kids(r) \in Nat /\ c \in Nat /\ c < Kids(r)
    BY <1>2, RowsAre DEF DownFrom, Child
  <2>2. CASE c + 1 < Kids(r)
    <3>1. DownFrom(e) = Child(r, c + 1) /\ c + 1 \in 0 .. Kids(r) - 1
      BY <2>1, <2>2 DEF DownFromChild
    <3>2. Child(r, c + 1) \in Displayed /\ Before(e, Child(r, c + 1))
      BY <1>2, <2>1, <3>1, DisplayedAre, Order
    <3>3. ASSUME NEW g \in Displayed, Before(e, g)
          PROVE  g = Child(r, c + 1) \/ Before(Child(r, c + 1), g)
      <4>1. (\E s \in Nat : g = Item(s)) \/ (\E s, d \in Nat : g = Child(s, d))
        BY DisplayedType
      <4> QED
        BY <1>2, <2>1, <3>3, <4>1, Order
    <3>4. Following(e) = Child(r, c + 1)
      BY <3>2, <3>3, FollowingIs
    <3> QED
      BY <3>1, <3>2, <3>4, Zenon DEF Behind
  <2>3. CASE ~ (c + 1 < Kids(r))
    <3>1. DownFrom(e) = NavNext(r + 1)
      BY <2>1, <2>3 DEF DownFromChild
    <3>2. \A s \in Shown : Before(e, Item(s)) <=> s > r
      BY <1>2, <2>1, Order
    <3>3. ASSUME NEW s \in Shown \cap open, NEW d \in 0 .. Kids(s) - 1
          PROVE  Before(e, Child(s, d)) <=> s > r
      <4>1. d \in Nat /\ s \in Nat /\ (s = r => d <= c)
        BY <2>1, <2>3, RowsAre
      <4> QED
        BY <1>2, <2>1, <4>1, Order
    <3> QED
      BY <2>1, <3>1, <3>2, <3>3, RowBehind
  <2> QED
    BY <2>2, <2>3
<1> QED
  BY <1>1, <1>2, DisplayedAre

LEMMA UpLeads ==
  ASSUME doc \in Document \cup {Blank}, OpenInv, NEW e \in Displayed
  PROVE  Prior(e, UpFrom(e))
<1>1. ASSUME NEW r \in Shown \cap open, NEW c \in 0 .. Kids(r) - 1, e = Child(r, c)
      PROVE  Prior(e, UpFrom(e))
  <2>1. /\ UpFrom(e) = UpFromChild(r, c) /\ r \in Nat /\ Kids(r) \in Nat /\ c \in Nat
    BY <1>1, RowsAre DEF UpFrom, Child
  <2>2. CASE c > 0
    <3>1. UpFrom(e) = Child(r, c - 1) /\ c - 1 \in 0 .. Kids(r) - 1 /\ c - 1 \in Nat
      BY <2>1, <2>2 DEF UpFromChild
    <3>2. Child(r, c - 1) \in Displayed /\ Before(Child(r, c - 1), e)
      BY <1>1, <2>1, <3>1, DisplayedAre, Order
    <3>3. ASSUME NEW g \in Displayed, Before(g, e)
          PROVE  g = Child(r, c - 1) \/ Before(g, Child(r, c - 1))
      <4>1. (\E s \in Nat : g = Item(s)) \/ (\E s, d \in Nat : g = Child(s, d))
        BY DisplayedType
      <4> QED
        BY <1>1, <2>1, <3>1, <3>3, <4>1, Order
    <3>4. Previous(e) = Child(r, c - 1)
      BY <3>2, <3>3, PreviousIs
    <3> QED
      BY <3>1, <3>2, <3>4 DEF Prior
  <2>3. CASE ~ (c > 0)
    <3>1. UpFrom(e) = Item(r) /\ c = 0
      BY <2>1, <2>3 DEF UpFromChild
    <3>2. Item(r) \in Displayed /\ Before(Item(r), e)
      BY <1>1, <2>1, DisplayedAre, Order
    <3>3. ASSUME NEW g \in Displayed, Before(g, e)
          PROVE  g = Item(r) \/ Before(g, Item(r))
      <4>1. (\E s \in Nat : g = Item(s)) \/ (\E s, d \in Nat : g = Child(s, d))
        BY DisplayedType
      <4> QED
        BY <1>1, <2>1, <3>1, <3>3, <4>1, Order
    <3>4. Previous(e) = Item(r)
      BY <3>2, <3>3, PreviousIs
    <3> QED
      BY <3>1, <3>2, <3>4 DEF Prior
  <2> QED
    BY <2>2, <2>3
<1>2. ASSUME NEW r \in Shown, e = Item(r) PROVE Prior(e, UpFrom(e))
  <2>1. UpFrom(e) = UpFromItem(r) /\ r \in Nat /\ Shown \subseteq Nat
    BY <1>2, RowsAre DEF UpFrom, Item
  <2>2. CASE NavPrev(r - 1) = Nowhere /\ \A s \in Shown : s >= r
    <3>1. UpFrom(e) = Nowhere
      BY <2>1, <2>2 DEF UpFromItem
    <3>2. ASSUME NEW g \in Displayed, Before(g, e) PROVE FALSE
      <4>1. ASSUME NEW s \in Shown, g = Item(s) PROVE FALSE
        BY <1>2, <2>1, <2>2, <3>2, <4>1, Order
      <4>2. ASSUME NEW s \in Shown \cap open, NEW c \in 0 .. Kids(s) - 1, g = Child(s, c)
            PROVE  FALSE
        <5>1. s \in Nat /\ c \in Nat /\ s >= r
          BY <2>2, RowsAre
        <5> QED
          BY <1>2, <2>1, <3>2, <4>2, <5>1, Order
      <4> QED
        BY <4>1, <4>2, DisplayedAre
    <3> QED
      BY <3>1, <3>2, NoPrevious DEF Prior
  <2>3. CASE r - 1 \in Shown /\ NavPrev(r - 1) = Item(r - 1)
    <3>1. r - 1 \in Nat /\ Kids(r - 1) \in Nat
      BY <2>3, RowsAre
    <3> DEFINE q == r - 1
               k == Kids(q) - 1
    <3>2. Item(q) # Nowhere /\ Item(q)[2] = q
      BY DEF Item, Nowhere
    <3>3. \A g \in Displayed : Before(g, e) =>
            \/ \E s \in Nat : g = Item(s) /\ s <= q
            \/ \E s, c \in Nat : g = Child(s, c) /\ s <= q
                                 /\ (s = q => q \in open /\ c <= k)
      <4> SUFFICES ASSUME NEW g \in Displayed, Before(g, e)
                   PROVE  \/ \E s \in Nat : g = Item(s) /\ s <= q
                          \/ \E s, c \in Nat : g = Child(s, c) /\ s <= q
                                               /\ (s = q => q \in open /\ c <= k)
        OBVIOUS
      <4>1. ASSUME NEW s \in Shown, g = Item(s) PROVE s \in Nat /\ s <= q
        BY <1>2, <2>1, <4>1, Order
      <4>2. ASSUME NEW s \in Shown \cap open, NEW c \in 0 .. Kids(s) - 1, g = Child(s, c)
            PROVE  s \in Nat /\ c \in Nat /\ s <= q /\ (s = q => q \in open /\ c <= k)
        <5>1. s \in Nat /\ c \in Nat
          BY RowsAre
        <5>2. s < r
          BY <1>2, <2>1, <4>2, <5>1, Order
        <5> QED
          BY <2>1, <5>1, <5>2
      <4> QED
        BY <4>1, <4>2, DisplayedAre
    <3>4. CASE q \in open /\ Kids(q) > 0
      <4>1. UpFrom(e) = Child(q, k) /\ q \in Shown \cap open /\ k \in 0 .. Kids(q) - 1 /\ k \in Nat
        BY <2>1, <2>3, <3>1, <3>2, <3>4 DEF UpFromItem
      <4>2. Child(q, k) \in Displayed /\ Before(Child(q, k), e)
        <5>1. Before(Child(q, k), e)
          BY <1>2, <2>1, <3>1, <4>1, Order
        <5> QED
          BY <4>1, <5>1, DisplayedAre
      <4> HIDE DEF k
      <4>3. ASSUME NEW g \in Displayed, Before(g, e)
            PROVE  g = Child(q, k) \/ Before(g, Child(q, k))
        BY <2>1, <3>1, <3>3, <4>1, <4>3, Order
      <4>4. Previous(e) = Child(q, k)
        BY <4>2, <4>3, PreviousIs
      <4> QED
        BY <4>1, <4>2, <4>4 DEF Prior
    <3>5. CASE ~ (q \in open /\ Kids(q) > 0)
      <4>1. UpFrom(e) = Item(q)
        BY <2>1, <2>3, <3>1, <3>2, <3>5 DEF UpFromItem
      <4>2. Item(q) \in Displayed /\ Before(Item(q), e)
        BY <1>2, <2>1, <2>3, <3>1, DisplayedAre, Order
      <4>3. q \notin open
        BY <3>5 DEF OpenInv
      <4> HIDE DEF k
      <4>4. ASSUME NEW g \in Displayed, Before(g, e)
            PROVE  g = Item(q) \/ Before(g, Item(q))
        BY <2>1, <3>1, <3>3, <4>3, <4>4, Order
      <4>5. Previous(e) = Item(q)
        BY <4>2, <4>4, PreviousIs
      <4> QED
        BY <4>1, <4>2, <4>5 DEF Prior
    <3> QED
      BY <3>4, <3>5
  <2> QED
    BY <2>2, <2>3, NavPrevIs
<1> QED
  BY <1>1, <1>2, DisplayedAre

-----------------------------------------------------------------------------
(* An element of the page has the focus only while it is displayed; the    *)
(* methods of the panel, one by one.                                       *)
FocusFits(b) == OnPage(b.focus) => b.results /\ Rendered(b.focus)

\* From b to c the focus stays, and no results are hidden.
Stays(b, c) == c.focus = b.focus /\ (b.results => c.results)

LEMMA StaysFits == ASSUME NEW b, NEW c, Stays(b, c), FocusFits(b) PROVE FocusFits(c)
  BY Zenon DEF Stays, FocusFits

LEMMA NotOnPage == ~ OnPage(Nowhere) /\ ~ OnPage(Field) /\ \A i : ~ OnPage(Select(i))
  BY DEF OnPage, Nowhere, Field, Select

LEMMA ActivateStays ==
  ASSUME NEW b, NEW d, PanelInv(b, d), NEW a \in BOOLEAN
  PROVE  Stays(b, Activate(b, a)) /\ Activate(b, a).results = b.results
<1>1. b \in PanelType
  BY DEF PanelInv, Shape
<1>2. CASE Activate(b, a) = [b EXCEPT !.field = Empty, !.active = TRUE]
  BY <1>1, <1>2 DEF Stays, PanelType
<1>3. CASE Activate(b, a) = [b EXCEPT !.field = Label, !.active = FALSE, !.last = Empty]
  BY <1>1, <1>3 DEF Stays, PanelType
<1>4. CASE Activate(b, a) = b
  BY <1>4 DEF Stays
<1> QED
  BY <1>2, <1>3, <1>4, Zenon DEF Activate

LEMMA MoveFocusIs ==
  ASSUME NEW b, NEW d, PanelInv(b, d),
         NEW e \in Element \cup {Nowhere, Field} \cup {Select(i) : i \in Section}
  PROVE  MoveFocus(b, e).focus = e /\ MoveFocus(b, e).results = b.results
<1> DEFINE c == [b EXCEPT !.focus = e]
<1>1. PanelInv(c, d)
  BY FocusOnly
<1>2. c.focus = e /\ c.results = b.results
  BY DEF PanelInv, Shape, PanelType
<1> HIDE DEF c
<1>3. CASE MoveFocus(b, e) = b /\ b.focus = e
  BY <1>3
<1>4. ASSUME NEW a \in BOOLEAN, MoveFocus(b, e) = Activate(c, a)
      PROVE  MoveFocus(b, e).focus = e /\ MoveFocus(b, e).results = b.results
  BY <1>1, <1>2, <1>4, ActivateStays DEF Stays
<1>5. CASE MoveFocus(b, e) = c
  BY <1>2, <1>5
<1>6. \/ MoveFocus(b, e) = b /\ b.focus = e
      \/ MoveFocus(b, e) = Activate(c, FALSE)
      \/ MoveFocus(b, e) = Activate(c, TRUE)
      \/ MoveFocus(b, e) = c
  BY DEF MoveFocus, c
<1> QED
  BY <1>3, <1>4, <1>5, <1>6

LEMMA FocusIs ==
  ASSUME doc \in Document \cup {Blank}, NEW b, NEW d, PanelInv(b, d), NEW e, Target(e)
  PROVE  /\ FocusFits(b) => FocusFits(Focus(b, e))
         /\ e = Field => Focus(b, e).focus = e
         /\ e \in Displayed /\ OnPage(e) /\ b.results => Focus(b, e).focus = e
         /\ e = Nowhere => Focus(b, e) = b
<1> DEFINE Goes == \/ e = Field \/ (e[1] = "select" /\ b.select)
                   \/ OnPage(e) /\ b.results /\ Rendered(e)
<1>1. CASE Goes
  <2>1. e \in Element \cup {Nowhere, Field} \cup {Select(i) : i \in Section}
    <3>1. CASE OnPage(e) /\ b.results /\ Rendered(e)
      BY <3>1, RenderedIsElement
    <3>2. CASE e = Field \/ e[1] = "select"
      BY <3>2 DEF Target, Nowhere, Item, Child
    <3> QED
      BY <1>1, <3>1, <3>2
  <2>2. Focus(b, e) = MoveFocus(b, e)
    BY <1>1, Zenon DEF Focus
  <2>3. Focus(b, e).focus = e /\ Focus(b, e).results = b.results
    BY <2>1, <2>2, MoveFocusIs
  <2>4. e # Nowhere
    BY <1>1 DEF OnPage, Nowhere, Field
  <2>5. OnPage(e) => b.results /\ Rendered(e)
    BY <1>1 DEF OnPage, Field
  <2> QED
    BY <2>3, <2>4, <2>5, Zenon DEF FocusFits
<1>2. CASE ~ Goes
  <2>1. Focus(b, e) = b
    BY <1>2, Zenon DEF Focus
  <2>2. ~ (e \in Displayed /\ OnPage(e) /\ b.results)
    BY <1>2 DEF Displayed
  <2> QED
    BY <1>2, <2>1, <2>2
<1> QED
  BY <1>1, <1>2

LEMMA HideResultsFits ==
  ASSUME NEW b, NEW d, PanelInv(b, d)
  PROVE  ~ OnPage(HideResults(b).focus)
<1>1. HideResults(b).focus = IF OnPage(b.focus) THEN Nowhere ELSE b.focus
  BY DEF HideResults, PanelInv, Shape, PanelType
<1> QED
  BY <1>1, NotOnPage

LEMMA CloseResultsWindowFits ==
  ASSUME NEW b, NEW d, PanelInv(b, d)
  PROVE  ~ OnPage(CloseResultsWindow(b).focus)
<1> DEFINE f == IF OnPage(b.focus) THEN Nowhere ELSE b.focus
           c == [b EXCEPT !.results = FALSE, !.close = FALSE, !.focus = f]
           e == [c EXCEPT !.field = Label, !.active = FALSE, !.last = Empty]
<1>1. CloseResultsWindow(b) = e
  <2>1. HideResults(b) = c
    BY DEF HideResults, PanelInv, Shape, PanelType
  <2>2. ~ c.results
    BY DEF PanelInv, Shape, PanelType
  <2> QED
    BY <2>1, <2>2 DEF CloseResultsWindow, Activate
<1>2. ~ OnPage(f)
  BY NotOnPage
<1> HIDE DEF f
<1>3. e.focus = f
  BY DEF PanelInv, Shape, PanelType
<1> QED
  BY <1>1, <1>2, <1>3

LEMMA CloseSelectionWindowFits ==
  ASSUME NEW b, NEW d, PanelInv(b, d), FocusFits(b)
  PROVE  FocusFits(CloseSelectionWindow(b))
<1> DEFINE f == IF b.focus[1] = "select" THEN Nowhere ELSE b.focus
           c == [b EXCEPT !.select = FALSE, !.focus = f]
<1>1. CloseSelectionWindow(b) = c
  BY DEF CloseSelectionWindow, PanelInv, Shape, PanelType
<1>2. f = Nowhere \/ f = b.focus
  OBVIOUS
<1> HIDE DEF f
<1>3. c.focus = f /\ c.results = b.results
  BY DEF PanelInv, Shape, PanelType
<1> QED
  BY <1>1, <1>2, <1>3, NotOnPage, Zenon DEF FocusFits

LEMMA SearchStays == ASSUME NEW b, NEW d, Shape(b, d) PROVE Stays(b, Search(b))
<1>1. CASE b.index \notin Section
  BY <1>1 DEF Search, Stays, Shape, PanelType
<1>2. CASE b.index \in Section
  <2> DEFINE l == Location(b.index, TrimLeft(b.field))
             x == b.close \/ ~b.results
             t == TrimLeft(b.field)
             c == [b EXCEPT !.keyTimeout = FALSE, !.loading = l, !.close = x,
                            !.results = TRUE, !.last = t]
  <2>1. Search(b) = c
    BY <1>2, Zenon DEF Search
  <2> HIDE DEF l, x, t
  <2>2. c.focus = b.focus /\ c.results = TRUE
    BY DEF Shape, PanelType
  <2> QED
    BY <2>1, <2>2 DEF Stays
<1> QED
  BY <1>1, <1>2

LEMMA OnSelectItemStays ==
  ASSUME NEW b, NEW d, PanelInv(b, d), NEW i \in Section \cup {SelectItemCount}
  PROVE  Stays(b, OnSelectItem(b, i))
<1> DEFINE x == IF i \in Section THEN i ELSE -1
           c == [b EXCEPT !.index = i, !.mark = x]
<1>1. x \in Section \cup {-1}
  OBVIOUS
<1> HIDE DEF x
<1>2. c \in PanelType
  BY <1>1 DEF PanelInv, Shape, PanelType
<1>3. Shape(c, d)
  BY <1>2 DEF PanelInv, Shape, PanelType, Displays
<1>4. Stays(b, c)
  BY DEF Stays, PanelInv, Shape, PanelType
<1>5. OnSelectItem(b, i) \in {Search(c), c}
  BY DEF OnSelectItem, x
<1> HIDE DEF c
<1>6. Stays(c, Search(c))
  BY <1>3, SearchStays
<1> QED
  BY <1>4, <1>5, <1>6 DEF Stays

LEMMA OnSearchSelectKeyFits ==
  ASSUME doc \in Document \cup {Blank}, NEW b, NEW d, PanelInv(b, d), FocusFits(b), NEW k \in Keys
  PROVE  FocusFits(OnSearchSelectKey(b, k))
<1>1. b.index \in 0 .. SelectItemCount /\ Section = 0 .. SelectItemCount - 1
      /\ SelectItemCount \in Nat \ {0}
  BY ContentAssumption DEF PanelInv, Shape, PanelType
<1>2. ASSUME NEW i \in Section \cup {SelectItemCount} PROVE FocusFits(OnSelectItem(b, i))
  BY <1>2, OnSelectItemStays, StaysFits
<1>3. CASE k = "down" /\ b.index < SelectItemCount
  <2>1. OnSearchSelectKey(b, k) = OnSelectItem(b, b.index + 1)
    BY <1>3 DEF OnSearchSelectKey
  <2> QED
    BY <1>1, <1>2, <1>3, <2>1
<1>4. CASE k = "up" /\ b.index > 0
  <2>1. OnSearchSelectKey(b, k) = OnSelectItem(b, b.index - 1)
    BY <1>4 DEF OnSearchSelectKey
  <2> QED
    BY <1>1, <1>2, <1>4, <2>1
<1>5. CASE k \in {"escape", "enter"}
  <2> DEFINE c == OnSelectItem(b, b.index)
             e == CloseSelectionWindow(c)
  <2>1. b.index \in Section \cup {SelectItemCount}
    BY <1>1
  <2>2. PanelInv(c, d) /\ FocusFits(c)
    BY <2>1, <1>2, OnSelectItemDone
  <2>3. OnSearchSelectKey(b, k) \in {c, Focus(e, Field)}
    BY <1>5 DEF OnSearchSelectKey
  <2> HIDE DEF c
  <2>4. PanelInv(e, d) /\ FocusFits(e)
    BY <2>2, CloseSelectionWindowKeeps, CloseSelectionWindowFits
  <2> HIDE DEF e
  <2>5. FocusFits(Focus(e, Field))
    BY <2>4, FocusIs DEF Target
  <2> QED
    BY <2>2, <2>3, <2>5
<1>6. CASE /\ ~ (k = "down" /\ b.index < SelectItemCount)
           /\ ~ (k = "up" /\ b.index > 0) /\ k \notin {"escape", "enter"}
  BY <1>6 DEF OnSearchSelectKey
<1> QED
  BY <1>3, <1>4, <1>5, <1>6

LEMMA ValueChangedFits ==
  ASSUME NEW b, NEW d, PanelInv(b, d), FocusFits(b)
  PROVE  FocusFits(ValueChanged(b))
<1>1. CASE ValueChanged(b) = b
  BY <1>1
<1>2. CASE ValueChanged(b) = [HideResults(b) EXCEPT !.last = Empty]
  <2> DEFINE h == HideResults(b)
             f == IF OnPage(b.focus) THEN Nowhere ELSE b.focus
  <2>1. h = [b EXCEPT !.results = FALSE, !.close = FALSE, !.focus = f]
    BY DEF HideResults, PanelInv, Shape, PanelType
  <2>2. ~ OnPage(f)
    BY NotOnPage
  <2> HIDE DEF f
  <2>3. [h EXCEPT !.last = Empty].focus = f
    BY <2>1 DEF PanelInv, Shape, PanelType
  <2> QED
    BY <1>2, <2>2, <2>3 DEF FocusFits
<1>3. CASE ValueChanged(b) = [b EXCEPT !.keyTimeout = TRUE, !.keyTimers = @ + 1]
  <2> DEFINE n == b.keyTimers + 1
             c == [b EXCEPT !.keyTimeout = TRUE, !.keyTimers = n]
  <2>1. ValueChanged(b) = c
    BY <1>3
  <2> HIDE DEF n
  <2>2. Stays(b, c)
    BY DEF Stays, PanelInv, Shape, PanelType
  <2> QED
    BY <2>1, <2>2, StaysFits
<1> QED
  BY <1>1, <1>2, <1>3 DEF ValueChanged

LEMMA EscapeFieldFits ==
  ASSUME NEW b, NEW d, PanelInv(b, d)
  PROVE  ~ OnPage(EscapeField(b).focus)
<1> DEFINE a == MoveFocus(b, Nowhere)
           f == IF OnPage(a.focus) THEN Nowhere ELSE a.focus
           c == [a EXCEPT !.results = FALSE, !.close = FALSE, !.focus = f, !.last = Empty]
           e == [c EXCEPT !.field = Label, !.active = FALSE, !.last = Empty]
<1>1. PanelInv(a, d)
  BY MoveFocusKeeps
<1>2. EscapeField(b) = Activate([HideResults(a) EXCEPT !.last = Empty], FALSE)
  BY Zenon DEF EscapeField
<1> HIDE DEF a
<1>3. EscapeField(b) = e
  <2>1. [HideResults(a) EXCEPT !.last = Empty] = c
    BY <1>1 DEF HideResults, PanelInv, Shape, PanelType
  <2>2. ~ c.results
    BY <1>1 DEF PanelInv, Shape, PanelType
  <2> QED
    BY <1>2, <2>1, <2>2 DEF Activate
<1>4. ~ OnPage(f)
  BY NotOnPage
<1> HIDE DEF f
<1>5. e.focus = f
  BY <1>1 DEF PanelInv, Shape, PanelType
<1> QED
  BY <1>3, <1>4, <1>5

LEMMA PointerStays ==
  ASSUME NEW b, NEW d, PanelInv(b, d)
  PROVE  Stays(b, OnSearchSelectShow(b)) /\ Stays(b, OnSearchSelectHide(b))
<1>1. b \in PanelType
  BY DEF PanelInv, Shape
<1> DEFINE n == IF b.hideTimeout THEN b.hideTimers - 1 ELSE b.hideTimers
           m == b.hideTimers + 1
           s == [b EXCEPT !.select = TRUE, !.hideTimeout = FALSE, !.hideTimers = n]
           h == [b EXCEPT !.hideTimeout = TRUE, !.hideTimers = m]
<1>2. OnSearchSelectShow(b) = s /\ OnSearchSelectHide(b) = h
  BY <1>1 DEF OnSearchSelectShow, OnSearchSelectHide, PanelType
<1> HIDE DEF n, m
<1>3. Stays(b, s) /\ Stays(b, h)
  BY <1>1 DEF Stays, PanelType
<1> QED
  BY <1>2, <1>3

LEMMA KillKeyTimerStays ==
  ASSUME NEW b, NEW d, PanelInv(b, d)
  PROVE  Stays(b, KillKeyTimer(b))
<1> DEFINE n == b.keyTimers - 1
           c == [b EXCEPT !.keyTimeout = FALSE, !.keyTimers = n]
<1>1. KillKeyTimer(b) = c \/ KillKeyTimer(b) = b
  BY DEF KillKeyTimer, PanelInv, Shape, PanelType
<1> HIDE DEF n
<1>2. Stays(b, c) /\ Stays(b, b)
  BY DEF Stays, PanelInv, Shape, PanelType
<1> QED
  BY <1>1, <1>2

LEMMA FieldChangeFits ==
  ASSUME doc \in Document \cup {Blank}, NEW b, NEW d, PanelInv(b, d), FocusFits(b),
         NEW p, Held(b, p), NEW key, NEW shift \in BOOLEAN
  PROVE  FocusFits(OnSearchFieldChange(b, key, shift))
<1> DEFINE c == KillKeyTimer(b)
<1>1. PanelInv(c, d) /\ FocusFits(c) /\ Held(c, p)
  BY KillKeyTimerKeeps, KillKeyTimerStays, StaysFits, HeldSame
<1> HIDE DEF c
<1>2. CASE key \in {"down", "enter"} /\ shift
  <2> DEFINE s == OnSearchSelectShow(c)
  <2>1. OnSearchFieldChange(b, key, shift) = Focus(s, Select(0))
    BY <1>2, Zenon DEF OnSearchFieldChange, c
  <2>2. PanelInv(s, d) /\ FocusFits(s)
    BY <1>1, ShowStopsTimer, PointerStays, StaysFits
  <2>3. Target(Select(0))
    BY ContentAssumption DEF Target
  <2> HIDE DEF s
  <2> QED
    BY <2>1, <2>2, <2>3, FocusIs
<1>3. CASE key \in {"down", "enter"} /\ ~ shift
  <2> DEFINE f == Focus(c, NavNext(0))
  <2>1. OnSearchFieldChange(b, key, shift) = ValueChanged(f)
    BY <1>3, Zenon DEF OnSearchFieldChange, c
  <2>2. PanelInv(f, d) /\ FocusFits(f)
    BY <1>1, NavNextIsTarget, FocusKeeps, FocusIs
  <2> HIDE DEF f
  <2> QED
    BY <2>1, <2>2, ValueChangedFits
<1>4. CASE key = "escape"
  <2>1. OnSearchFieldChange(b, key, shift) = EscapeField(c)
    BY <1>4, Zenon DEF OnSearchFieldChange, c
  <2> QED
    BY <1>1, <2>1, EscapeFieldFits DEF FocusFits
<1>5. CASE key \notin {"down", "enter", "escape"}
  <2>1. OnSearchFieldChange(b, key, shift) = ValueChanged(c)
    BY <1>5, Zenon DEF OnSearchFieldChange, c
  <2> QED
    BY <1>1, <2>1, ValueChangedFits
<1> QED
  BY <1>2, <1>3, <1>4, <1>5

-----------------------------------------------------------------------------
(* The inductive invariant of the focus, with Inv; only rows that have     *)
(* children are open.                                                      *)
FocusInv == FocusFits(box) /\ OpenInv

LEMMA InitFocus == Init => FocusInv
  BY NotOnPage DEF Init, PageInit, FocusInv, FocusFits, OpenInv

LEMMA SamePage ==
  ASSUME OpenInv, NEW c, FocusFits(c), box' = c, UNCHANGED <<doc, open>>
  PROVE  FocusInv'
<1>1. \A r : Kids(r)' = Kids(r)
  BY DEF Kids, Row
<1>2. \A e : Rendered(e)' = Rendered(e)
  BY <1>1 DEF Rendered, Shown
<1>3. OpenInv'
  BY <1>1 DEF OpenInv
<1>4. FocusFits(box)'
  BY <1>2 DEF FocusFits
<1> QED
  BY <1>3, <1>4 DEF FocusInv

\* With the focus elsewhere nothing depends on what the frame displays.
LEMMA OffPage == ASSUME OpenInv', ~ OnPage(box'.focus) PROVE FocusInv'
  BY DEF FocusInv, FocusFits

LEMMA EditFocus == ASSUME Inv, FocusInv, NEW t \in Texts, Edit(t) PROVE FocusInv'
<1> DEFINE c == [box EXCEPT !.field = t]
<1>1. box' = c /\ UNCHANGED <<doc, open>>
  BY DEF Edit, Change, page
<1>2. Stays(box, c)
  BY DEF Stays, Inv, PanelInv, Shape, PanelType
<1> HIDE DEF c
<1> QED
  BY <1>1, <1>2, StaysFits, SamePage DEF FocusInv

LEMMA ClicksFocus ==
  ASSUME Inv, FocusInv, ClickField \/ ClickAway \/ ClickClose \/ \E i \in Section : ClickFilter(i)
  PROVE  FocusInv'
<1>1. PanelInv(box, doc) /\ FocusFits(box) /\ OpenInv
  BY DEF Inv, FocusInv
<1>2. ASSUME NEW e \in Element \cup {Nowhere, Field} \cup {Select(i) : i \in Section}, ~ OnPage(e)
      PROVE  FocusFits(MoveFocus(box, e)) /\ PanelInv(MoveFocus(box, e), doc)
  BY <1>1, <1>2, MoveFocusIs, MoveFocusKeeps DEF FocusFits
<1>3. CASE ClickField \/ ClickAway
  <2>1. PICK e \in {Nowhere, Field} : box' = MoveFocus(box, e) /\ UNCHANGED <<doc, open>>
    BY <1>3 DEF ClickField, ClickAway, Change, page
  <2> QED
    BY <1>1, <1>2, <2>1, NotOnPage, SamePage
<1>4. CASE ClickClose
  <2> DEFINE m == MoveFocus(box, Nowhere)
  <2>1. PanelInv(m, doc)
    BY <1>2, NotOnPage
  <2>2. box' = CloseResultsWindow(m) /\ UNCHANGED <<doc, open>>
    BY <1>4 DEF ClickClose, Change, page
  <2>3. FocusFits(CloseResultsWindow(m))
    BY <2>1, CloseResultsWindowFits DEF FocusFits
  <2> QED
    BY <1>1, <2>2, <2>3, SamePage
<1>5. ASSUME NEW i \in Section, ClickFilter(i) PROVE FocusInv'
  <2> DEFINE m == MoveFocus(box, Select(i))
  <2>1. PanelInv(m, doc) /\ FocusFits(m)
    BY <1>2, NotOnPage
  <2>2. box' = OnSelectItem(m, i) /\ UNCHANGED <<doc, open>>
    BY <1>5 DEF ClickFilter, Change, page
  <2> HIDE DEF m
  <2>3. FocusFits(OnSelectItem(m, i))
    BY <2>1, OnSelectItemStays, StaysFits
  <2> QED
    BY <1>1, <2>2, <2>3, SamePage
<1> QED
  BY <1>3, <1>4, <1>5

LEMMA ClickItemFocus ==
  ASSUME Inv, FocusInv, NEW r \in Row, ClickItem(r)
  PROVE  FocusInv'
<1>1. /\ PanelInv(box, doc) /\ doc \in Document \cup {Blank} /\ OpenInv
      /\ r \in Shown /\ Kids(r) > 0 /\ box.results
  BY DEF Inv, PageInv, FocusInv, ClickItem
<1>2. Item(r) \in Element
  BY <1>1, DisplayedAre DEF Displayed
<1>3. box' = MoveFocus(box, Item(r)) /\ doc' = doc /\ open' \subseteq open \cup {r}
  BY DEF ClickItem, Change, Toggle
<1>4. box'.focus = Item(r) /\ box'.results
  BY <1>1, <1>2, <1>3, MoveFocusIs
<1>5. \A s : Kids(s)' = Kids(s)
  BY <1>3 DEF Kids, Row
<1>6. OpenInv'
  BY <1>1, <1>3, <1>5 DEF OpenInv
<1>7. Rendered(Item(r))'
  BY <1>1, <1>3 DEF Rendered, Item, Shown
<1> QED
  BY <1>4, <1>6, <1>7 DEF FocusInv, FocusFits

\* A key of the page moves the focus to what is displayed, or unfolds a row.
LEMMA NavFocus ==
  ASSUME Inv, FocusInv, OnPage(box.focus), NEW event, Nav(event), held' \in Keys
  PROVE  FocusInv'
<1> DEFINE k == IF Acts(event) THEN held' ELSE "none"
           e == box.focus
           up == IF UpFrom(e) = Nowhere THEN Field ELSE UpFrom(e)
           w == CloseResultsWindow(box)
           c == CASE k = "up"     -> Focus(box, up)
                  [] k = "down"   -> Focus(box, DownFrom(e))
                  [] k = "escape" -> Focus(w, Field)
                  [] OTHER        -> box
<1>1. PanelInv(box, doc) /\ doc \in Document \cup {Blank} /\ FocusFits(box) /\ OpenInv
  BY DEF Inv, PageInv, FocusInv
<1>2. box' = c /\ doc' = doc /\ Unfold(k, e)
  BY DEF Nav, Change
<1>3. Target(up) /\ Target(DownFrom(e)) /\ Target(Field)
  BY UpIsTarget, DownIsTarget DEF Target
<1> HIDE DEF k, up
<1>4. CASE k = "up"
  <2>1. box' = Focus(box, up) /\ open' = open
    BY <1>2, <1>4 DEF Unfold
  <2> QED
    BY <1>1, <1>2, <1>3, <2>1, FocusIs, SamePage
<1>5. CASE k = "down"
  <2>1. box' = Focus(box, DownFrom(e)) /\ open' = open
    BY <1>2, <1>5 DEF Unfold
  <2> QED
    BY <1>1, <1>2, <1>3, <2>1, FocusIs, SamePage
<1>6. CASE k = "escape"
  <2>1. box' = Focus(w, Field) /\ open' = open
    BY <1>2, <1>6 DEF Unfold
  <2>2. PanelInv(w, doc) /\ FocusFits(w)
    BY <1>1, CloseResultsWindowKeeps, CloseResultsWindowFits DEF FocusFits
  <2> HIDE DEF w
  <2>3. FocusFits(Focus(w, Field))
    BY <1>1, <1>3, <2>2, FocusIs
  <2> QED
    BY <1>1, <1>2, <2>1, <2>3, SamePage
<1>7. CASE k \notin {"up", "down", "escape"}
  <2>1. box' = box
    BY <1>2, <1>7
  <2>2. \A s : Kids(s)' = Kids(s)
    BY <1>2 DEF Kids, Row
  <2>3. box.results /\ Rendered(e)
    BY <1>1 DEF FocusFits
  <2>4. \/ open' = open
        \/ e[1] = "item" /\ Kids(e[2]) > 0 /\ open' = open \cup {e[2]}
        \/ e[1] = "item" /\ open' = open \ {e[2]}
    BY <1>2 DEF Unfold
  <2>5. OpenInv'
    BY <1>1, <2>2, <2>4 DEF OpenInv
  <2>6. Rendered(e)'
    BY <1>2, <2>1, <2>2, <2>3, <2>4 DEF Rendered, Shown
  <2> QED
    BY <2>1, <2>3, <2>5, <2>6 DEF FocusInv, FocusFits
<1> QED
  BY <1>4, <1>5, <1>6, <1>7

LEMMA KeysFocus ==
  ASSUME Inv, FocusInv, (\E k \in Keys : KeyDown(k)) \/ KeyPress
  PROVE  FocusInv'
<1>1. CASE KeyPress
  <2>1. OnPage(box.focus) /\ Nav("keypress") /\ held' \in Keys
    BY <1>1 DEF KeyPress, Inv, PageInv
  <2> QED
    BY <2>1, NavFocus
<1>2. ASSUME NEW k \in Keys, KeyDown(k) PROVE FocusInv'
  <2>1. CASE OnPage(box.focus) /\ Nav("keydown")
    <3>1. Nav("keydown") /\ held' \in Keys
      BY <1>2, <2>1, Zenon DEF KeyDown
    <3> QED
      BY <2>1, <3>1, NavFocus
  <2>2. CASE /\ OnPage(box.focus) /\ k = "enter"
             /\ Toggle(box.focus[2]) /\ UNCHANGED <<box, owed, repeatOn>>
    <3> DEFINE r == box.focus[2]
    <3>1. Kids(r) > 0 /\ box.focus[1] = "item"
      BY <1>2, <2>2, EnterOnRow
    <3>2. FocusFits(box) /\ OpenInv /\ box' = box /\ doc' = doc /\ open' \subseteq open \cup {r}
      BY <2>2 DEF FocusInv, Toggle
    <3>3. \A s : Kids(s)' = Kids(s)
      BY <3>2 DEF Kids, Row
    <3>4. OpenInv'
      BY <3>1, <3>2, <3>3 DEF OpenInv
    <3>5. Rendered(box.focus)'
      BY <2>2, <3>1, <3>2 DEF FocusFits, Rendered, Shown
    <3> QED
      BY <2>2, <3>2, <3>4, <3>5 DEF FocusInv, FocusFits
  <2>3. CASE ~ OnPage(box.focus)
    <3> DEFINE c == IF box.focus[1] = "select" THEN OnSearchSelectKey(box, k) ELSE box
    <3>1. box' = c /\ UNCHANGED <<doc, open>>
      BY <1>2, <2>3 DEF KeyDown, Change, page
    <3>2. PanelInv(box, doc) /\ doc \in Document \cup {Blank} /\ FocusFits(box) /\ OpenInv
      BY DEF Inv, PageInv, FocusInv
    <3>3. FocusFits(c)
      BY <3>2, OnSearchSelectKeyFits
    <3> HIDE DEF c
    <3> QED
      BY <3>1, <3>2, <3>3, SamePage
  <2> QED
    BY <1>2, <2>1, <2>2, <2>3 DEF KeyDown
<1> QED
  BY <1>1, <1>2

LEMMA KeyUpFocus ==
  ASSUME Inv, FocusInv, NEW shift \in BOOLEAN, KeyUp(shift)
  PROVE  FocusInv'
<1>1. /\ PanelInv(box, doc) /\ doc \in Document \cup {Blank} /\ Held(box, pointer)
      /\ FocusFits(box) /\ OpenInv
  BY DEF Inv, PageInv, FocusInv
<1>2. UNCHANGED <<doc, open>> /\ (box' = box \/ box' = OnSearchFieldChange(box, held, shift))
  BY DEF KeyUp, Change, page
<1>3. FocusFits(OnSearchFieldChange(box, held, shift))
  BY <1>1, FieldChangeFits
<1> QED
  BY <1>1, <1>2, <1>3, SamePage

LEMMA PointerFocus ==
  ASSUME Inv, FocusInv, PointerLeave \/ \E p \in {"icon", "window"} : PointerEnter(p)
  PROVE  FocusInv'
<1> DEFINE h == OnSearchSelectHide(box)
<1>1. PanelInv(box, doc) /\ FocusFits(box) /\ OpenInv /\ UNCHANGED <<doc, open>>
  BY DEF Inv, FocusInv, PointerLeave, PointerEnter, page
<1>2. Stays(box, h) /\ FocusFits(h)
  BY <1>1, PointerStays, StaysFits
<1>3. CASE PointerLeave
  <2>1. box' \in {h, box}
    BY <1>3 DEF PointerLeave, Change
  <2> QED
    BY <1>1, <1>2, <2>1, SamePage
<1>4. ASSUME NEW p \in {"icon", "window"}, PointerEnter(p) PROVE FocusInv'
  <2> DEFINE b == IF pointer = "away" THEN box ELSE h
  <2>1. box' = OnSearchSelectShow(b)
    BY <1>4, Zenon DEF PointerEnter, Change
  <2>2. PanelInv(b, doc) /\ FocusFits(b)
    BY <1>1, <1>2, HideStartsTimer DEF Inv
  <2> HIDE DEF b
  <2>3. FocusFits(OnSearchSelectShow(b))
    BY <2>2, PointerStays, StaysFits
  <2> QED
    BY <1>1, <2>1, <2>3, SamePage
<1> QED
  BY <1>3, <1>4

LEMMA TimersFocus ==
  ASSUME Inv, FocusInv, KeyTimer \/ HideTimer
  PROVE  FocusInv'
<1>1. PanelInv(box, doc) /\ FocusFits(box) /\ OpenInv /\ UNCHANGED <<doc, open>>
  BY DEF Inv, FocusInv, KeyTimer, HideTimer, page
<1>2. CASE KeyTimer
  <2> DEFINE n == box.keyTimers - 1
             b == [box EXCEPT !.keyTimers = n]
  <2>1. n \in Nat
    BY <1>1, <1>2, PanelTimers DEF KeyTimer
  <2>2. box' = Search(b)
    BY <1>2 DEF KeyTimer, Change
  <2> HIDE DEF n
  <2>3. Stays(box, b) /\ b \in PanelType
    BY <1>1, <2>1 DEF Stays, PanelInv, Shape, PanelType
  <2>4. Shape(b, doc)
    BY <1>1, <2>3 DEF PanelInv, Shape, PanelType, Displays
  <2> HIDE DEF b
  <2>5. FocusFits(Search(b))
    BY <1>1, <2>3, <2>4, SearchStays, StaysFits
  <2> QED
    BY <1>1, <2>2, <2>5, SamePage
<1>3. CASE HideTimer
  <2> DEFINE w == CloseSelectionWindow(box)
             t == w.hideTimeout /\ box.hideTimers > 1
             n == w.hideTimers - 1
             c == [w EXCEPT !.hideTimeout = t, !.hideTimers = n]
  <2>1. box' = c
    BY <1>3 DEF HideTimer, Change
  <2>2. PanelInv(w, doc) /\ FocusFits(w)
    BY <1>1, CloseSelectionWindowKeeps, CloseSelectionWindowFits
  <2> HIDE DEF w, t, n
  <2>3. Stays(w, c)
    BY <2>2 DEF Stays, PanelInv, Shape, PanelType
  <2> HIDE DEF c
  <2> QED
    BY <1>1, <2>1, <2>2, <2>3, StaysFits, SamePage
<1> QED
  BY <1>2, <1>3

\* A new document arrives only after the old one has given up the focus.
LEMMA FrameFocus ==
  ASSUME Inv, FocusInv, FrameUnload \/ FrameLoad
  PROVE  FocusInv'
<1>1. PanelInv(box, doc) /\ FocusFits(box) /\ open' = {}
  BY DEF Inv, FocusInv, FrameUnload, FrameLoad, Load
<1>2. OpenInv'
  BY <1>1 DEF OpenInv
<1>3. CASE FrameUnload
  <2> DEFINE f == IF OnPage(box.focus) THEN Nowhere ELSE box.focus
             c == [box EXCEPT !.focus = f]
  <2>1. box' = c
    BY <1>3 DEF FrameUnload
  <2>2. ~ OnPage(f)
    BY NotOnPage
  <2> HIDE DEF f
  <2>3. c.focus = f
    BY <1>1 DEF PanelInv, Shape, PanelType
  <2> QED
    BY <1>2, <2>1, <2>2, <2>3, OffPage
<1>4. CASE FrameLoad
  <2>1. box'.focus = box.focus
    BY <1>1, <1>4 DEF FrameLoad, PanelInv, Shape, PanelType
  <2>2. Shown = {}
    <3>1. Blank.page = <<>>
      BY DEF Blank
    <3>2. doc = Blank
      BY <1>4 DEF FrameLoad
    <3>3. Row = {}
      <4>1. <<>> \notin Nat \X Nat
        OBVIOUS
      <4>2. <<>> \notin DOMAIN Entries
        BY <4>1, EntriesAssumption, Zenon
      <4> QED
        BY <3>1, <3>2, <4>2, Zenon DEF Row, RowsOf
    <3> QED
      BY <3>2, <3>3, RowsAre
  <2>3. ~ OnPage(box.focus)
    BY <1>1, <2>2 DEF FocusFits, Rendered
  <2> QED
    BY <1>2, <2>1, <2>3, OffPage
<1> QED
  BY <1>3, <1>4

LEMMA NextFocus == Inv /\ FocusInv /\ [Next]_vars => FocusInv'
<1> SUFFICES ASSUME Inv, FocusInv, [Next]_vars PROVE FocusInv'
  OBVIOUS
<1>1. ASSUME NEW t \in Texts, Edit(t) PROVE FocusInv'
  BY <1>1, EditFocus
<1>2. CASE ClickField \/ ClickAway \/ ClickClose \/ \E i \in Section : ClickFilter(i)
  BY <1>2, ClicksFocus
<1>3. ASSUME NEW r \in Row, ClickItem(r) PROVE FocusInv'
  BY <1>3, ClickItemFocus
<1>4. CASE (\E k \in Keys : KeyDown(k)) \/ KeyPress
  BY <1>4, KeysFocus
<1>5. ASSUME NEW shift \in BOOLEAN, KeyUp(shift) PROVE FocusInv'
  BY <1>5, KeyUpFocus
<1>6. CASE PointerLeave \/ \E p \in {"icon", "window"} : PointerEnter(p)
  BY <1>6, PointerFocus
<1>7. CASE KeyTimer \/ HideTimer
  BY <1>7, TimersFocus
<1>8. CASE FrameUnload \/ FrameLoad
  BY <1>8, FrameFocus
<1>9. CASE UNCHANGED vars
  BY <1>9, SamePage DEF FocusInv, vars
<1> QED
  BY <1>1, <1>2, <1>3, <1>4, <1>5, <1>6, <1>7, <1>8, <1>9 DEF Next

\* Up and Down, pressed on the page, lead to the neighbours.
LEMMA ArrowsLead ==
  ASSUME Inv, FocusInv, OnPage(box.focus), Nav("keydown")
  PROVE  /\ held' = "up"   => box'.focus = Previous(box.focus)
         /\ held' = "down" => box'.focus = Following(box.focus)
<1> DEFINE e == box.focus
           up == IF UpFrom(e) = Nowhere THEN Field ELSE UpFrom(e)
           down == DownFrom(e)
<1>1. PanelInv(box, doc) /\ doc \in Document \cup {Blank} /\ box.results /\ OpenInv
  BY DEF Inv, PageInv, FocusInv, FocusFits
<1>2. e \in Displayed
  <2>1. Rendered(e) /\ e \in Element
    <3>1. e \in Element \cup {Nowhere, Field} \cup {Select(i) : i \in Section}
      BY <1>1 DEF PanelInv, Shape, PanelType
    <3> QED
      BY <3>1, NotOnPage DEF FocusInv, FocusFits
  <2> QED
    BY <2>1 DEF Displayed
<1>3. Target(up) /\ Target(down)
  BY UpIsTarget, DownIsTarget
<1>4. \A f \in Displayed : OnPage(f) /\ f # Nowhere
  BY <1>1, DisplayedType DEF OnPage, Item, Child, Nowhere
<1>5. ASSUME held' = "up" PROVE box'.focus = Previous(e)
  <2>1. box' = Focus(box, up)
    BY <1>5 DEF Nav, Change, Acts
  <2>2. Prior(e, UpFrom(e))
    BY <1>1, <1>2, UpLeads
  <2>3. up = Previous(e) /\ (up = Field \/ up \in Displayed)
    BY <1>4, <2>2 DEF Prior
  <2> HIDE DEF up
  <2> QED
    BY <1>1, <1>3, <1>4, <2>1, <2>3, FocusIs
<1>6. ASSUME held' = "down" PROVE box'.focus = Following(e)
  <2>1. box' = Focus(box, down)
    BY <1>6 DEF Nav, Change, Acts
  <2>2. Behind(e, down)
    BY <1>1, <1>2, DownLeads
  <2> HIDE DEF down
  <2>3. \/ down \in Displayed /\ down = Following(e)
        \/ down = Nowhere /\ Following(e) = e
    BY <2>2 DEF Behind
  <2> QED
    BY <1>1, <1>3, <1>4, <2>1, <2>3, FocusIs
<1> QED
  BY <1>5, <1>6

(* With any entries and any query, Up and Down lead to the neighbour of the *)
(* element that has the focus, among those that are displayed.             *)
THEOREM ArrowsCorrect == Spec => ArrowsFollowThePage
<1> DEFINE A == OnPage(box.focus) /\ held = "none" =>
                  /\ held' = "up"   => box'.focus = Previous(box.focus)
                  /\ held' = "down" => box'.focus = Following(box.focus)
<1>1. Inv /\ FocusInv /\ [Next]_vars => [A]_vars
  <2> SUFFICES ASSUME Inv, FocusInv, Next, OnPage(box.focus), held = "none",
                      held' \in {"up", "down"}
               PROVE  /\ held' = "up"   => box'.focus = Previous(box.focus)
                      /\ held' = "down" => box'.focus = Following(box.focus)
    OBVIOUS
  <2>1. Nav("keydown")
    <3>1. ASSUME NEW k \in Keys, KeyDown(k) PROVE Nav("keydown")
      BY <3>1 DEF KeyDown
    <3>2. held' # held
      OBVIOUS
    <3>3. \E k \in Keys : KeyDown(k)
      BY <3>2 DEF Next, Edit, ClickField, ClickAway, ClickClose, ClickFilter, ClickItem, KeyPress,
                  KeyUp, PointerEnter, PointerLeave, KeyTimer, HideTimer, FrameUnload, FrameLoad,
                  keys
    <3> QED
      BY <3>1, <3>3
  <2> QED
    BY <2>1, ArrowsLead
<1> QED
  BY <1>1, SpecInv, InitFocus, NextFocus, PTL DEF Spec, ArrowsFollowThePage
=============================================================================
