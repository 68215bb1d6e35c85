------------------------------ MODULE SearchBox ------------------------------
(***************************************************************************)
(* The search panel of the generated documentation (class SearchBox,       *)
(* doc/html/search/search.js:58-398) together with the results page in its *)
(* frame (SearchResults), as the events of the browser drive them          *)
(* (doc/html/index.html:53-97): focus and blur, keys, the pointer, the two *)
(* timers, and the frame, which loads the document it was given some time  *)
(* later.  Each event is one action, with the events it fires on the way:  *)
(* an element that takes the focus from the field runs the field's onblur. *)
(*                                                                         *)
(* Abstracted: positions and sizes, lastResultsPage and the class of       *)
(* MSearchBox (written and never read), upper and lower case.              *)
(***************************************************************************)
EXTENDS SearchResults, FiniteSets

CONSTANTS
  Label,        \* searchLabel, what the field shows at rest
  Content,      \* Content[s]: indexSectionsWithContent, the first characters of section s
  MaxTimers     \* bound: key timers that run at once

Empty   == <<>>
Section == DOMAIN Content                    \* the filters, numbered from 0
SelectItemCount == Cardinality(Section)
Keys    == {"up", "down", "left", "right", "escape", "enter"}

ASSUME TextsAssumption   == {Label, Empty} \subseteq Texts
ASSUME LabelAssumption   == \E i \in DOMAIN Label : Label[i] # " "
ASSUME ContentAssumption ==
  /\ SelectItemCount \in Nat \ {0} /\ Section = 0 .. SelectItemCount - 1
  /\ \A s \in Section : /\ Content[s] \in Seq(Range(Content[s])) \ {Empty}
                        /\ \A i \in DOMAIN Content[s] : <<s, i - 1>> \in DOMAIN Entries
ASSUME MaxTimersAssumption == MaxTimers \in Nat \ {0}

VARIABLES
  box,          \* the panel: its fields are given by Panel below
  pointer,      \* where the pointer is: away, on the icon, on the window
  owed          \* history: the field was edited and no handler has looked since

vars == <<box, pointer, owed, doc, open, held, repeatOn>>

Field     == <<"field">>
Select(i) == <<"select", i>>

(* results, close and select say which of the results window, its close    *)
(* button and the selection window are displayed.  keyTimers and hideTimers *)
(* count the timers that run; keyTimeout and hideTimeout say whether the    *)
(* variable of that name still holds the youngest of them.  loading is the  *)
(* document the frame has been given and not yet loaded.                    *)
Panel ==
  [field : Texts, active : BOOLEAN, last : Query,
   index : Section \cup {SelectItemCount}, mark : Section \cup {-1},
   results : BOOLEAN, close : BOOLEAN, select : BOOLEAN,
   keyTimeout : BOOLEAN, keyTimers : 0 .. MaxTimers,
   hideTimeout : BOOLEAN, hideTimers : Nat,
   focus : Element \cup {Nowhere, Field} \cup {Select(i) : i \in Section},
   loading : Document \cup {Blank}]

Strip(t) == SelectSeq(t, LAMBDA c : c # " ")

(* True of all sequences, by an induction that is beyond the prover; TLC    *)
(* evaluates it for the texts of a run.                                    *)
ASSUME SpacesAssumption ==
  /\ Strip(Empty) = Empty
  /\ \A t \in Texts : Strip(TrimLeft(t)) = Strip(t) /\ Strip(Strip(t)) = Strip(t)

-----------------------------------------------------------------------------
(* The methods of SearchBox, as functions of the panel b.                  *)

Activate(b, isActive) ==
  IF isActive \/ b.results
  THEN IF b.field = Label THEN [b EXCEPT !.field = Empty, !.active = TRUE] ELSE b
  ELSE [b EXCEPT !.field = Label, !.active = FALSE, !.last = Empty]

\* The focus moves to e; onfocus and onblur of the field are OnSearchFieldFocus.
MoveFocus(b, e) ==
  LET c == [b EXCEPT !.focus = e]
  IN  CASE b.focus = e                     -> b
        [] b.focus = Field /\ e # Field    -> Activate(c, FALSE)
        [] b.focus # Field /\ e = Field    -> Activate(c, TRUE)
        [] OTHER                           -> c

\* e.focus() does nothing where there is no e or e is not displayed.
Focus(b, e) ==
  IF e = Field \/ (e[1] = "select" /\ b.select) \/ (OnPage(e) /\ b.results /\ Rendered(e))
  THEN MoveFocus(b, e) ELSE b

\* Variant with a mistake: the close button stays.
HideResultsKeepsClose(b) == [b EXCEPT !.results = FALSE,
                                      !.focus = IF OnPage(@) THEN Nowhere ELSE @]

HideResults(b) == [b EXCEPT !.results = FALSE, !.close = FALSE,
                            !.focus = IF OnPage(@) THEN Nowhere ELSE @]

CloseResultsWindow(b) == Activate(HideResults(b), FALSE)

CloseSelectionWindow(b) == [b EXCEPT !.select = FALSE,
                                     !.focus = IF @[1] = "select" THEN Nowhere ELSE @]

\* Variant with a mistake: the timer that hides the window is forgotten and not stopped.
OnSearchSelectShowNoClear(b) == [b EXCEPT !.select = TRUE, !.hideTimeout = FALSE]

OnSearchSelectShow(b) ==
  [b EXCEPT !.select = TRUE, !.hideTimeout = FALSE,
            !.hideTimers = IF b.hideTimeout THEN @ - 1 ELSE @]

OnSearchSelectHide(b) == [b EXCEPT !.hideTimeout = TRUE, !.hideTimers = @ + 1]

\* The document for the text t in section s; indexOf("") is 0.
Location(s, t) ==
  LET chars == Content[s]
      found == {i \in DOMAIN chars : t = Empty \/ chars[i] = t[1]}
  IN  IF found = {} THEN [page |-> NoMatches, query |-> Empty]
      ELSE [page |-> <<s, Min(found) - 1>>, query |-> t]

\* With an index past the last section the look-up throws, and nothing follows.
Search(b) ==
  LET text == TrimLeft(b.field)
  IN  IF b.index \notin Section THEN [b EXCEPT !.keyTimeout = FALSE]
      ELSE [b EXCEPT !.keyTimeout = FALSE, !.loading = Location(b.index, text),
                     !.close = @ \/ ~b.results, !.results = TRUE, !.last = text]

OnSelectItem(b, i) ==
  LET c == [b EXCEPT !.index = i, !.mark = IF i \in Section THEN i ELSE -1]
  IN  IF Strip(b.field) # Empty /\ b.active THEN Search(c) ELSE c

Throws(b) == b.index \notin Section /\ Strip(b.field) # Empty /\ b.active

\* Variant with a mistake: Up goes on above the first filter.
OnSearchSelectKeyUnbounded(b, key) ==
  CASE key = "down" /\ b.index < SelectItemCount -> OnSelectItem(b, b.index + 1)
    [] key = "up"                                     -> OnSelectItem(b, b.index - 1)
    [] key \in {"escape", "enter"}                    -> Focus(CloseSelectionWindow(b), Field)
    [] OTHER                                          -> b

OnSearchSelectKey(b, key) ==
  CASE key = "down" /\ b.index < SelectItemCount -> OnSelectItem(b, b.index + 1)
    [] key = "up" /\ b.index > 0                      -> OnSelectItem(b, b.index - 1)
    [] key \in {"escape", "enter"} /\ Throws(b)       -> OnSelectItem(b, b.index)
    [] key \in {"escape", "enter"} /\ ~Throws(b)      ->
         Focus(CloseSelectionWindow(OnSelectItem(b, b.index)), Field)
    [] OTHER                                          -> b

\* OnSearchFieldChange: first the running timer is killed, ...
KillKeyTimer(b) == IF b.keyTimeout THEN [b EXCEPT !.keyTimeout = FALSE, !.keyTimers = @ - 1]
                   ELSE b

\* ... Escape leaves the panel, ...
EscapeField(b) ==
  LET c == HideResults(MoveFocus(b, Nowhere))
  IN  Activate([c EXCEPT !.last = Empty], FALSE)

\* Variant with a mistake: no new timer while results are displayed.
ValueChangedOnce(b) ==
  CASE Strip(b.field) = b.last                  -> b
    [] Strip(b.field) = Empty /\ b.last # Empty -> [HideResults(b) EXCEPT !.last = Empty]
    [] OTHER -> IF b.results THEN b
                ELSE [b EXCEPT !.keyTimeout = TRUE, !.keyTimers = @ + 1]

\* ... and at the end a changed value sets a new timer or closes the results.
ValueChanged(b) ==
  CASE Strip(b.field) = b.last                     -> b
    [] Strip(b.field) = Empty /\ b.last # Empty    -> [HideResults(b) EXCEPT !.last = Empty]
    [] OTHER                                       -> [b EXCEPT !.keyTimeout = TRUE, !.keyTimers = @ + 1]

OnSearchFieldChange(b, key, shift) ==
  LET c == KillKeyTimer(b)
  IN  CASE key \in {"down", "enter"} /\ shift  -> Focus(OnSearchSelectShow(c), Select(0))
        [] key \in {"down", "enter"} /\ ~shift -> ValueChanged(Focus(c, NavNext(0)))
        [] key = "escape"                       -> EscapeField(c)
        [] OTHER                                -> ValueChanged(c)
-----------------------------------------------------------------------------
Init == /\ box = [field |-> Label, active |-> FALSE, last |-> Empty,
                  index |-> 0, mark |-> 0,
                  results |-> FALSE, close |-> FALSE, select |-> FALSE,
                  keyTimeout |-> FALSE, keyTimers |-> 0,
                  hideTimeout |-> FALSE, hideTimers |-> 0,
                  focus |-> Nowhere, loading |-> Blank]
        /\ pointer = "away" /\ owed = FALSE
        /\ PageInit

\* Every change of the panel goes through here: owed ends when the text does.
Change(b, o) == box' = b /\ owed' = (o /\ b.active)

\* The user changes the text, by a key or without one.
Edit(t) == /\ box.focus = Field /\ t # box.field
           /\ Change([box EXCEPT !.field = t], TRUE)
           /\ UNCHANGED <<pointer, page, keys>>

ClickField == /\ held = "none" /\ box.focus # Field
              /\ Change(MoveFocus(box, Field), owed)
              /\ UNCHANGED <<pointer, page, keys>>

ClickAway == /\ held = "none" /\ box.focus # Nowhere
             /\ Change(MoveFocus(box, Nowhere), owed)
             /\ UNCHANGED <<pointer, page, keys>>

ClickClose == /\ held = "none" /\ box.close
              /\ Change(CloseResultsWindow(MoveFocus(box, Nowhere)), owed)
              /\ UNCHANGED <<pointer, page, keys>>

\* With the mouse, or by Enter on it where OnSearchSelectKey has thrown.
ClickFilter(i) == /\ box.select
                  /\ held = "none" \/ (held = "enter" /\ box.focus = Select(i))
                  /\ Change(OnSelectItem(MoveFocus(box, Select(i)), i), owed)
                  /\ UNCHANGED <<pointer, page, keys>>

\* The link of a row with children; that of a row without leaves the document.
ClickItem(r) == /\ held = "none" /\ box.results /\ r \in Shown /\ Kids(r) > 0
                /\ Change(MoveFocus(box, Item(r)), owed)
                /\ Toggle(r)
                /\ UNCHANGED <<pointer, keys>>

\* Keys go to the element that has the focus when they come.
Nav(event) ==
  LET e   == box.focus
      key == IF Acts(event) THEN held' ELSE "none"
  IN  /\ ProcessKeys(event)
      /\ Unfold(key, e)
      /\ UNCHANGED doc
      /\ Change(CASE key = "up"     -> Focus(box, IF UpFrom(e) = Nowhere THEN Field ELSE UpFrom(e))
                 [] key = "down"   -> Focus(box, DownFrom(e))
                 [] key = "escape" -> Focus(CloseResultsWindow(box), Field)
                 [] OTHER          -> box, owed)

\* The keys that a handler tells apart; up stands for any other key of the
\* field.  Enter on a link of the page follows it: see ClickItem.
KeysAt(e) == CASE OnPage(e)   -> {k \in Keys : k = "enter" => e[1] = "item" /\ Kids(e[2]) > 0}
               [] e = Nowhere -> {}
               [] OTHER       -> {"up", "down", "escape", "enter"}

KeyDown(k) ==
  /\ k \in KeysAt(box.focus) /\ held \in {"none", k} /\ held' = k
  /\ \/ OnPage(box.focus) /\ k # "enter" /\ Nav("keydown")
     \/ /\ OnPage(box.focus) /\ k = "enter"
        /\ Toggle(box.focus[2]) /\ UNCHANGED <<box, owed, repeatOn>>
     \/ /\ ~OnPage(box.focus)
        /\ Change(IF box.focus[1] = "select" THEN OnSearchSelectKey(box, k) ELSE box, owed)
        /\ UNCHANGED <<page, repeatOn>>
  /\ UNCHANGED pointer

\* Enter passes before ProcessKeys.
KeyPress == /\ held \notin {"none", "enter"} /\ OnPage(box.focus)
            /\ UNCHANGED <<held, pointer>>
            /\ Nav("keypress")

\* Shift with Down or Enter opens the filters and drops the search that was due.
KeyUp(shift) ==
  /\ held # "none" /\ held' = "none"
  /\ ProcessKeys("keyup")
  /\ \/ /\ box.focus = Field
        /\ Change(OnSearchFieldChange(box, held, shift),
                 held \in {"down", "enter"} /\ shift /\ (owed \/ box.keyTimeout))
        /\ box'.keyTimers <= MaxTimers
     \/ box.focus # Field /\ UNCHANGED <<box, owed>>
  /\ UNCHANGED <<pointer, page>>

(* The pointer enters the icon or the selection window; coming from the    *)
(* one to the other it leaves the first.  An element that has been closed  *)
(* under the pointer may or may not report that the pointer has left.      *)
PointerEnter(p) ==
  /\ pointer # p /\ (p = "window" => box.select)
  /\ pointer' = p
  /\ Change(OnSearchSelectShow(IF pointer = "away" THEN box ELSE OnSearchSelectHide(box)), owed)
  /\ UNCHANGED <<page, keys>>

PointerLeave ==
  /\ pointer # "away" /\ pointer' = "away"
  /\ \/ Change(OnSearchSelectHide(box), owed)
     \/ pointer = "window" /\ ~box.select /\ UNCHANGED <<box, owed>>
  /\ UNCHANGED <<page, keys>>

KeyTimer == /\ box.keyTimers > 0
            /\ Change(Search([box EXCEPT !.keyTimers = @ - 1]), owed)
            /\ UNCHANGED <<pointer, page, keys>>

HideTimer == /\ box.hideTimers > 0
             /\ Change([CloseSelectionWindow(box) EXCEPT
                          !.hideTimeout = @ /\ box.hideTimers > 1, !.hideTimers = @ - 1], owed)
             /\ UNCHANGED <<pointer, page, keys>>

\* The frame gives up its document, later the new one is there.
FrameUnload == /\ box.loading # Blank /\ doc # Blank
               /\ Load(Blank)
               /\ box' = [box EXCEPT !.focus = IF OnPage(@) THEN Nowhere ELSE @]
               /\ UNCHANGED <<pointer, owed, keys>>

FrameLoad == /\ box.loading # Blank /\ doc = Blank
             /\ Load(box.loading)
             /\ box' = [box EXCEPT !.loading = Blank]
             /\ UNCHANGED <<pointer, owed, keys>>

Next == \/ \E t \in Texts : Edit(t)
        \/ ClickField \/ ClickAway \/ ClickClose
        \/ \E i \in Section : ClickFilter(i)
        \/ \E r \in Row : ClickItem(r)
        \/ \E k \in Keys : KeyDown(k)
        \/ KeyPress
        \/ \E shift \in BOOLEAN : KeyUp(shift)
        \/ \E p \in {"icon", "window"} : PointerEnter(p)
        \/ PointerLeave
        \/ KeyTimer \/ HideTimer
        \/ FrameUnload \/ FrameLoad

Spec == Init /\ [][Next]_vars
-----------------------------------------------------------------------------
TypeOK == /\ box \in Panel /\ doc \in Document \cup {Blank} /\ open \subseteq Row
          /\ held \in Keys \cup {"none"} /\ repeatOn \in BOOLEAN
          /\ pointer \in {"away", "icon", "window"} /\ owed \in BOOLEAN

(* The results window shows the document of the last search in one of the  *)
(* sections, or waits for it, and has its close button; hidden, it has     *)
(* none.  Eight handlers and a timer open, close and reset the panel, each *)
(* in part.                                                                *)
ResultsAreOfLastSearch ==
  /\ box.results => LET d == IF box.loading = Blank THEN doc ELSE box.loading
                    IN  \E s \in Section : d = Location(s, box.last)
  /\ box.close = box.results

(* When the panel is at rest on a text, that is no timer runs and no       *)
(* handler is owed, the text is the one that was searched (up to spaces).  *)
(* No order of keys, timers, focus changes and filter choices loses the    *)
(* last change of the text, unless the filter is past the last section.    *)
CaughtUp ==
  box.active /\ box.keyTimers = 0 /\ ~owed /\ Strip(box.field) # Empty /\ box.index \in Section
    => box.results /\ Strip(box.last) = Strip(box.field)

(* A timer that closes the selection window can always be stopped, and     *)
(* none runs while the pointer is on the icon or on the window.            *)
HideTimerHeld == /\ box.hideTimers <= 1
                 /\ box.hideTimeout => box.hideTimers = 1
                 /\ box.hideTimers = 1 => box.hideTimeout /\ pointer = "away"

\* The order of the elements on the page, and the displayed neighbours of one.
Place(e) == IF e[1] = "item" THEN <<e[2], 0>> ELSE <<e[2], e[3] + 1>>
Before(e, f) == \/ Place(e)[1] < Place(f)[1]
                \/ Place(e)[1] = Place(f)[1] /\ Place(e)[2] < Place(f)[2]
Following(e) == LET after == {f \in Element : Rendered(f) /\ Before(e, f)}
            IN  IF after = {} THEN e
                ELSE CHOOSE f \in after : \A g \in after : g = f \/ Before(f, g)
Previous(e) == LET ahead == {f \in Element : Rendered(f) /\ Before(f, e)}
               IN  IF ahead = {} THEN Field
                   ELSE CHOOSE f \in ahead : \A g \in ahead : g = f \/ Before(g, f)

(* Down leads to the next element that is displayed, and Up to the         *)
(* previous one or, from the first, back to the field: no element is       *)
(* skipped, none that is hidden is entered, and the keys are inverse.      *)
ArrowsFollowThePage ==
  [][OnPage(box.focus) /\ held = "none" =>
       /\ held' = "up"   => box'.focus = Previous(box.focus)
       /\ held' = "down" => box'.focus = Following(box.focus)]_vars
=============================================================================
