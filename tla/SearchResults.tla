---------------------------- MODULE SearchResults ----------------------------
(***************************************************************************)
(* The page of search results of the generated documentation               *)
(* (doc/html/search/search.js:402-791): createResults makes one row for    *)
(* each entry of searchData, SearchResults.Search displays the rows whose  *)
(* identifier begins with the query, and the arrow keys move the focus     *)
(* over what is displayed.  The page lives in the frame MSearchResults of  *)
(* SearchBox, which loads it again for every query.                        *)
(*                                                                         *)
(* Abstracted: the links and texts of the entries, upper and lower case.   *)
(***************************************************************************)
EXTENDS Integers, Sequences, SequencesExt

CONSTANTS
  Texts,       \* what the user may type into the field of SearchBox
  Entries,     \* Entries[p]: searchData of page p, a sequence of entries
  Escape       \* Escape[c]: what convertToId writes for a special character c

(* A page is named by its section and its place in it.  An entry has an    *)
(* identifier and as many children as it has matches; one match alone is   *)
(* the link of the row itself and no child.  doxygen writes the entries in *)
(* the order of their identifiers, so that the entries that begin with the *)
(* same characters are neighbours.                                         *)
ASSUME EntriesAssumption ==
  \A p \in DOMAIN Entries :
    /\ p \in Nat \X Nat /\ Entries[p] \in Seq(Range(Entries[p]))
    /\ \A i \in DOMAIN Entries[p] : LET e == Entries[p][i]
                                   IN  e.id \in Seq(Range(e.id)) /\ e.kids \in Nat \ {1}
    /\ \A i, j, k \in DOMAIN Entries[p] : i < j /\ j < k =>
         CommonPrefixes({Entries[p][i].id, Entries[p][k].id}) \subseteq Prefixes(Entries[p][j].id)

VARIABLES
  doc,         \* the document in the frame: its page and its query
  open,        \* the rows whose SRChildren are displayed
  held,        \* the key that is held down
  repeatOn     \* SearchResults::repeatOn

(* SearchResults::lastKey is the held key whenever a handler reads it: a   *)
(* key that is pressed on the page says so first, and nobody clicks with a *)
(* key held.  Nor is repeatOn read before the next keydown clears it, so   *)
(* it is cleared when the key is released, wherever the focus is then.     *)
page == <<doc, open>>
keys == <<held, repeatOn>>

NoMatches == <<0>>                           \* nomatches.html, without rows
Blank     == [page |-> <<>>, query |-> <<>>] \* no document with searchResults yet

\* What can have the focus on the page: the link of row r, or child c of it.
Item(r)     == <<"item", r>>
Child(r, c) == <<"child", r, c>>
Nowhere     == <<"none">>
OnPage(e)   == e[1] \in {"item", "child"}

-----------------------------------------------------------------------------
TrimLeft(t) == LET words == {i \in DOMAIN t : t[i] # " "}
               IN  IF words = {} THEN <<>> ELSE SubSeq(t, Min(words), Len(t))
TrimRight(t) == LET words == {i \in DOMAIN t : t[i] # " "}
                IN  IF words = {} THEN <<>> ELSE SubSeq(t, 1, Max(words))

ConvertToId(t) == FlattenSeq(
  [i \in DOMAIN t |-> IF t[i] \in DOMAIN Escape THEN Escape[t[i]] ELSE <<t[i]>>])

Query    == {TrimLeft(t) : t \in Texts}

(* True of all sequences, by an induction that is beyond the prover; TLC    *)
(* evaluates it for the texts of a run.                                    *)
ASSUME IdAssumption == \A t \in Query : LET id == ConvertToId(TrimRight(TrimLeft(t)))
                                        IN  id \in Seq(Range(id))

\* A page of rows is loaded with its query, nomatches.html without one.
Document == [page : DOMAIN Entries, query : Query] \cup {[page |-> NoMatches, query |-> <<>>]}

\* Rows are numbered from 0, as in their identifiers Item0, Item1, ...
RowsOf(p) == IF p \in DOMAIN Entries THEN 0 .. Len(Entries[p]) - 1 ELSE {}
Row       == RowsOf(doc.page)
Kids(r)   == IF r \in Row THEN Entries[doc.page][r + 1].kids ELSE 0

ElementsOf(p) == {Item(r) : r \in RowsOf(p)}
                 \cup UNION {{Child(r, c) : c \in 0 .. Entries[p][r + 1].kids - 1} : r \in RowsOf(p)}
Element == UNION {ElementsOf(p) : p \in DOMAIN Entries}

\* The rows that Search displays when a document is loaded.
Matches == [d \in Document \cup {Blank} |->
  {r \in RowsOf(d.page) : IsPrefix(ConvertToId(TrimRight(TrimLeft(d.query))),
                                   Entries[d.page][r + 1].id)}]
Shown == Matches[doc]

Rendered(e) ==
  \/ e[1] = "item"  /\ e[2] \in Shown
  \/ e[1] = "child" /\ e[2] \in Shown \cap open /\ e[3] \in 0 .. Kids(e[2]) - 1

\* The first displayed item at or behind index, the last at or before it.
NavNext(index) == LET rows == {r \in Shown : r >= index}
                  IN  IF rows = {} THEN Nowhere ELSE Item(Min(rows))
NavPrev(index) == LET rows == {r \in Shown : r <= index}
                  IN  IF rows = {} THEN Nowhere ELSE Item(Max(rows))

(* Where the keys lead from row r, or from child c of it.  Up looks for the *)
(* children of the row just before, whatever row NavPrev found.  Nowhere   *)
(* stands for no element.                                                  *)
UpFromItem(r) ==
  LET item == NavPrev(r - 1)
  IN  IF item # Nowhere /\ item[2] \in open /\ Kids(r - 1) > 0
      THEN Child(r - 1, Kids(r - 1) - 1) ELSE item

UpFromChild(r, c) == IF c > 0 THEN Child(r, c - 1) ELSE Item(r)

DownFromItem(r) == IF r \in open THEN Child(r, 0) ELSE NavNext(r + 1)

\* Variant with a mistake: behind the last child the keys come back to its own row.
DownFromChildBack(r, c) == IF c + 1 < Kids(r) THEN Child(r, c + 1) ELSE NavNext(r)

DownFromChild(r, c) == IF c + 1 < Kids(r) THEN Child(r, c + 1) ELSE NavNext(r + 1)

UpFrom(e)   == IF e[1] = "child" THEN UpFromChild(e[2], e[3]) ELSE UpFromItem(e[2])
DownFrom(e) == IF e[1] = "child" THEN DownFromChild(e[2], e[3]) ELSE DownFromItem(e[2])

-----------------------------------------------------------------------------
PageInit == doc = Blank /\ open = {} /\ held = "none" /\ repeatOn = FALSE

\* The document d takes the place of the one in the frame.
Load(d) == doc' = d /\ open' = {}

\* Toggle displays or hides the children of a row that has some.
Toggle(r) == /\ open' = IF r \in open THEN open \ {r} ELSE open \cup {r}
             /\ UNCHANGED doc

(* ProcessKeys: does the handler act upon the event?  A held key sends     *)
(* keydown and keypress, both perhaps repeatedly; the first keypress after *)
(* a keydown belongs to the same stroke and is ignored.                    *)
Acts(event) == event = "keydown" \/ (event = "keypress" /\ repeatOn)

ProcessKeys(event) == repeatOn' = (event = "keypress")

\* Right and Left display and hide the children of a row.
Unfold(key, e) ==
  open' = CASE key = "right" /\ e[1] = "item" /\ Kids(e[2]) > 0 -> open \cup {e[2]}
            [] key = "left" /\ e[1] = "item"                    -> open \ {e[2]}
            [] OTHER                                            -> open
=============================================================================
