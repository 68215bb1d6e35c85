---------------------------- MODULE NavTreeProofs ----------------------------
(***************************************************************************)
(* Theorems about NavTree, for every tree, index and split into scripts,   *)
(* and any number of scripts that are out at once.                         *)
(*                                                                         *)
(* What makes them true is an invariant of the scripts: each of them,      *)
(* whenever it arrives, goes on at a node that is in the tree by then.     *)
(* The functions of navtree.js each keep it, given such a node.  For the   *)
(* selection, a second one: it goes on along the way to the goal, and what *)
(* is selected stays with it, as long as alone holds.                      *)
(***************************************************************************)
EXTENDS NavTree, DataTheorems, SequenceTheorems

Hash == {NoAnchor} \cup UNION {Anchor[p] : p \in Page}

\* What a script may be asked to do when the nodes in S are in the tree.
Callback(S) ==
  [kind : {"expand"}, node : S \cap Lazy]
  \cup [kind : {"show"}, node : S \cap Lazy, index : Nat \ {0}, hash : Hash]
  \cup [kind : {"child"}, node : S, leaf : S \cap Lazy, index : Nat \ {0}, hash : Hash]
  \cup [kind : {"index"}, part : DOMAIN Index,
        url : [page : Page \cup {MainPage}, anchor : Hash]]

TreeType ==
  [arrived : SUBSET Lazy, created : [Parent -> {0, 1}], expanded : SUBSET Parent,
   selected : SUBSET Node, breadcrumbs : Seq(Nat), parts : SUBSET DOMAIN Index,
   scripts : Seq(Callback(Node)), retry : BOOLEAN]

InTree(t) == Items(t) \cup {Root}

TreeInv(t) ==
  /\ t \in TreeType
  /\ t.scripts \in Seq(Callback(InTree(t)))
  /\ \A n \in Parent : t.created[n] = 1 => HasArray(t, n) /\ n \in InTree(t)
  /\ \A n \in t.expanded : t.created[n] = 1
  /\ t.selected \subseteq Items(t)

\* What a function of navtree.js makes of the tree.
Keeps(t, u) == TreeInv(u) /\ InTree(t) \subseteq InTree(u)

-----------------------------------------------------------------------------
LEMMA ItemsAre == ASSUME NEW t PROVE Items(t) \subseteq Node /\ InTree(t) \subseteq Node
  BY NodeAssumption DEF Items, InTree

LEMMA CallbackMore ==
  ASSUME NEW S, NEW T, S \subseteq T
  PROVE  Callback(S) \subseteq Callback(T) /\ Seq(Callback(S)) \subseteq Seq(Callback(T))
<1>1. Callback(S) \subseteq Callback(T)
  BY DEF Callback
<1> QED
  BY <1>1

\* A function that creates nothing keeps the tree.
LEMMA SameNodes ==
  ASSUME NEW t, NEW u, TreeInv(t), u \in TreeType, u.created = t.created,
         t.arrived \subseteq u.arrived, u.expanded \subseteq t.expanded,
         u.selected \subseteq Items(t), u.scripts \in Seq(Callback(InTree(t)))
  PROVE  Keeps(t, u) /\ Items(u) = Items(t)
<1>1. Items(u) = Items(t)
  BY DEF Items
<1>2. \A n \in Parent : u.created[n] = 1 => HasArray(u, n) /\ n \in InTree(u)
  BY <1>1 DEF TreeInv, HasArray, InTree
<1>3. \A n \in u.expanded : u.created[n] = 1
  BY DEF TreeInv
<1> QED
  BY <1>1, <1>2, <1>3 DEF TreeInv, Keeps, InTree

LEMMA KeepsSelf == ASSUME NEW t, TreeInv(t) PROVE Keeps(t, t)
  BY DEF Keeps

LEMMA KeepsThen ==
  ASSUME NEW t, NEW u, NEW w, Keeps(t, u), Keeps(u, w) PROVE Keeps(t, w)
  BY DEF Keeps

LEMMA GetScriptKeeps ==
  ASSUME NEW t, TreeInv(t), NEW c \in Callback(InTree(t))
  PROVE  Keeps(t, GetScript(t, c))
<1> DEFINE q == Append(t.scripts, c)
           u == [t EXCEPT !.scripts = q]
<1>1. q \in Seq(Callback(InTree(t)))
  BY DEF TreeInv
<1>2. q \in Seq(Callback(Node))
  BY <1>1, ItemsAre, CallbackMore
<1>3. GetScript(t, c) = u
  BY DEF GetScript, TreeInv, TreeType
<1> HIDE DEF q
<1>4. u \in TreeType
  BY <1>2 DEF TreeInv, TreeType
<1>5. /\ u.created = t.created /\ u.arrived = t.arrived /\ u.expanded = t.expanded
      /\ u.selected = t.selected /\ u.scripts = q
  BY DEF TreeInv, TreeType
<1> HIDE DEF u
<1>6. u.selected \subseteq Items(t)
  BY <1>5 DEF TreeInv
<1> QED
  BY <1>1, <1>3, <1>4, <1>5, <1>6, SameNodes

(* Nodes with an array are opened, each under a parent that is in the tree *)
(* or opened with it.                                                      *)
LEMMA OpenKeeps ==
  ASSUME NEW t, TreeInv(t), NEW ns \in SUBSET Parent,
         \A n \in ns : HasArray(t, n) /\ (n \in InTree(t) \/ Front(n) \in ns)
  PROVE  /\ Keeps(t, Open(t, ns)) /\ Open(t, ns).arrived = t.arrived
         /\ Open(t, ns).breadcrumbs = t.breadcrumbs
         /\ \A n \in ns : Open(t, ns).created[n] = 1
<1> DEFINE f == [n \in Parent |-> IF n \in ns /\ t.created[n] = 0 THEN 1 ELSE t.created[n]]
           x == t.expanded \cup ns
           u == [t EXCEPT !.created = f, !.expanded = x]
<1>1. Open(t, ns) = u
  BY DEF Open, TreeInv, TreeType
<1>2. f \in [Parent -> {0, 1}] /\ x \in SUBSET Parent
  BY DEF TreeInv, TreeType
<1>3. \A n \in Parent : f[n] = 1 <=> (t.created[n] = 1 \/ n \in ns)
  BY DEF TreeInv, TreeType
<1> HIDE DEF f
<1>4. u \in TreeType
  BY <1>2 DEF TreeInv, TreeType
<1>5. /\ u.created = f /\ u.expanded = x /\ u.arrived = t.arrived
      /\ u.selected = t.selected /\ u.scripts = t.scripts /\ u.breadcrumbs = t.breadcrumbs
  BY DEF TreeInv, TreeType
<1> HIDE DEF u
<1>6. \A n \in Node \ {Root} : Front(n) \in Parent
  BY DEF Parent
<1>7. Items(t) \subseteq Items(u)
  <2> SUFFICES ASSUME NEW n \in Node \ {Root}, t.created[Front(n)] > 0
               PROVE  u.created[Front(n)] > 0
    BY DEF Items
  <2>1. t.created[Front(n)] \in {0, 1} /\ Front(n) \in Parent
    BY <1>6 DEF TreeInv, TreeType
  <2> QED
    BY <2>1, <1>3, <1>5
<1>8. \A n \in Parent : u.created[n] = 1 => HasArray(u, n) /\ n \in InTree(u)
  <2> SUFFICES ASSUME NEW n \in Parent, u.created[n] = 1
               PROVE  HasArray(u, n) /\ n \in InTree(u)
    OBVIOUS
  <2>1. HasArray(t, n) /\ (n \in InTree(t) \/ Front(n) \in ns)
    BY <1>3, <1>5 DEF TreeInv
  <2>2. CASE n \in InTree(t)
    BY <2>1, <2>2, <1>5, <1>7 DEF HasArray, InTree
  <2>3. CASE Front(n) \in ns
    <3>1. u.created[Front(n)] = 1
      BY <2>3, <1>3, <1>5
    <3>2. n \in InTree(u)
      BY <3>1, NodeAssumption DEF InTree, Items
    <3> QED
      BY <2>1, <3>2, <1>5 DEF HasArray
  <2> QED
    BY <2>1, <2>2, <2>3
<1>9. \A n \in u.expanded : u.created[n] = 1
  BY <1>3, <1>5, <1>2 DEF TreeInv
<1>10. u.scripts \in Seq(Callback(InTree(u))) /\ u.selected \subseteq Items(u)
  <2>1. InTree(t) \subseteq InTree(u)
    BY <1>7 DEF InTree
  <2>2. t.scripts \in Seq(Callback(InTree(t))) /\ t.selected \subseteq Items(t)
    BY DEF TreeInv
  <2> QED
    BY <2>1, <2>2, <1>5, <1>7, CallbackMore
<1>11. Keeps(t, u)
  BY <1>4, <1>7, <1>8, <1>9, <1>10 DEF Keeps, TreeInv, InTree
<1>12. \A n \in ns : u.created[n] = 1
  BY <1>3, <1>5
<1> QED
  BY <1>1, <1>5, <1>11, <1>12

LEMMA ExpandNodeKeeps ==
  ASSUME NEW t, TreeInv(t), NEW n \in InTree(t)
  PROVE  Keeps(t, ExpandNode(t, n))
<1>1. CASE n \notin Parent \ t.expanded
  <2>1. ExpandNode(t, n) = t
    BY <1>1, Zenon DEF ExpandNode
  <2> QED
    BY <2>1, KeepsSelf
<1>2. CASE n \in Parent \ t.expanded /\ HasArray(t, n)
  <2>1. ExpandNode(t, n) = Open(t, {n})
    BY <1>2, Zenon DEF ExpandNode
  <2>2. {n} \in SUBSET Parent /\ \A m \in {n} : HasArray(t, m) /\ m \in InTree(t)
    BY <1>2
  <2> QED
    BY <2>1, <2>2, OpenKeeps
<1>3. CASE n \in Parent \ t.expanded /\ ~HasArray(t, n)
  <2> DEFINE c == [kind |-> "expand", node |-> n]
  <2>1. ExpandNode(t, n) = GetScript(t, c)
    BY <1>3, Zenon DEF ExpandNode
  <2>2. n \in Lazy
    BY <1>3 DEF HasArray
  <2>3. c \in Callback(InTree(t))
    BY <2>2 DEF Callback
  <2> QED
    BY <2>1, <2>3, GetScriptKeeps
<1> QED
  BY <1>1, <1>2, <1>3

LEMMA SelectAndHighlightKeeps ==
  ASSUME NEW t, TreeInv(t), NEW h, NEW n \in InTree(t)
  PROVE  Keeps(t, SelectAndHighlight(t, h, n))
<1> DEFINE a == {m \in Items(t) : h # NoAnchor
                   /\ Link[m] = [page |-> location.page, anchor |-> h]}
           s == t.selected \cup (IF a # {} THEN a ELSE {n} \ {Root})
           u == [t EXCEPT !.selected = s, !.retry = TRUE]
<1>1. SelectAndHighlight(t, h, n) = u
  BY DEF SelectAndHighlight, TreeInv, TreeType
<1>2. s \subseteq Items(t) /\ s \subseteq Node
  BY ItemsAre DEF TreeInv, InTree
<1> HIDE DEF s
<1>3. u \in TreeType
  BY <1>2 DEF TreeInv, TreeType
<1>4. /\ u.created = t.created /\ u.arrived = t.arrived /\ u.expanded = t.expanded
      /\ u.selected = s /\ u.scripts = t.scripts
  BY DEF TreeInv, TreeType
<1> HIDE DEF u
<1>5. t.scripts \in Seq(Callback(InTree(t)))
  BY DEF TreeInv
<1> QED
  BY <1>1, <1>2, <1>3, <1>4, <1>5, SameNodes

LEMMA ShowLeafKeeps ==
  ASSUME NEW t, TreeInv(t), NEW n \in Parent, t.created[n] = 1,
         NEW index \in Nat \ {0}, NEW h \in Hash
  PROVE  Keeps(t, ShowLeaf(t, n, index, h))
<1> DEFINE i == IF index <= Len(t.breadcrumbs) THEN t.breadcrumbs[index] ELSE -1
           leaf == Kid(n, i)
           c == [kind |-> "child", node |-> n, leaf |-> leaf, index |-> index, hash |-> h]
           e == IF location.page = MainPage THEN ExpandNode(t, leaf) ELSE t
<1>1. i \in Int
  BY DEF TreeInv, TreeType
<1>2. n \in Seq(Nat) /\ n \in InTree(t)
  BY NodeAssumption DEF TreeInv
<1>3. Front(leaf) = n /\ leaf # Root
  BY <1>1, <1>2 DEF Front, Kid, Root
<1> HIDE DEF i
<1>4. leaf \in Node => leaf \in InTree(t)
  BY <1>3 DEF InTree, Items
<1>5. CASE leaf \notin Node
  <2>1. ShowLeaf(t, n, index, h) = t
    BY <1>5, NodeAssumption, Zenon DEF ShowLeaf, i
  <2> QED
    BY <2>1, KeepsSelf
<1>6. CASE leaf \in Lazy \ t.arrived
  <2>1. leaf \in Node
    BY <1>6, NodeAssumption
  <2>2. ShowLeaf(t, n, index, h) = GetScript(t, c)
    BY <1>6, <2>1, Zenon DEF ShowLeaf, i
  <2> HIDE DEF leaf
  <2>3. c \in Callback(InTree(t))
    BY <1>2, <1>4, <1>6, <2>1 DEF Callback
  <2> QED
    BY <2>2, <2>3, GetScriptKeeps
<1>7. CASE leaf \in Node /\ leaf \notin Lazy \ t.arrived
  <2>1. ShowLeaf(t, n, index, h) = SelectAndHighlight(e, h, leaf)
    BY <1>7, Zenon DEF ShowLeaf, i
  <2> HIDE DEF leaf
  <2>2. Keeps(t, e)
    BY <1>4, <1>7, ExpandNodeKeeps, KeepsSelf
  <2> HIDE DEF e
  <2>3. Keeps(e, SelectAndHighlight(e, h, leaf))
    BY <1>4, <1>7, <2>2, SelectAndHighlightKeeps DEF Keeps
  <2> QED
    BY <2>1, <2>2, <2>3, KeepsThen
<1> QED
  BY <1>5, <1>6, <1>7

LEMMA SameSequence ==
  ASSUME NEW s \in Seq(Nat), NEW r \in Seq(Nat), Len(s) = Len(r),
         \A j \in 1 .. Len(s) : s[j] = r[j]
  PROVE  s = r
  BY SeqEqual

LEMMA ConcatNat ==
  ASSUME NEW s \in Seq(Nat), NEW r \in Seq(Nat)
  PROVE  /\ s \o r \in Seq(Nat) /\ Len(s \o r) = Len(s) + Len(r)
         /\ \A j \in 1 .. Len(s) + Len(r) :
              (s \o r)[j] = IF j <= Len(s) THEN s[j] ELSE r[j - Len(s)]
  BY ConcatProperties, Zenon

LEMMA FrontNat ==
  ASSUME NEW s \in Seq(Nat), Len(s) > 0
  PROVE  /\ Front(s) \in Seq(Nat) /\ Len(Front(s)) = Len(s) - 1
         /\ \A j \in 1 .. Len(s) - 1 : Front(s)[j] = s[j]
<1> DEFINE m == Len(s) - 1
<1>1. m \in Nat /\ m <= Len(s)
  OBVIOUS
<1>2. \A j \in 1 .. m : s[j] \in Nat
  BY <1>1
<1> HIDE DEF m
<1>3. /\ SubSeq(s, 1, m) \in Seq(Nat) /\ Len(SubSeq(s, 1, m)) = m
      /\ \A j \in 1 .. m : SubSeq(s, 1, m)[j] = s[j]
  BY <1>1, <1>2, SubSeqProperties
<1>4. Front(s) = SubSeq(s, 1, m)
  BY DEF Front, m
<1> QED
  BY <1>3, <1>4, Zenon DEF m

\* The k-th node on the way from n along the breadcrumbs is a child of the one before.
LEMMA WayGoesDown ==
  ASSUME NEW n \in Seq(Nat), NEW b \in Seq(Nat), NEW i \in Nat \ {0}, NEW k \in Nat \ {0},
         i + k - 1 <= Len(b)
  PROVE  /\ Front(n \o SubSeq(b, i, i + k - 1)) = n \o SubSeq(b, i, i + (k - 1) - 1)
         /\ n \o SubSeq(b, i, i + k - 1) # Root
<1> DEFINE s == SubSeq(b, i, i + k - 1)
           r == SubSeq(b, i, i + (k - 1) - 1)
           w == n \o s
           v == n \o r
<1>1. /\ s \in Seq(Nat) /\ Len(s) = k /\ \A j \in 1 .. k : s[j] = b[i + j - 1]
      /\ r \in Seq(Nat) /\ Len(r) = k - 1 /\ \A j \in 1 .. k - 1 : r[j] = b[i + j - 1]
  OBVIOUS
<1> HIDE DEF s, r
<1>2. Len(n) \in Nat
  OBVIOUS
<1> DEFINE l == Len(n)
<1> HIDE DEF l
<1>3. /\ w \in Seq(Nat) /\ Len(w) = l + k
      /\ \A j \in 1 .. l + k : w[j] = IF j <= l THEN n[j] ELSE s[j - l]
  <2>1. /\ w \in Seq(Nat) /\ Len(w) = Len(n) + Len(s)
        /\ \A j \in 1 .. Len(n) + Len(s) :
             w[j] = IF j <= Len(n) THEN n[j] ELSE s[j - Len(n)]
    BY <1>1, ConcatNat, Zenon
  <2> HIDE DEF w
  <2> QED
    BY <1>1, <2>1, Zenon DEF l
<1>4. /\ v \in Seq(Nat) /\ Len(v) = l + (k - 1)
      /\ \A j \in 1 .. l + (k - 1) : v[j] = IF j <= l THEN n[j] ELSE r[j - l]
  <2>1. /\ v \in Seq(Nat) /\ Len(v) = Len(n) + Len(r)
        /\ \A j \in 1 .. Len(n) + Len(r) :
             v[j] = IF j <= Len(n) THEN n[j] ELSE r[j - Len(n)]
    BY <1>1, ConcatNat, Zenon
  <2> HIDE DEF v
  <2> QED
    BY <1>1, <2>1, Zenon DEF l
<1> HIDE DEF w, v
<1>5. \A j \in 1 .. l + (k - 1) : w[j] = v[j]
  <2> SUFFICES ASSUME NEW j \in 1 .. l + (k - 1) PROVE w[j] = v[j]
    OBVIOUS
  <2>1. l \in Nat /\ j \in 1 .. l + k
    BY <1>2 DEF l
  <2>2. CASE j <= l
    BY <1>3, <1>4, <2>1, <2>2
  <2>3. CASE ~ (j <= l)
    <3> DEFINE m == j - l
    <3>1. m \in 1 .. k - 1 /\ m \in 1 .. k
      BY <2>1, <2>3
    <3>2. w[j] = s[m] /\ v[j] = r[m]
      BY <1>3, <1>4, <2>1, <2>3
    <3> HIDE DEF m
    <3> QED
      BY <1>1, <3>1, <3>2
  <2> QED
    BY <2>2, <2>3
<1>6. l + (k - 1) \in Nat /\ (l + k) - 1 = l + (k - 1) /\ l + k > 0
  BY <1>2 DEF l
<1>7. /\ Front(w) \in Seq(Nat) /\ Len(Front(w)) = l + (k - 1)
      /\ \A j \in 1 .. l + (k - 1) : Front(w)[j] = w[j]
  BY <1>3, <1>6, FrontNat, ZenonT(40)
<1>8. Front(w) = v
  BY <1>4, <1>5, <1>7, SameSequence
<1>9. w # Root
  BY <1>3, <1>6 DEF Root
<1> QED
  BY <1>8, <1>9 DEF s, r, w, v

(* showNode makes u of the tree t: with k nodes opened behind n, and s the *)
(* tree then, it is at the last node but one of the way, at a script, or   *)
(* where there is nothing to open.                                         *)
Shows(t, n, index, h, u, k, s) ==
  LET b == t.breadcrumbs
      w == n \o SubSeq(b, index, index + k - 1)
  IN  /\ k \in Nat /\ (k > 0 => index + k <= Len(b))
      /\ Keeps(t, s) /\ \E ns : s = Open(t, ns)
      /\ \/ /\ w \in Parent /\ s.created[w] = 1 /\ (index <= Len(b) => index + k = Len(b))
            /\ u = ShowLeaf(s, w, index + k, h)
         \/ /\ w \in Lazy \cap InTree(s)
            /\ u = GetScript(s, [kind |-> "show", node |-> w, index |-> index + k, hash |-> h])
         \/ w \notin Parent /\ u = SelectAndHighlight(s, h, Root)

(* What showNode opens before it stops is on one way down, so that each    *)
(* node is opened after its parent.                                        *)
LEMMA ShowNodeIs ==
  ASSUME NEW t, TreeInv(t), NEW n \in InTree(t), NEW index \in Nat \ {0}, NEW h \in Hash
  PROVE  \E k, s : Shows(t, n, index, h, ShowNode(t, n, index, h), k, s)
<1> DEFINE steps == Max({0, Len(t.breadcrumbs) - index})
           way   == [k \in 0 .. steps |-> n \o SubSeq(t.breadcrumbs, index, index + k - 1)]
           stops == {k \in 0 .. steps : ~HasArray(t, way[k])}
           stop  == IF stops = {} THEN steps + 1 ELSE Min(stops)
           ns    == {way[k] : k \in 0 .. stop - 1}
           shown == Open(t, ns)
           c == [kind |-> "show", node |-> way[stop], index |-> index + stop, hash |-> h]
<1>1. t.breadcrumbs \in Seq(Nat) /\ n \in Node /\ n \in Seq(Nat)
  BY ItemsAre, NodeAssumption DEF TreeInv, TreeType
<1>2. /\ steps \in Nat /\ (steps > 0 => index + steps <= Len(t.breadcrumbs))
      /\ index <= Len(t.breadcrumbs) => index + steps = Len(t.breadcrumbs)
  <2>1. Len(t.breadcrumbs) - index \in Int
    BY <1>1
  <2>2. steps = IF Len(t.breadcrumbs) - index > 0 THEN Len(t.breadcrumbs) - index ELSE 0
    BY <2>1, MaxWithZero
  <2> HIDE DEF steps
  <2> QED
    BY <2>1, <2>2
<1> HIDE DEF steps
<1>0. \A k \in 0 .. steps : way[k] = n \o SubSeq(t.breadcrumbs, index, index + k - 1)
  OBVIOUS
<1>3. way[0] = n
  BY <1>1, <1>2
<1>4. \A k \in 1 .. steps : Front(way[k]) = way[k - 1] /\ way[k] # Root
  <2> SUFFICES ASSUME NEW k \in 1 .. steps
               PROVE  Front(way[k]) = way[k - 1] /\ way[k] # Root
    OBVIOUS
  <2>1. k \in Nat \ {0} /\ index + k - 1 <= Len(t.breadcrumbs)
    BY <1>1, <1>2
  <2>0. k \in 0 .. steps /\ k - 1 \in 0 .. steps
    BY <1>2
  <2>2. /\ way[k] = n \o SubSeq(t.breadcrumbs, index, index + k - 1)
        /\ way[k - 1] = n \o SubSeq(t.breadcrumbs, index, index + (k - 1) - 1)
    <3> HIDE DEF way
    <3> QED
      BY <1>0, <2>0, Zenon
  <2>3. /\ Front(n \o SubSeq(t.breadcrumbs, index, index + k - 1))
              = n \o SubSeq(t.breadcrumbs, index, index + (k - 1) - 1)
        /\ n \o SubSeq(t.breadcrumbs, index, index + k - 1) # Root
    BY <1>1, <2>1, WayGoesDown, ZenonT(40)
  <2> HIDE DEF way
  <2> QED
    BY <2>2, <2>3, Zenon
<1> HIDE DEF way
<1>5. /\ stop \in 0 .. steps + 1 /\ \A k \in 0 .. stop - 1 : k \in 0 .. steps /\ HasArray(t, way[k])
      /\ stops # {} => stop \in stops /\ stop \in 0 .. steps
      /\ stops = {} => stop = steps + 1
  <2>1. CASE stops = {}
    BY <1>2, <2>1
  <2>2. CASE stops # {}
    <3>1. stops \in SUBSET Nat
      BY <1>2
    <3>2. stop \in stops /\ \A k \in stops : stop <= k
      BY <2>2, <3>1, MinIsLeast
    <3> HIDE DEF stop
    <3> QED
      BY <1>2, <2>2, <3>2
  <2> QED
    BY <2>1, <2>2
<1> HIDE DEF stop
<1>6. ns \in SUBSET Parent
  BY <1>5 DEF HasArray
<1>7. \A m \in ns : HasArray(t, m) /\ (m \in InTree(t) \/ Front(m) \in ns)
  <2> SUFFICES ASSUME NEW k \in 0 .. stop - 1
               PROVE  /\ HasArray(t, way[k])
                      /\ way[k] \in InTree(t) \/ Front(way[k]) \in ns
    OBVIOUS
  <2>1. CASE k = 0
    BY <1>3, <1>5, <2>1
  <2>2. CASE k # 0
    <3>1. k - 1 \in 0 .. stop - 1 /\ k \in 1 .. steps
      BY <1>2, <1>5, <2>2
    <3> QED
      BY <1>4, <1>5, <3>1
  <2> QED
    BY <2>1, <2>2
<1>8. Keeps(t, shown) /\ \A m \in ns : shown.created[m] = 1
  BY <1>6, <1>7, OpenKeeps
<1>9. TreeInv(shown) /\ InTree(t) \subseteq InTree(shown)
  BY <1>8 DEF Keeps
<1> DEFINE u == ShowNode(t, n, index, h)
<1>s. \E m : shown = Open(t, m)
  OBVIOUS
<1> HIDE DEF shown
<1>10. CASE stops = {}
  <2>1. u = ShowLeaf(shown, way[steps], index + steps, h)
    BY <1>10, Zenon DEF ShowNode, shown, stop, way, steps
  <2>2. way[steps] \in ns /\ steps \in 0 .. steps
    BY <1>2, <1>5, <1>10
  <2>3. way[steps] \in Parent /\ shown.created[way[steps]] = 1
    BY <1>6, <1>8, <2>2
  <2>4. way[steps] = n \o SubSeq(t.breadcrumbs, index, index + steps - 1)
    BY <1>0, <2>2
  <2> HIDE DEF u
  <2>5. Shows(t, n, index, h, u, steps, shown)
    BY <1>2, <1>8, <1>s, <2>1, <2>3, <2>4, Zenon DEF Shows
  <2> QED
    BY <2>5 DEF u
<1>11. CASE stops # {} /\ way[stop] \in Lazy
  <2>1. u = GetScript(shown, c)
    BY <1>11, Zenon DEF ShowNode, shown, stop, way, steps
  <2>2. way[stop] \in InTree(shown)
    <3>1. CASE stop = 0
      BY <1>3, <1>9, <3>1
    <3>2. CASE stop # 0
      <4>1. stop \in 1 .. steps /\ stop - 1 \in 0 .. stop - 1
        BY <1>2, <1>5, <1>11, <3>2
      <4>2. way[stop - 1] \in ns /\ Front(way[stop]) = way[stop - 1] /\ way[stop] # Root
        BY <1>4, <4>1
      <4>3. shown.created[Front(way[stop])] = 1
        BY <1>8, <4>2
      <4> QED
        BY <1>11, <4>2, <4>3, NodeAssumption DEF InTree, Items
    <3> QED
      BY <3>1, <3>2
  <2>3. stop \in 0 .. steps
    BY <1>5, <1>11
  <2>4. way[stop] = n \o SubSeq(t.breadcrumbs, index, index + stop - 1)
    BY <1>0, <2>3
  <2>5. stop \in Nat /\ (stop > 0 => index + stop <= Len(t.breadcrumbs))
    BY <1>1, <1>2, <2>3
  <2> HIDE DEF u
  <2>6. Shows(t, n, index, h, u, stop, shown)
    BY <1>8, <1>s, <1>11, <2>1, <2>2, <2>4, <2>5, Zenon DEF Shows
  <2> QED
    BY <2>6 DEF u
<1>12. CASE stops # {} /\ way[stop] \notin Lazy
  <2>1. u = SelectAndHighlight(shown, h, Root)
    BY <1>12, Zenon DEF ShowNode, shown, stop, way, steps
  <2>2. stop \in 0 .. steps /\ ~HasArray(t, way[stop])
    BY <1>5, <1>12
  <2>3. way[stop] \notin Parent
    BY <1>12, <2>2 DEF HasArray
  <2>4. way[stop] = n \o SubSeq(t.breadcrumbs, index, index + stop - 1)
    BY <1>0, <2>2
  <2>5. stop \in Nat /\ (stop > 0 => index + stop <= Len(t.breadcrumbs))
    BY <1>1, <1>2, <2>2
  <2> HIDE DEF u
  <2>6. Shows(t, n, index, h, u, stop, shown)
    BY <1>8, <1>s, <2>1, <2>3, <2>4, <2>5, Zenon DEF Shows
  <2> QED
    BY <2>6 DEF u
<1> QED
  BY <1>10, <1>11, <1>12

\* showNode, from a node in the tree, keeps it.
LEMMA ShowNodeKeeps ==
  ASSUME NEW t, TreeInv(t), NEW n \in InTree(t), NEW index \in Nat \ {0}, NEW h \in Hash
  PROVE  Keeps(t, ShowNode(t, n, index, h))
<1> DEFINE u == ShowNode(t, n, index, h)
<1>1. PICK k, s : Shows(t, n, index, h, u, k, s)
  BY ShowNodeIs
<1> DEFINE w == n \o SubSeq(t.breadcrumbs, index, index + k - 1)
           c == [kind |-> "show", node |-> w, index |-> index + k, hash |-> h]
<1> HIDE DEF u
<1>2. /\ k \in Nat /\ Keeps(t, s)
      /\ \/ w \in Parent /\ s.created[w] = 1 /\ u = ShowLeaf(s, w, index + k, h)
         \/ w \in Lazy \cap InTree(s) /\ u = GetScript(s, c)
         \/ u = SelectAndHighlight(s, h, Root)
  BY <1>1, Zenon DEF Shows
<1> HIDE DEF w
<1>3. index + k \in Nat \ {0}
  BY <1>2
<1>4. TreeInv(s) /\ Root \in InTree(s)
  BY <1>2 DEF Keeps, InTree
<1>5. w \in Lazy \cap InTree(s) => c \in Callback(InTree(s))
  BY <1>3 DEF Callback
<1> HIDE DEF c
<1>6. Keeps(s, u)
  <2>1. CASE w \in Parent /\ s.created[w] = 1 /\ u = ShowLeaf(s, w, index + k, h)
    BY <1>3, <1>4, <2>1, ShowLeafKeeps
  <2>2. CASE w \in Lazy \cap InTree(s) /\ u = GetScript(s, c)
    BY <1>4, <1>5, <2>2, GetScriptKeeps
  <2>3. CASE u = SelectAndHighlight(s, h, Root)
    BY <1>4, <2>3, SelectAndHighlightKeeps
  <2> QED
    BY <1>2, <2>1, <2>2, <2>3
<1> QED
  BY <1>2, <1>6, KeepsThen DEF u

LEMMA UrlIs == \A u \in Url : u.page \in Page /\ u.anchor \in Hash
                              /\ u = [page |-> u.page, anchor |-> u.anchor]
  BY DEF Url, Hash

\* The way to a URL goes through the main page.
LEMMA WayIs ==
  ASSUME NEW i \in DOMAIN Index, NEW u
  PROVE  Way(i, u) \in Seq(Nat) /\ Len(Way(i, u)) > 0
<1> DEFINE v == [u EXCEPT !.anchor = NoAnchor]
           w == IF u \in DOMAIN Index[i] THEN Index[i][u]
                ELSE IF v \in DOMAIN Index[i] THEN Index[i][v] ELSE <<>>
<1>1. w \in Seq(Nat)
  BY IndexAssumption
<1>2. Way(i, u) = <<0>> \o w
  BY DEF Way
<1> HIDE DEF w
<1>3. <<0>> \in Seq(Nat) /\ Len(<<0>>) = 1 /\ Len(w) \in Nat
  BY <1>1
<1> QED
  BY <1>1, <1>2, <1>3, ConcatNat

LEMMA GotoNodeKeeps ==
  ASSUME NEW t, TreeInv(t), NEW i \in DOMAIN Index, NEW u, u.anchor \in Hash
  PROVE  Keeps(t, GotoNode(t, i, u))
<1> DEFINE q == Way(i, u)
           b == [t EXCEPT !.breadcrumbs = q]
<1>1. q \in Seq(Nat)
  BY WayIs
<1> HIDE DEF q
<1>2. b \in TreeType
  BY <1>1 DEF TreeInv, TreeType
<1>3. /\ b.created = t.created /\ b.arrived = t.arrived /\ b.expanded = t.expanded
      /\ b.selected = t.selected /\ b.scripts = t.scripts
  BY DEF TreeInv, TreeType
<1>4. GotoNode(t, i, u) = ShowNode(b, Root, 1, u.anchor)
  BY Zenon DEF GotoNode, q
<1> HIDE DEF b
<1>5. Keeps(t, b)
  BY <1>2, <1>3, SameNodes DEF TreeInv
<1>6. TreeInv(b) /\ Root \in InTree(b)
  BY <1>5 DEF Keeps, InTree
<1>7. Keeps(b, ShowNode(b, Root, 1, u.anchor))
  BY <1>6, ShowNodeKeeps
<1> QED
  BY <1>4, <1>5, <1>7, KeepsThen

\* What navTo looks for is in an index that exists.
LEMMA ResolvedIs ==
  ASSUME navpath \in Url \cup {NoUrl}, NEW u \in Url
  PROVE  /\ PartOf(Wanted(u)) \in DOMAIN Index
         /\ Resolved(Wanted(u)) \in [page : Page \cup {MainPage}, anchor : Hash]
<1> DEFINE w == Wanted(u)
<1>1. w \in Url
  BY DEF Wanted
<1> HIDE DEF w
<1>2. PartOf(w) \in DOMAIN Index
  BY <1>1, PartAssumption DEF PartOf
<1>3. Resolved(w) \in [page : Page \cup {MainPage}, anchor : Hash]
  BY <1>1, UrlIs DEF Resolved
<1> QED
  BY <1>2, <1>3 DEF w

LEMMA NavToKeeps ==
  ASSUME navpath \in Url \cup {NoUrl}, NEW t, TreeInv(t), NEW u \in Url
  PROVE  Keeps(t, NavTo(t, u))
<1> DEFINE p == PartOf(Wanted(u))
           r == Resolved(Wanted(u))
           c == [kind |-> "index", part |-> p, url |-> r]
<1>1. p \in DOMAIN Index /\ r \in [page : Page \cup {MainPage}, anchor : Hash]
  BY ResolvedIs
<1>2. NavTo(t, u) = IF p \in t.parts THEN GotoNode(t, p, r) ELSE GetScript(t, c)
  BY DEF NavTo
<1> HIDE DEF p, r
<1>3. CASE p \in t.parts
  BY <1>1, <1>2, <1>3, GotoNodeKeeps
<1>4. CASE p \notin t.parts
  <2>1. c \in Callback(InTree(t))
    BY <1>1 DEF Callback
  <2> QED
    BY <1>2, <1>4, <2>1, GetScriptKeeps
<1> QED
  BY <1>3, <1>4

-----------------------------------------------------------------------------
(* The inductive invariant.                                                *)
Inv == /\ TreeInv(tree)
       /\ location \in Url /\ loaded \in BOOLEAN
       /\ navpath \in Url \cup {NoUrl} /\ sync \in BOOLEAN
       /\ sync <=> navpath = NoUrl
       /\ goal \in Goals /\ alone \in BOOLEAN

LEMMA TowardKeeps ==
  ASSUME NEW g \in Goals, NEW t, Toward(g, t)
  PROVE  goal' \in Goals /\ alone' \in BOOLEAN
  BY DEF Toward

LEMMA GoalIs ==
  ASSUME navpath \in Url \cup {NoUrl}, NEW u \in Url
  PROVE  Goal(u) \in Goals /\ Len(Goal(u).way) > 0
<1>1. Wanted(u) \in Url
  BY DEF Wanted
<1> QED
  BY <1>1, ResolvedIs, WayIs DEF Goal, Goals

LEMMA NavigateKeeps ==
  ASSUME navpath \in Url \cup {NoUrl}, NEW t, TreeInv(t), NEW u \in Url, Navigate(t, u)
  PROVE  TreeInv(tree') /\ goal' \in Goals /\ alone' \in BOOLEAN
<1>1. tree' = NavTo(t, u) /\ Toward(Goal(u), t)
  BY DEF Navigate
<1>2. TreeInv(NavTo(t, u))
  BY NavToKeeps DEF Keeps
<1>3. Goal(u) \in Goals
  BY GoalIs
<1> QED
  BY <1>1, <1>2, <1>3, TowardKeeps

LEMMA NewTreeIs == TreeInv(NewTree)
<1>1. NewTree \in TreeType
  BY DEF NewTree, TreeType
<1> QED
  BY <1>1 DEF NewTree, TreeInv

\* What empties or sets the selection, or says that the root is to be shown.
LEMMA SelectedKeeps ==
  ASSUME NEW t, TreeInv(t), NEW s \in SUBSET Items(t)
  PROVE  TreeInv([t EXCEPT !.selected = s])
<1> DEFINE u == [t EXCEPT !.selected = s]
<1>1. u \in TreeType
  BY ItemsAre DEF TreeInv, TreeType
<1>2. /\ u.created = t.created /\ u.arrived = t.arrived /\ u.expanded = t.expanded
      /\ u.selected = s /\ u.scripts = t.scripts
  BY DEF TreeInv, TreeType
<1> HIDE DEF u
<1>3. TreeInv(u)
  BY <1>1, <1>2, SameNodes DEF TreeInv, Keeps
<1> QED
  BY <1>3 DEF u

LEMMA RetryKeeps ==
  ASSUME NEW t, TreeInv(t), NEW r \in BOOLEAN
  PROVE  TreeInv([t EXCEPT !.retry = r])
<1> DEFINE u == [t EXCEPT !.retry = r]
<1>1. u \in TreeType
  BY DEF TreeInv, TreeType
<1>2. /\ u.created = t.created /\ u.arrived = t.arrived /\ u.expanded = t.expanded
      /\ u.selected = t.selected /\ u.scripts = t.scripts
  BY DEF TreeInv, TreeType
<1> HIDE DEF u
<1>3. TreeInv(u)
  BY <1>1, <1>2, SameNodes DEF TreeInv, Keeps
<1> QED
  BY <1>3 DEF u

LEMMA ClearedKeeps == ASSUME NEW t, TreeInv(t) PROVE TreeInv(Cleared(t))
  BY SelectedKeeps DEF Cleared

LEMMA StartIs == [way |-> Root, url |-> NoUrl] \in Goals
<1>1. Root \in Seq(Nat)
  BY NodeAssumption
<1> QED
  BY <1>1 DEF Goals

LEMMA InitInv == Init => Inv
  BY NewTreeIs, StartIs DEF Init, Inv

LEMMA OpenPageInv == ASSUME Inv, NEW u \in Url, OpenPage(u) PROVE Inv'
<1>1. navpath' \in Url \cup {NoUrl}
  BY DEF OpenPage, StoreLink, Inv
<1>2. /\ location' = u /\ tree' = NewTree /\ loaded' = FALSE /\ sync' = (navpath' = NoUrl)
      /\ goal' = [way |-> Root, url |-> NoUrl] /\ alone' = TRUE
  BY DEF OpenPage, Document
<1> QED
  BY <1>1, <1>2, NewTreeIs, StartIs DEF Inv

LEMMA WindowLoadInv == ASSUME Inv, WindowLoad PROVE Inv'
<1> DEFINE t == [tree EXCEPT !.retry = TRUE]
<1>1. /\ tree' = NavTo(t, location) /\ goal' = Goal(location) /\ alone' \in BOOLEAN
      /\ loaded' = TRUE /\ UNCHANGED <<location, navpath, sync>>
  BY DEF WindowLoad
<1>2. TreeInv(t)
  BY RetryKeeps DEF Inv
<1> HIDE DEF t
<1>3. TreeInv(tree') /\ goal' \in Goals
  BY <1>1, <1>2, NavToKeeps, GoalIs DEF Inv, Keeps
<1> QED
  BY <1>1, <1>3 DEF Inv

LEMMA HashChangeInv ==
  ASSUME Inv, NEW a \in Anchor[location.page] \cup {NoAnchor}, HashChange(a)
  PROVE  Inv'
<1> DEFINE u == [location EXCEPT !.anchor = a]
           t == IF \E m \in tree.selected : Link[m] = u THEN tree ELSE Cleared(tree)
<1>1. u \in Url
  BY DEF Inv, Url
<1>2. location' = u /\ UNCHANGED <<loaded, navpath, sync>>
  BY DEF HashChange
<1>3. \/ Navigate(Cleared(tree), u) \/ UNCHANGED <<tree, goal, alone>>
      \/ Navigate(t, u)
  BY Zenon DEF HashChange
<1>4. TreeInv(Cleared(tree)) /\ TreeInv(t)
  BY ClearedKeeps DEF Inv
<1> HIDE DEF u, t
<1>5. TreeInv(tree') /\ goal' \in Goals /\ alone' \in BOOLEAN
  BY <1>1, <1>3, <1>4, NavigateKeeps DEF Inv
<1> QED
  BY <1>1, <1>2, <1>5 DEF Inv

LEMMA ClickAnchorInv == ASSUME Inv, NEW n \in Node, ClickAnchor(n) PROVE Inv'
<1>1. Link[n] \in Url /\ n \in Items(tree) /\ TreeInv(tree)
  BY UrlIs, LinkAssumption DEF Inv, ClickAnchor
<1>2. Link[n] # NoUrl
  BY <1>1, UrlIs, LinkAssumption
<1>3. /\ navpath' \in Url \cup {NoUrl} /\ (sync' <=> navpath' = NoUrl)
      /\ UNCHANGED <<location, loaded, sync>>
  BY <1>1, <1>2 DEF Inv, ClickAnchor, StoreLink
<1>4. TreeInv(tree')
  BY <1>1, SelectedKeeps DEF ClickAnchor
<1>5. goal' \in Goals /\ alone' \in BOOLEAN
  <2>1. [way |-> n, url |-> Link[n]] \in Goals
    BY <1>1, NodeAssumption DEF Goals
  <2> QED
    BY <2>1, TowardKeeps DEF ClickAnchor
<1> QED
  BY <1>3, <1>4, <1>5 DEF Inv

LEMMA ToggleInv == ASSUME Inv, NEW n \in Node, Toggle(n) PROVE Inv'
<1> DEFINE x == tree.expanded \ {n}
           u == [tree EXCEPT !.expanded = x]
<1>1. n \in InTree(tree) /\ TreeInv(tree)
  BY DEF Toggle, InTree, Inv
<1>2. TreeInv(u)
  <2>1. u \in TreeType
    BY <1>1 DEF TreeInv, TreeType
  <2>2. /\ u.created = tree.created /\ u.arrived = tree.arrived /\ u.expanded = x
        /\ u.selected = tree.selected /\ u.scripts = tree.scripts
    BY <1>1 DEF TreeInv, TreeType
  <2> HIDE DEF u
  <2> QED
    BY <1>1, <2>1, <2>2, SameNodes DEF TreeInv, Keeps
<1>3. TreeInv(ExpandNode(tree, n))
  BY <1>1, ExpandNodeKeeps DEF Keeps
<1>4. tree' = u \/ tree' = ExpandNode(tree, n)
  BY <1>1 DEF Toggle, TreeInv, TreeType
<1> HIDE DEF u
<1> QED
  BY <1>2, <1>3, <1>4 DEF Toggle, Inv

LEMMA ToggleSyncButtonInv == ASSUME Inv, ToggleSyncButton PROVE Inv'
<1>1. NoUrl \notin Url
  BY UrlIs, LinkAssumption
<1> QED
  BY <1>1 DEF Inv, ToggleSyncButton

LEMMA RetryInv == ASSUME Inv, Retry PROVE Inv'
  BY RetryKeeps DEF Inv, Retry

(* A script that arrives brings its data and goes on; wherever it goes on, *)
(* that node is still in the tree.                                         *)
Removed(i) == [tree EXCEPT !.scripts = RemoveAt(tree.scripts, i)]
Listed(t, p) == [t EXCEPT !.parts = t.parts \cup {p}]

LEMMA RemovedKeeps ==
  ASSUME TreeInv(tree), NEW i \in DOMAIN tree.scripts
  PROVE  /\ tree.scripts[i] \in Callback(InTree(Removed(i))) /\ Keeps(tree, Removed(i))
         /\ Removed(i).scripts = RemoveAt(tree.scripts, i)
         /\ Removed(i).breadcrumbs = tree.breadcrumbs /\ Removed(i).selected = tree.selected
<1> DEFINE c == tree.scripts[i]
           q == RemoveAt(tree.scripts, i)
           t == [tree EXCEPT !.scripts = q]
<1>1. c \in Callback(InTree(tree)) /\ q \in Seq(Callback(InTree(tree)))
  BY RemoveIs DEF TreeInv
<1>2. q \in Seq(Callback(Node))
  BY <1>1, ItemsAre, CallbackMore
<1>3. t = Removed(i)
  BY DEF Removed
<1> HIDE DEF q, c
<1>4. t \in TreeType
  BY <1>1, <1>2 DEF TreeInv, TreeType
<1>5. /\ t.created = tree.created /\ t.arrived = tree.arrived /\ t.expanded = tree.expanded
      /\ t.selected = tree.selected /\ t.scripts = q /\ t.breadcrumbs = tree.breadcrumbs
  BY DEF TreeInv, TreeType
<1> HIDE DEF t
<1>6. Keeps(tree, t)
  BY <1>1, <1>4, <1>5, SameNodes DEF TreeInv
<1>7. c \in Callback(InTree(t))
  BY <1>1, <1>6, CallbackMore DEF Keeps
<1> QED
  BY <1>3, <1>5, <1>6, <1>7 DEF c, q

LEMMA ArriveKeeps ==
  ASSUME NEW t, TreeInv(t), NEW n \in Lazy, NEW m, NEW b \in {Arrive(t, n), ArriveBelow(t, n, m)}
  PROVE  /\ Keeps(t, b) /\ b.scripts = t.scripts /\ b.breadcrumbs = t.breadcrumbs
         /\ b.selected = t.selected
<1> DEFINE x == t.arrived \cup {n}
           y == t.expanded \ {m}
           a == [t EXCEPT !.arrived = x]
           d == [a EXCEPT !.expanded = y]
<1>1. x \in SUBSET Lazy /\ y \in SUBSET Parent
  BY DEF TreeInv, TreeType
<1> HIDE DEF x, y
<1>2. /\ a \in TreeType /\ a.created = t.created /\ a.arrived = x /\ a.breadcrumbs = t.breadcrumbs
      /\ a.expanded = t.expanded /\ a.selected = t.selected /\ a.scripts = t.scripts
  BY <1>1 DEF TreeInv, TreeType
<1>3. Arrive(t, n) = a
  BY DEF Arrive, x
<1> HIDE DEF a
<1>4. /\ d \in TreeType /\ d.created = t.created /\ d.arrived = x /\ d.breadcrumbs = t.breadcrumbs
      /\ d.expanded = y /\ d.selected = t.selected /\ d.scripts = t.scripts
  BY <1>1, <1>2 DEF TreeType
<1>5. ArriveBelow(t, n, m) = d
  BY <1>2, <1>3 DEF ArriveBelow, y
<1> HIDE DEF d
<1>6. t.arrived \subseteq x /\ y \subseteq t.expanded
  BY DEF x, y
<1>7. Keeps(t, a) /\ Keeps(t, d)
  BY <1>2, <1>4, <1>6, SameNodes DEF TreeInv
<1> QED
  BY <1>2, <1>3, <1>4, <1>5, <1>7

LEMMA ListedKeeps ==
  ASSUME NEW t, TreeInv(t), NEW p \in DOMAIN Index
  PROVE  /\ Keeps(t, Listed(t, p)) /\ Listed(t, p).scripts = t.scripts
         /\ Listed(t, p).breadcrumbs = t.breadcrumbs /\ Listed(t, p).selected = t.selected
<1> DEFINE x == t.parts \cup {p}
           b == [t EXCEPT !.parts = x]
<1>1. Listed(t, p) = b
  BY DEF Listed
<1>2. b \in TreeType
  BY DEF TreeInv, TreeType
<1>3. /\ b.created = t.created /\ b.arrived = t.arrived /\ b.expanded = t.expanded
      /\ b.selected = t.selected /\ b.scripts = t.scripts /\ b.breadcrumbs = t.breadcrumbs
  BY DEF TreeInv, TreeType
<1> HIDE DEF b
<1>4. Keeps(t, b)
  BY <1>2, <1>3, SameNodes DEF TreeInv
<1> QED
  BY <1>1, <1>3, <1>4

\* What the tree is after the script i has arrived, and what is known of its callback.
ArrivesTo(i, c) ==
  \/ /\ c.kind = "expand" /\ c.node \in InTree(Removed(i)) \cap Lazy
     /\ tree' = ExpandNode(Arrive(Removed(i), c.node), c.node)
  \/ /\ c.kind = "show" /\ c.node \in InTree(Removed(i)) \cap Lazy
     /\ c.index \in Nat \ {0} /\ c.hash \in Hash
     /\ tree' = ShowNode(Arrive(Removed(i), c.node), c.node, c.index, c.hash)
  \/ /\ c.kind = "child" /\ c.node \in InTree(Removed(i)) /\ c.leaf \in Lazy
     /\ c.index \in Nat \ {0} /\ c.hash \in Hash
     /\ tree' = ShowNode(ArriveBelow(Removed(i), c.leaf, c.node), c.node, c.index, c.hash)
  \/ /\ c.kind = "index" /\ c.part \in DOMAIN Index
     /\ c.url \in [page : Page \cup {MainPage}, anchor : Hash]
     /\ tree' = GotoNode(Listed(Removed(i), c.part), c.part, c.url)

LEMMA ScriptArrivesIs ==
  ASSUME TreeInv(tree), NEW i \in DOMAIN tree.scripts, ScriptArrives(i)
  PROVE  /\ ArrivesTo(i, tree.scripts[i])
         /\ UNCHANGED <<location, loaded, navpath, sync, goal, alone>>
<1> DEFINE c == tree.scripts[i]
           t == Removed(i)
<1>1. c \in Callback(InTree(t)) /\ TreeInv(t)
  BY RemovedKeeps DEF Keeps
<1>2. t = [tree EXCEPT !.scripts = RemoveAt(@, i)]
  BY DEF Removed, TreeInv, TreeType
<1>3. /\ tree' = CASE c.kind = "expand" -> ExpandArrives(t, c)
                   [] c.kind = "show"   -> ShowArrives(t, c)
                   [] c.kind = "child"  -> ChildArrives(t, c)
                   [] c.kind = "index"  -> IndexArrives(t, c)
      /\ UNCHANGED <<location, loaded, navpath, sync, goal, alone>>
  BY <1>2, Zenon DEF ScriptArrives
<1> HIDE DEF c, t
<1>4. \A p : [t EXCEPT !.parts = @ \cup {p}] = Listed(t, p)
  BY <1>1 DEF TreeInv, TreeType, Listed
<1>5. CASE c.kind = "expand"
  <2>1. c.node \in InTree(t) \cap Lazy
    BY <1>1, <1>5 DEF Callback
  <2>2. tree' = ExpandNode(Arrive(t, c.node), c.node)
    BY <1>3, <1>4, <1>5, Zenon DEF ExpandArrives
  <2> QED
    BY <1>3, <1>5, <2>1, <2>2, Zenon DEF ArrivesTo, c, t
<1>6. CASE c.kind = "show"
  <2>1. c.node \in InTree(t) \cap Lazy /\ c.index \in Nat \ {0} /\ c.hash \in Hash
    BY <1>1, <1>6 DEF Callback
  <2>2. tree' = ShowNode(Arrive(t, c.node), c.node, c.index, c.hash)
    BY <1>3, <1>4, <1>6, Zenon DEF ShowArrives
  <2> QED
    BY <1>3, <1>6, <2>1, <2>2, Zenon DEF ArrivesTo, c, t
<1>7. CASE c.kind = "child"
  <2>1. c.node \in InTree(t) /\ c.leaf \in Lazy /\ c.index \in Nat \ {0} /\ c.hash \in Hash
    BY <1>1, <1>7 DEF Callback
  <2>2. tree' = ShowNode(ArriveBelow(t, c.leaf, c.node), c.node, c.index, c.hash)
    BY <1>3, <1>4, <1>7, Zenon DEF ChildArrives
  <2> QED
    BY <1>3, <1>7, <2>1, <2>2, Zenon DEF ArrivesTo, c, t
<1>8. CASE c.kind = "index"
  <2>1. c.part \in DOMAIN Index /\ c.url \in [page : Page \cup {MainPage}, anchor : Hash]
    BY <1>1, <1>8 DEF Callback
  <2>2. tree' = GotoNode(Listed(t, c.part), c.part, c.url)
    BY <1>3, <1>4, <1>8, Zenon DEF IndexArrives
  <2> QED
    BY <1>3, <1>8, <2>1, <2>2, Zenon DEF ArrivesTo, c, t
<1> QED
  BY <1>1, <1>5, <1>6, <1>7, <1>8 DEF Callback

LEMMA ScriptArrivesInv ==
  ASSUME Inv, NEW i \in DOMAIN tree.scripts, ScriptArrives(i)
  PROVE  Inv'
<1> DEFINE c == tree.scripts[i]
           t == Removed(i)
<1>1. TreeInv(t) /\ TreeInv(tree)
  BY RemovedKeeps DEF Inv, Keeps
<1>2. ArrivesTo(i, c) /\ UNCHANGED <<location, loaded, navpath, sync, goal, alone>>
  BY <1>1, ScriptArrivesIs
<1> HIDE DEF c
<1>3. TreeInv(tree')
  <2>1. CASE /\ c.node \in InTree(t) \cap Lazy
             /\ tree' = ExpandNode(Arrive(t, c.node), c.node)
    <3>1. Keeps(t, Arrive(t, c.node))
      BY <1>1, <2>1, ArriveKeeps
    <3> QED
      BY <2>1, <3>1, ExpandNodeKeeps DEF Keeps
  <2>2. CASE /\ c.node \in InTree(t) \cap Lazy /\ c.index \in Nat \ {0} /\ c.hash \in Hash
             /\ tree' = ShowNode(Arrive(t, c.node), c.node, c.index, c.hash)
    <3>1. Keeps(t, Arrive(t, c.node))
      BY <1>1, <2>2, ArriveKeeps
    <3> QED
      BY <2>2, <3>1, ShowNodeKeeps DEF Keeps
  <2>3. CASE /\ c.node \in InTree(t) /\ c.leaf \in Lazy
             /\ c.index \in Nat \ {0} /\ c.hash \in Hash
             /\ tree' = ShowNode(ArriveBelow(t, c.leaf, c.node), c.node, c.index, c.hash)
    <3>1. Keeps(t, ArriveBelow(t, c.leaf, c.node))
      BY <1>1, <2>3, ArriveKeeps
    <3> QED
      BY <2>3, <3>1, ShowNodeKeeps DEF Keeps
  <2>4. CASE /\ c.part \in DOMAIN Index
             /\ c.url \in [page : Page \cup {MainPage}, anchor : Hash]
             /\ tree' = GotoNode(Listed(t, c.part), c.part, c.url)
    <3>1. Keeps(t, Listed(t, c.part))
      BY <1>1, <2>4, ListedKeeps
    <3> QED
      BY <2>4, <3>1, GotoNodeKeeps DEF Keeps
  <2> QED
    BY <1>2, <2>1, <2>2, <2>3, <2>4 DEF ArrivesTo
<1> QED
  BY <1>2, <1>3 DEF Inv

LEMMA StutterInv == ASSUME Inv, UNCHANGED vars PROVE Inv'
  BY DEF Inv, vars

LEMMA NextInv == Inv /\ [Next]_vars => Inv'
<1> SUFFICES ASSUME Inv, [Next]_vars PROVE Inv'
  OBVIOUS
<1>1. ASSUME NEW u \in Url, OpenPage(u) PROVE Inv'
  BY <1>1, OpenPageInv
<1>2. ASSUME NEW a \in Anchor[location.page] \cup {NoAnchor}, HashChange(a) PROVE Inv'
  BY <1>2, HashChangeInv
<1>3. ASSUME NEW n \in Node, ClickAnchor(n) \/ Toggle(n) PROVE Inv'
  BY <1>3, ClickAnchorInv, ToggleInv
<1>4. CASE ToggleSyncButton
  BY <1>4, ToggleSyncButtonInv
<1>5. CASE WindowLoad
  BY <1>5, WindowLoadInv
<1>6. CASE Retry
  BY <1>6, RetryInv
<1>7. ASSUME NEW i \in DOMAIN tree.scripts, ScriptArrives(i) PROVE Inv'
  BY <1>7, ScriptArrivesInv
<1>8. CASE UNCHANGED vars
  BY <1>8, StutterInv
<1> QED
  BY <1>1, <1>2, <1>3, <1>4, <1>5, <1>6, <1>7, <1>8 DEF Next, User

LEMMA SpecInv == Spec => []Inv
  BY InitInv, NextInv, PTL DEF Spec

-----------------------------------------------------------------------------
\* Nothing in the tree depends on how many scripts may be out.
LEMMA ScriptsBounded == Spec => [](Len(tree.scripts) <= MaxLoads)
<1>1. Init => Len(tree.scripts) <= MaxLoads
  BY MaxLoadsAssumption DEF Init, NewTree
<1>2. Len(tree.scripts) <= MaxLoads /\ [Next]_vars => (Len(tree.scripts) <= MaxLoads)'
  BY DEF Next, vars
<1> QED
  BY <1>1, <1>2, PTL DEF Spec

(* The tree, the breadcrumbs and the link in localStorage are what they    *)
(* are said to be; in particular every navigation leads to a node.         *)
THEOREM NavTreeTypeCorrect == Spec => []TypeOK
<1>1. Inv /\ Len(tree.scripts) <= MaxLoads => TypeOK
  <2> SUFFICES ASSUME Inv, Len(tree.scripts) <= MaxLoads PROVE TypeOK
    OBVIOUS
  <2>1. TreeInv(tree) /\ tree.created \in [Parent -> Nat]
    BY DEF Inv, TreeInv, TreeType
  <2>2. tree.selected \subseteq Node \ {Root}
    BY <2>1 DEF TreeInv, Items
  <2> QED
    BY <2>1, <2>2 DEF Inv, TreeInv, TreeType, TypeOK
<1> QED
  BY <1>1, SpecInv, ScriptsBounded, PTL

(* However often and in whatever order the scripts arrive, the children of *)
(* a node are created once, under a parent that is in the tree.            *)
THEOREM ChildrenOnceCorrect == Spec => []ChildrenOnce
<1>1. Inv => ChildrenOnce
  <2> SUFFICES ASSUME Inv PROVE ChildrenOnce
    OBVIOUS
  <2>1. TreeInv(tree) /\ tree.created \in [Parent -> {0, 1}] /\ tree.expanded \subseteq Parent
    BY DEF Inv, TreeInv, TreeType
  <2>2. ASSUME NEW n \in Parent, tree.created[n] > 0
        PROVE  tree.created[n] = 1 /\ HasArray(tree, n) /\ (n # Root => n \in Items(tree))
    <3>1. tree.created[n] = 1
      BY <2>1, <2>2
    <3> QED
      BY <2>1, <3>1 DEF TreeInv, InTree
  <2>3. \A n \in tree.expanded : tree.created[n] > 0
    BY <2>1 DEF TreeInv
  <2>4. tree.selected \subseteq Items(tree)
    BY <2>1 DEF TreeInv
  <2> QED
    BY <2>2, <2>3, <2>4 DEF ChildrenOnce
<1> QED
  BY <1>1, SpecInv, PTL

(* The button shows whether the tree stays on a link, over all pages,      *)
(* clicks and changes of the hash.                                         *)
THEOREM SyncCorrect == Spec => []SyncShowsLink
<1>1. Inv => SyncShowsLink
  BY DEF Inv, SyncShowsLink
<1> QED
  BY <1>1, SpecInv, PTL

-----------------------------------------------------------------------------
(* Where the selection goes.  A script that a navigation waits for goes on *)
(* toward the goal g: along the way to g, from where it stopped, and with  *)
(* the hash of g, which selects nothing but what belongs to g.             *)
ByWay(S, g)     == g.way \in Node /\ \A m \in S : Link[m] = Link[g.way]
Here(h)         == [page |-> location.page, anchor |-> h]
Namesakes(S, g) == /\ g.url.page # location.page /\ g.url.anchor # NoAnchor
                   /\ \A m \in S : Link[m] = Here(g.url.anchor)

HashFits(h, g) ==
  /\ h = g.url.anchor
  /\ g.url.page = location.page /\ h # NoAnchor =>
       \A m \in Node : Link[m] = Here(h) => ByWay({m}, g)

OnTheWay(n, index, b, g) == b = g.way /\ index \in 1 .. Len(b) /\ n = SubSeq(b, 1, index - 1)

Goes(c, b, g) ==
  \/ c.kind = "expand"
  \/ c.kind = "index" /\ Way(c.part, c.url) = g.way /\ HashFits(c.url.anchor, g)
  \/ c.kind = "show" /\ OnTheWay(c.node, c.index, b, g) /\ HashFits(c.hash, g)
  \/ c.kind = "child" /\ OnTheWay(c.node, c.index, b, g) /\ HashFits(c.hash, g)

\* What is selected fits whatever is selected next for g.
Clear(S, g) == S = {} \/ Namesakes(S, g) \/ (ByWay(S, g) /\ g.url.page = location.page)

Single(t) == \A i, j \in DOMAIN t.scripts : Waits(t.scripts[i]) /\ Waits(t.scripts[j]) => i = j

Aims(t, g) == /\ \A i \in DOMAIN t.scripts : Goes(t.scripts[i], t.breadcrumbs, g)
              /\ Single(t) /\ Fit(t.selected, g)
              /\ Navigating(t) => Clear(t.selected, g)

\* No other navigation is under way, and one toward g may go on.
Ready(t, g) == Aims(t, g) /\ ~Navigating(t) /\ Clear(t.selected, g)

Done(t, g) == g.way \in Node => Navigating(t) \/ t.selected # {}

AloneInv == alone => Aims(tree, goal) /\ (loaded => Done(tree, goal))

LEMMA FitIs ==
  ASSUME NEW S, NEW g
  PROVE  /\ Fit(S, g) <=> (S = {} \/ ByWay(S, g) \/ Namesakes(S, g))
         /\ Clear(S, g) => Fit(S, g)
  BY DEF Fit, ByWay, Namesakes, Here, Clear

LEMMA SameAims ==
  ASSUME NEW t, NEW u, NEW g, u.scripts = t.scripts, u.breadcrumbs = t.breadcrumbs,
         u.selected = t.selected
  PROVE  /\ Aims(t, g) => Aims(u, g)
         /\ Done(t, g) => Done(u, g)
         /\ Ready(t, g) => Ready(u, g)
         /\ Navigating(u) <=> Navigating(t)
  BY Zenon DEF Aims, Done, Navigating, Single, Ready

LEMMA GetScriptIs ==
  ASSUME NEW t, TreeInv(t), NEW c
  PROVE  /\ GetScript(t, c).breadcrumbs = t.breadcrumbs
         /\ GetScript(t, c).selected = t.selected
         /\ \A i \in DOMAIN t.scripts : /\ i \in DOMAIN GetScript(t, c).scripts
                                        /\ GetScript(t, c).scripts[i] = t.scripts[i]
         /\ \E l \in DOMAIN GetScript(t, c).scripts :
              /\ GetScript(t, c).scripts[l] = c
              /\ \A i \in DOMAIN GetScript(t, c).scripts : i \in DOMAIN t.scripts \/ i = l
         /\ Navigating(GetScript(t, c)) <=> Navigating(t) \/ Waits(c)
<1> DEFINE q == Append(t.scripts, c)
           u == [t EXCEPT !.scripts = q]
           l == Len(t.scripts) + 1
<1>1. GetScript(t, c) = u
  BY DEF GetScript, TreeInv, TreeType
<1>2. /\ \A i \in DOMAIN t.scripts : q[i] = t.scripts[i] /\ i \in DOMAIN q
      /\ l \in DOMAIN q /\ q[l] = c
      /\ \A i \in DOMAIN q : i \in DOMAIN t.scripts \/ i = l
  <2>1. t.scripts \in Seq(Callback(Node))
    BY DEF TreeInv, TreeType
  <2> HIDE DEF TreeInv
  <2> QED
    BY <2>1
<1> HIDE DEF q, l
<1>3. u.scripts = q /\ u.breadcrumbs = t.breadcrumbs /\ u.selected = t.selected
  BY DEF TreeInv, TreeType
<1> HIDE DEF u
<1>4. Navigating(u) <=> Navigating(t) \/ Waits(c)
  BY <1>2, <1>3, Zenon DEF Navigating
<1> QED
  BY <1>1, <1>2, <1>3, <1>4, Zenon

LEMMA GetScriptAims ==
  ASSUME NEW t, TreeInv(t), NEW g, Aims(t, g), NEW c, Goes(c, t.breadcrumbs, g),
         Waits(c) => Ready(t, g)
  PROVE  Aims(GetScript(t, c), g)
<1> DEFINE u == GetScript(t, c)
<1>1. /\ u.breadcrumbs = t.breadcrumbs /\ u.selected = t.selected
      /\ \A i \in DOMAIN t.scripts : i \in DOMAIN u.scripts /\ u.scripts[i] = t.scripts[i]
      /\ Navigating(u) <=> Navigating(t) \/ Waits(c)
  BY GetScriptIs
<1>2. PICK l \in DOMAIN u.scripts :
        u.scripts[l] = c /\ \A i \in DOMAIN u.scripts : i \in DOMAIN t.scripts \/ i = l
  BY GetScriptIs
<1> HIDE DEF u
<1>3. \A i \in DOMAIN u.scripts : Goes(u.scripts[i], u.breadcrumbs, g)
  BY <1>1, <1>2, Zenon DEF Aims
<1>4. Single(u)
  <2> SUFFICES ASSUME NEW i \in DOMAIN u.scripts, NEW j \in DOMAIN u.scripts,
                      Waits(u.scripts[i]), Waits(u.scripts[j])
               PROVE  i = j
    BY Zenon DEF Single
  <2>1. CASE Waits(c)
    <3>1. \A k \in DOMAIN t.scripts : ~Waits(t.scripts[k])
      BY <2>1, Zenon DEF Ready, Navigating
    <3> QED
      BY <1>1, <1>2, <3>1, Zenon
  <2>2. CASE ~Waits(c)
    <3>1. i # l /\ j # l
      BY <1>2, <2>2
    <3>2. i \in DOMAIN t.scripts /\ j \in DOMAIN t.scripts
      BY <1>2, <3>1
    <3> QED
      BY <1>1, <3>2, Zenon DEF Aims, Single
  <2> QED
    BY <2>1, <2>2
<1>5. Navigating(u) => Clear(u.selected, g)
  BY <1>1, Zenon DEF Aims, Ready
<1> QED
  BY <1>1, <1>3, <1>4, <1>5, Zenon DEF Aims, u

LEMMA OpenSame ==
  ASSUME NEW t, TreeInv(t), NEW ns
  PROVE  /\ Open(t, ns).scripts = t.scripts /\ Open(t, ns).breadcrumbs = t.breadcrumbs
         /\ Open(t, ns).selected = t.selected
  BY DEF Open, TreeInv, TreeType

LEMMA ExpandNodeAims ==
  ASSUME NEW t, TreeInv(t), NEW g, NEW n
  PROVE  /\ Aims(t, g) => Aims(ExpandNode(t, n), g)
         /\ Ready(t, g) => Ready(ExpandNode(t, n), g)
         /\ ExpandNode(t, n).selected = t.selected
         /\ Navigating(t) <=> Navigating(ExpandNode(t, n))
<1>1. CASE n \notin Parent \ t.expanded
  BY <1>1, Zenon DEF ExpandNode
<1>2. CASE n \in Parent \ t.expanded /\ HasArray(t, n)
  <2>1. ExpandNode(t, n) = Open(t, {n})
    BY <1>2, Zenon DEF ExpandNode
  <2> QED
    BY <2>1, OpenSame, SameAims, ZenonT(40)
<1>3. CASE n \in Parent \ t.expanded /\ ~HasArray(t, n)
  <2> DEFINE c == [kind |-> "expand", node |-> n]
  <2>1. ExpandNode(t, n) = GetScript(t, c)
    BY <1>3, Zenon DEF ExpandNode
  <2>2. Goes(c, t.breadcrumbs, g) /\ ~Waits(c)
    BY DEF Goes, Waits
  <2> HIDE DEF c
  <2>3. GetScript(t, c).selected = t.selected /\ (Navigating(t) <=> Navigating(GetScript(t, c)))
    BY <2>2, GetScriptIs
  <2>4. Aims(t, g) => Aims(GetScript(t, c), g)
    BY <2>2, GetScriptAims
  <2> QED
    BY <2>1, <2>3, <2>4, Zenon DEF Ready
<1> QED
  BY <1>1, <1>2, <1>3

\* What is selected if no item has the hash: the item of the goal, or none.
Selectable(n, g) == n = Root \/ (n = g.way /\ n \in Node)

LEMMA SelectAims ==
  ASSUME NEW t, TreeInv(t), NEW g, Ready(t, g), NEW h, HashFits(h, g),
         NEW n, Selectable(n, g)
  PROVE  /\ Aims(SelectAndHighlight(t, h, n), g)
         /\ n # Root => SelectAndHighlight(t, h, n).selected # {}
<1> DEFINE a == {m \in Items(t) : h # NoAnchor
                   /\ Link[m] = [page |-> location.page, anchor |-> h]}
           r == t.selected
           s == r \cup (IF a # {} THEN a ELSE {n} \ {Root})
           u == [t EXCEPT !.selected = s, !.retry = TRUE]
<1>1. SelectAndHighlight(t, h, n) = u
  BY DEF SelectAndHighlight, TreeInv, TreeType
<1>2. r \subseteq Items(t) /\ Items(t) \subseteq Node /\ Clear(r, g)
  BY ItemsAre DEF TreeInv, Ready
<1>3. h = g.url.anchor /\ \A m \in a : h # NoAnchor /\ Link[m] = Here(h)
  BY DEF HashFits, Here
<1>4. \A m \in r : h # NoAnchor /\ Link[m] = Here(h) => m \in a
  BY <1>2 DEF Here
<1>5. a \subseteq Node
  BY <1>2
<1> HIDE DEF a
<1>6. ASSUME a # {} /\ g.url.page = location.page PROVE Fit(s, g)
  <2>1. ByWay(a, g)
    BY <1>3, <1>5, <1>6 DEF HashFits, ByWay
  <2>2. r = {} \/ ByWay(r, g)
    BY <1>2, <1>6 DEF Clear, Namesakes
  <2>3. s = r \cup a
    BY <1>6
  <2> QED
    BY <2>1, <2>2, <2>3, FitIs DEF ByWay
<1>7. ASSUME a # {} /\ g.url.page # location.page PROVE Fit(s, g)
  <2>1. Namesakes(a, g)
    BY <1>3, <1>7 DEF Namesakes
  <2>2. r = {} \/ Namesakes(r, g)
    BY <1>2, <1>7 DEF Clear
  <2>3. s = r \cup a
    BY <1>7
  <2> QED
    BY <2>1, <2>2, <2>3, FitIs DEF Namesakes
<1>8. ASSUME a = {} /\ n = Root PROVE Fit(s, g)
  <2>1. s = r
    BY <1>8
  <2> QED
    BY <1>2, <2>1, FitIs
<1>9. ASSUME a = {} /\ n # Root PROVE Fit(s, g)
  <2>1. n = g.way /\ g.way \in Node /\ s = r \cup {n}
    BY <1>9 DEF Selectable
  <2>2. r = {} \/ ~Namesakes(r, g)
    BY <1>3, <1>4, <1>9 DEF Namesakes
  <2>3. r = {} \/ ByWay(r, g)
    BY <1>2, <2>2 DEF Clear
  <2>4. ByWay(s, g)
    BY <2>1, <2>3 DEF ByWay
  <2> QED
    BY <2>4, FitIs
<1>10. Fit(s, g)
  BY <1>6, <1>7, <1>8, <1>9
<1>11. n # Root => s # {}
  OBVIOUS
<1> HIDE DEF s
<1>12. u.selected = s /\ u.scripts = t.scripts /\ u.breadcrumbs = t.breadcrumbs
  BY DEF TreeInv, TreeType
<1> HIDE DEF u
<1>13. ~Navigating(u)
  BY <1>12, Zenon DEF Ready, Navigating
<1>14. Aims(u, g)
  BY <1>10, <1>12, <1>13, Zenon DEF Aims, Ready, Single
<1> QED
  BY <1>1, <1>11, <1>12, <1>14

\* The last node of a way, from the one before.
LEMMA WayEnds ==
  ASSUME NEW b \in Seq(Nat), Len(b) > 0
  PROVE  Kid(SubSeq(b, 1, Len(b) - 1), b[Len(b)]) = b
<1> DEFINE m == Len(b) - 1
           f == SubSeq(b, 1, m)
           x == b[Len(b)]
<1>1. /\ f \in Seq(Nat) /\ Len(f) = m /\ m \in Nat /\ Len(b) = m + 1
      /\ x \in Nat /\ \A j \in 1 .. m : f[j] = b[j]
  BY FrontNat DEF Front
<1>2. b[m + 1] = x
  BY <1>1
<1> HIDE DEF f, x, m
<1> DEFINE k == Append(f, x)
<1>3. k \in Seq(Nat) /\ Len(k) = m + 1 /\ k[m + 1] = x /\ \A j \in 1 .. m : k[j] = f[j]
  BY <1>1
<1> HIDE DEF k
<1>4. \A j \in 1 .. m + 1 : k[j] = b[j]
  BY <1>1, <1>2, <1>3
<1>5. k = b
  BY <1>1, <1>3, <1>4, SameSequence
<1> QED
  BY <1>5 DEF k, Kid, f, x, m

LEMMA ShowLeafAims ==
  ASSUME NEW t, TreeInv(t), NEW g, Ready(t, g), NEW n \in Parent, t.created[n] = 1,
         NEW h \in Hash, HashFits(h, g), NEW index, OnTheWay(n, index, t.breadcrumbs, g),
         index = Len(t.breadcrumbs)
  PROVE  Aims(ShowLeaf(t, n, index, h), g) /\ Done(ShowLeaf(t, n, index, h), g)
<1> DEFINE leaf == Kid(n, IF index <= Len(t.breadcrumbs) THEN t.breadcrumbs[index] ELSE -1)
           c == [kind |-> "child", node |-> n, leaf |-> leaf, index |-> index, hash |-> h]
           e == IF location.page = MainPage THEN ExpandNode(t, leaf) ELSE t
<1>1. leaf = g.way /\ leaf # Root
  <2> DEFINE b == t.breadcrumbs
  <2>1. b \in Seq(Nat)
    BY DEF TreeInv, TreeType
  <2>2. b = g.way /\ index \in 1 .. Len(b) /\ n = SubSeq(b, 1, index - 1)
    BY DEF OnTheWay
  <2> HIDE DEF b
  <2>3. Len(b) > 0 /\ index = Len(b) /\ n = SubSeq(b, 1, Len(b) - 1)
    BY <2>1, <2>2 DEF b
  <2>4. Kid(n, b[index]) = b
    BY <2>1, <2>3, WayEnds
  <2>5. index <= Len(b)
    BY <2>1, <2>2
  <2>6. b # Root
    BY <2>3 DEF Root
  <2> QED
    BY <2>2, <2>4, <2>5, <2>6 DEF b
<1> HIDE DEF leaf
<1>2. CASE leaf \notin Node
  <2>1. ShowLeaf(t, n, index, h) = t
    BY <1>2, NodeAssumption, Zenon DEF ShowLeaf, leaf
  <2> QED
    BY <1>1, <1>2, <2>1, Zenon DEF Done, Ready
<1>3. CASE leaf \in Lazy \ t.arrived
  <2>1. leaf \in Node
    BY <1>3, NodeAssumption
  <2>2. ShowLeaf(t, n, index, h) = GetScript(t, c)
    BY <1>3, <2>1, Zenon DEF ShowLeaf, leaf
  <2>3. Goes(c, t.breadcrumbs, g) /\ Waits(c)
    BY DEF Goes, Waits
  <2> HIDE DEF c
  <2>4. Aims(GetScript(t, c), g) /\ Navigating(GetScript(t, c))
    BY <2>3, GetScriptAims, GetScriptIs DEF Ready
  <2> QED
    BY <2>2, <2>4, Zenon DEF Done
<1>4. CASE leaf \in Node /\ leaf \notin Lazy \ t.arrived
  <2>1. ShowLeaf(t, n, index, h) = SelectAndHighlight(e, h, leaf)
    BY <1>4, Zenon DEF ShowLeaf, leaf
  <2>2. Front(leaf) = n
    <3>1. leaf = Append(n, t.breadcrumbs[index]) /\ t.breadcrumbs[index] \in Nat
      BY DEF leaf, Kid, OnTheWay, TreeInv, TreeType
    <3>2. n \in Seq(Nat)
      BY NodeAssumption
    <3> QED
      BY <3>1, <3>2 DEF Front
  <2>3. leaf \in InTree(t)
    BY <1>1, <1>4, <2>2 DEF InTree, Items
  <2>4. TreeInv(e)
    BY <2>3, ExpandNodeKeeps DEF Keeps
  <2>5. Ready(e, g)
    BY ExpandNodeAims
  <2> HIDE DEF e
  <2>6. /\ Aims(SelectAndHighlight(e, h, leaf), g)
        /\ SelectAndHighlight(e, h, leaf).selected # {}
    <3>1. Selectable(leaf, g)
      BY <1>1, <1>4 DEF Selectable
    <3> QED
      BY <1>1, <3>1, <2>4, <2>5, SelectAims
  <2> QED
    BY <2>1, <2>6, Zenon DEF Done
<1> QED
  BY <1>2, <1>3, <1>4

\* A node on the way of the tree, and the one before.
LEMMA WayStops ==
  ASSUME NEW b \in Seq(Nat), NEW m \in 1 .. Len(b)
  PROVE  Front(SubSeq(b, 1, m)) = SubSeq(b, 1, m - 1) /\ SubSeq(b, 1, m) # Root
<1> DEFINE s == SubSeq(b, 1, m)
           r == SubSeq(b, 1, m - 1)
<1>1. m \in Nat /\ m - 1 \in Nat /\ m <= Len(b) /\ m - 1 <= Len(b) /\ m > 0
  OBVIOUS
<1>2. /\ s \in Seq(Nat) /\ Len(s) = m /\ \A j \in 1 .. m : s[j] = b[j]
      /\ r \in Seq(Nat) /\ Len(r) = m - 1 /\ \A j \in 1 .. m - 1 : r[j] = b[j]
  BY <1>1
<1> HIDE DEF s, r
<1>3. Front(s) \in Seq(Nat) /\ Len(Front(s)) = m - 1 /\ \A j \in 1 .. m - 1 : Front(s)[j] = s[j]
  BY <1>1, <1>2, FrontNat
<1>4. \A j \in 1 .. m - 1 : Front(s)[j] = r[j]
  <2>1. \A j \in 1 .. m - 1 : j \in 1 .. m
    BY <1>1
  <2> QED
    BY <2>1, <1>2, <1>3, Zenon
<1>5. Front(s) = r
  BY <1>2, <1>3, <1>4, SameSequence
<1>6. s # Root
  BY <1>1, <1>2 DEF Root
<1> QED
  BY <1>5, <1>6 DEF s, r

\* All nodes on the way to a node have children: the ways go down without a gap.
LEMMA WayInParent ==
  ASSUME NEW b \in Node, NEW m \in 0 .. Len(b) - 1
  PROVE  SubSeq(b, 1, m) \in Parent
<1> DEFINE L == Len(b) - 1
           P(j) == SubSeq(b, 1, L - j) \in Parent
           S == {j \in 0 .. L : ~ P(j)}
<1>0. b \in Seq(Nat) /\ L \in Nat /\ Len(b) = L + 1 /\ m \in 0 .. L
  BY NodeAssumption
<1>1. \A k \in 1 .. L + 1 : /\ Front(SubSeq(b, 1, k)) = SubSeq(b, 1, k - 1)
                            /\ SubSeq(b, 1, k) # Root
  BY <1>0, WayStops
<1>b. SubSeq(b, 1, L + 1) = b
  BY <1>0
<1> HIDE DEF L
<1>2. ASSUME S # {} PROVE FALSE
  <2>1. S \in SUBSET Nat
    BY <1>0
  <2> DEFINE j == Min(S)
  <2>2. j \in S /\ \A y \in S : j <= y
    BY <1>2, <2>1, MinIsLeast
  <2> HIDE DEF j
  <2>3. j \in 0 .. L /\ ~ P(j)
    BY <2>2
  <2>4. L - j + 1 \in 1 .. L + 1 /\ (L - j + 1) - 1 = L - j
    BY <1>0, <2>3
  <2>5. /\ Front(SubSeq(b, 1, L - j + 1)) = SubSeq(b, 1, L - j)
        /\ SubSeq(b, 1, L - j + 1) # Root
    BY <1>1, <2>4
  <2>6. SubSeq(b, 1, L - j + 1) \in Node
    <3>1. CASE j = 0
      <4>1. L - j + 1 = L + 1
        BY <1>0, <3>1
      <4> QED
        BY <1>b, <4>1
    <3>2. CASE j # 0
      <4>1. j - 1 \in 0 .. L /\ L - (j - 1) = L - j + 1 /\ ~ (j <= j - 1)
        BY <1>0, <2>3, <3>2
      <4>2. P(j - 1)
        BY <2>2, <4>1
      <4> QED
        BY <4>1, <4>2, NodeAssumption
    <3> QED
      BY <3>1, <3>2
  <2>7. SubSeq(b, 1, L - j) \in Parent
    BY <2>5, <2>6 DEF Parent
  <2> QED
    BY <2>3, <2>7
<1>3. L - m \in 0 .. L /\ L - (L - m) = m
  BY <1>0
<1>4. P(L - m)
  BY <1>2, <1>3
<1> QED
  BY <1>3, <1>4

\* The nodes that showNode goes through are on the way.
LEMMA WayOn ==
  ASSUME NEW b \in Seq(Nat), NEW index \in 1 .. Len(b), NEW k \in Nat, index + k <= Len(b)
  PROVE  SubSeq(b, 1, index - 1) \o SubSeq(b, index, index + k - 1) = SubSeq(b, 1, index + k - 1)
<1> DEFINE l == index - 1
           n == SubSeq(b, 1, l)
           s == SubSeq(b, index, index + k - 1)
           r == SubSeq(b, 1, index + k - 1)
           w == n \o s
<1>1. l \in Nat /\ l + k = index + k - 1 /\ l + k <= Len(b) /\ l <= Len(b)
  OBVIOUS
<1>2. /\ n \in Seq(Nat) /\ Len(n) = l /\ \A j \in 1 .. l : n[j] = b[j]
      /\ s \in Seq(Nat) /\ Len(s) = k /\ \A j \in 1 .. k : s[j] = b[index + j - 1]
      /\ r \in Seq(Nat) /\ Len(r) = l + k /\ \A j \in 1 .. l + k : r[j] = b[j]
  BY <1>1, SMTT(30)
<1>3. \A j \in 1 .. k : index + j - 1 = l + j
  OBVIOUS
<1> HIDE DEF n, s, r, l
<1>4. /\ w \in Seq(Nat) /\ Len(w) = l + k
      /\ \A j \in 1 .. l : w[j] = n[j]
      /\ \A j \in 1 .. k : w[l + j] = s[j]
  <2>1. /\ w \in Seq(Nat) /\ Len(w) = Len(n) + Len(s)
        /\ \A j \in 1 .. Len(n) : w[j] = n[j]
        /\ \A j \in 1 .. Len(s) : w[Len(n) + j] = s[j]
    <3>1. n \in Seq(Nat) /\ s \in Seq(Nat)
      BY <1>2
    <3> QED
      BY <3>1, TwoParts, SMT
  <2> HIDE DEF w
  <2> QED
    BY <1>2, <2>1, Zenon
<1> HIDE DEF w
<1>5. \A j \in 1 .. l + k : w[j] = r[j]
  <2> SUFFICES ASSUME NEW j \in 1 .. l + k PROVE w[j] = r[j]
    OBVIOUS
  <2>1. CASE j <= l
    <3>1. j \in 1 .. l
      BY <1>1, <2>1
    <3> QED
      BY <1>2, <1>4, <3>1, Zenon
  <2>2. CASE ~ (j <= l)
    <3> DEFINE i == j - l
    <3>1. i \in 1 .. k /\ l + i = j
      BY <1>1, <2>2
    <3> HIDE DEF i
    <3>2. w[j] = s[i] /\ s[i] = b[index + i - 1] /\ index + i - 1 = l + i
      BY <1>2, <1>3, <1>4, <3>1
    <3> QED
      BY <1>2, <3>1, <3>2
  <2> QED
    BY <2>1, <2>2
<1>6. w = r
  BY <1>2, <1>4, <1>5, SameSequence
<1> QED
  BY <1>6 DEF n, s, r, w, l

LEMMA ShowNodeAims ==
  ASSUME NEW t, TreeInv(t), NEW g, Ready(t, g), NEW h \in Hash, HashFits(h, g),
         NEW n \in InTree(t), NEW index, OnTheWay(n, index, t.breadcrumbs, g)
  PROVE  Aims(ShowNode(t, n, index, h), g) /\ Done(ShowNode(t, n, index, h), g)
<1> DEFINE u == ShowNode(t, n, index, h)
           b == t.breadcrumbs
<1>1. b \in Seq(Nat)
  BY DEF TreeInv, TreeType
<1>2. b = g.way /\ index \in 1 .. Len(b) /\ n = SubSeq(b, 1, index - 1)
  BY DEF OnTheWay
<1> HIDE DEF b
<1>3. index \in Nat \ {0} /\ index <= Len(b)
  BY <1>1, <1>2
<1>4. PICK k, s : Shows(t, n, index, h, u, k, s)
  BY <1>3, ShowNodeIs
<1> DEFINE w == n \o SubSeq(b, index, index + k - 1)
           c == [kind |-> "show", node |-> w, index |-> index + k, hash |-> h]
<1> HIDE DEF u
<1>5. /\ k \in Nat /\ (k > 0 => index + k <= Len(b)) /\ Keeps(t, s) /\ \E ns : s = Open(t, ns)
      /\ \/ /\ w \in Parent /\ s.created[w] = 1 /\ index + k = Len(b)
            /\ u = ShowLeaf(s, w, index + k, h)
         \/ w \in Lazy \cap InTree(s) /\ u = GetScript(s, c)
         \/ w \notin Parent /\ u = SelectAndHighlight(s, h, Root)
  BY <1>3, <1>4, Zenon DEF Shows, b
<1>6. index + k <= Len(b) /\ index + k \in 1 .. Len(b) /\ (index + k) - 1 = index + k - 1
  BY <1>1, <1>3, <1>5
<1>7. w = SubSeq(b, 1, (index + k) - 1)
  BY <1>1, <1>2, <1>5, <1>6, WayOn, ZenonT(40)
<1> HIDE DEF w
<1>8. s.scripts = t.scripts /\ s.breadcrumbs = b /\ s.selected = t.selected
  BY <1>5, OpenSame DEF b
<1>9. Ready(s, g) /\ TreeInv(s)
  BY <1>5, <1>8, SameAims DEF b, Keeps
<1>10. OnTheWay(w, index + k, s.breadcrumbs, g)
  BY <1>2, <1>6, <1>7, <1>8, Zenon DEF OnTheWay
<1>11. CASE /\ w \in Parent /\ s.created[w] = 1 /\ index + k = Len(b)
            /\ u = ShowLeaf(s, w, index + k, h)
  <2>1. index + k = Len(s.breadcrumbs)
    BY <1>8, <1>11
  <2> DEFINE i == index + k
  <2> HIDE DEF i
  <2>2. Aims(ShowLeaf(s, w, i, h), g) /\ Done(ShowLeaf(s, w, i, h), g)
    BY <1>9, <1>10, <1>11, <2>1, ShowLeafAims DEF i
  <2> QED
    BY <1>11, <2>2 DEF i, u
<1>12. CASE w \in Lazy \cap InTree(s) /\ u = GetScript(s, c)
  <2>1. Goes(c, s.breadcrumbs, g) /\ Waits(c)
    BY <1>10 DEF Goes, Waits
  <2> HIDE DEF c
  <2>2. Aims(GetScript(s, c), g) /\ Navigating(GetScript(s, c))
    BY <1>9, <2>1, GetScriptAims, GetScriptIs DEF Ready
  <2> QED
    BY <1>12, <2>2, Zenon DEF Done, u
<1>13. CASE w \notin Parent /\ u = SelectAndHighlight(s, h, Root)
  <2>1. Aims(SelectAndHighlight(s, h, Root), g)
    <3>1. Selectable(Root, g)
      BY DEF Selectable
    <3> QED
      BY <3>1, <1>9, SelectAims
  <2>3. Aims(u, g)
    BY <1>13, <2>1, Zenon
  <2>2. g.way \notin Node
    <3>1. SUFFICES ASSUME b \in Node PROVE FALSE
      BY <1>2
    <3>2. (index + k) - 1 \in 0 .. Len(b) - 1
      BY <1>1, <1>6
    <3> DEFINE i == (index + k) - 1
    <3> HIDE DEF i
    <3>3. SubSeq(b, 1, i) \in Parent
      BY <3>1, <3>2, WayInParent DEF i
    <3> QED
      BY <1>7, <1>13, <3>3 DEF i
  <2> QED
    BY <2>2, <2>3 DEF Done, u
<1> QED
  BY <1>5, <1>11, <1>12, <1>13

LEMMA GotoNodeAims ==
  ASSUME NEW t, TreeInv(t), NEW g, Ready(t, g), NEW i \in DOMAIN Index, NEW u, u.anchor \in Hash,
         Way(i, u) = g.way, HashFits(u.anchor, g)
  PROVE  Aims(GotoNode(t, i, u), g) /\ Done(GotoNode(t, i, u), g)
<1> DEFINE q == g.way
           b == [t EXCEPT !.breadcrumbs = q]
<1>1. q \in Seq(Nat) /\ Len(q) > 0
  BY WayIs
<1>2. GotoNode(t, i, u) = ShowNode(b, Root, 1, u.anchor)
  BY Zenon DEF GotoNode
<1> HIDE DEF q
<1>3. b \in TreeType
  BY <1>1 DEF TreeInv, TreeType
<1>4. /\ b.created = t.created /\ b.arrived = t.arrived /\ b.expanded = t.expanded
      /\ b.selected = t.selected /\ b.scripts = t.scripts /\ b.breadcrumbs = q
  BY DEF TreeInv, TreeType
<1> HIDE DEF b
<1>5. TreeInv(b) /\ Root \in InTree(b)
  BY <1>3, <1>4, SameNodes DEF TreeInv, Keeps, InTree
<1>6. Ready(b, g)
  <2>1. ~Navigating(b)
    BY <1>4, Zenon DEF Ready, Navigating
  <2>2. \A j \in DOMAIN b.scripts : Goes(b.scripts[j], b.breadcrumbs, g)
    BY <2>1, Zenon DEF Navigating, Waits, Goes
  <2> QED
    BY <1>4, <2>1, <2>2, Zenon DEF Ready, Aims, Single
<1>7. OnTheWay(Root, 1, b.breadcrumbs, g)
  <2>1. 1 \in 1 .. Len(q) /\ SubSeq(q, 1, 1 - 1) = <<>>
    BY <1>1
  <2> QED
    BY <1>4, <2>1 DEF OnTheWay, Root, q
<1> QED
  BY <1>2, <1>5, <1>6, <1>7, ShowNodeAims

\* Where the way to a link leads that some item has.
LEMMA WayToLink ==
  ASSUME NEW u \in Url, NEW m \in Node, Link[m] = u
  PROVE  LET n == Way(PartOf(u), Resolved(u)) IN n \in Node /\ Link[n] = u
<1>1. Part[u] # -1 /\ Way(Part[u], u) \in Node /\ Link[Way(Part[u], u)] = u
  BY WayAssumption
<1>2. PartOf(u) = Part[u] /\ Resolved(u) = u
  BY <1>1 DEF PartOf, Resolved
<1> QED
  BY <1>1, <1>2

\* The hash that navTo goes by is that of the goal.
LEMMA GoalFits ==
  ASSUME location \in Url, navpath \in Url \cup {NoUrl}, NEW u \in Url
  PROVE  HashFits(Resolved(Wanted(u)).anchor, Goal(u))
<1> DEFINE w == Wanted(u)
           g == Goal(u)
           h == Resolved(Wanted(u)).anchor
<1>1. w \in Url
  BY DEF Wanted
<1>2. h = w.anchor
  BY <1>1, UrlIs DEF Resolved
<1>3. w = [page |-> w.page, anchor |-> h]
  BY <1>1, <1>2, UrlIs
<1>4. g.url = w /\ g.way = Way(PartOf(w), Resolved(w))
  BY DEF Goal
<1> HIDE DEF w, g, h
<1>5. ASSUME w.page = location.page, NEW m \in Node, Link[m] = Here(h) PROVE ByWay({m}, g)
  <2>1. Link[m] = w
    BY <1>3, <1>5 DEF Here
  <2>2. g.way \in Node /\ Link[g.way] = w
    BY <1>1, <1>4, <2>1, WayToLink
  <2> QED
    BY <2>1, <2>2 DEF ByWay
<1>6. h = g.url.anchor
  BY <1>2, <1>4
<1> QED
  BY <1>4, <1>5, <1>6 DEF HashFits, g, h

LEMMA NavToAims ==
  ASSUME location \in Url, navpath \in Url \cup {NoUrl}, NEW t, TreeInv(t), NEW u \in Url,
         Ready(t, Goal(u))
  PROVE  Aims(NavTo(t, u), Goal(u)) /\ Done(NavTo(t, u), Goal(u))
<1> DEFINE p == PartOf(Wanted(u))
           r == Resolved(Wanted(u))
           g == Goal(u)
           c == [kind |-> "index", part |-> p, url |-> r]
<1>1. p \in DOMAIN Index /\ r \in [page : Page \cup {MainPage}, anchor : Hash]
  BY ResolvedIs
<1>2. NavTo(t, u) = IF p \in t.parts THEN GotoNode(t, p, r) ELSE GetScript(t, c)
  BY DEF NavTo
<1>3. Way(p, r) = g.way /\ HashFits(r.anchor, g)
  BY GoalFits DEF Goal
<1> HIDE DEF p, r, g
<1>4. Ready(t, g)
  BY DEF g
<1>5. CASE p \in t.parts
  <2>1. r.anchor \in Hash
    BY <1>1
  <2>2. Aims(GotoNode(t, p, r), g) /\ Done(GotoNode(t, p, r), g)
    BY <1>1, <1>3, <1>4, <2>1, GotoNodeAims
  <2> QED
    BY <1>2, <1>5, <2>2 DEF g
<1>6. CASE p \notin t.parts
  <2>1. Goes(c, t.breadcrumbs, g) /\ Waits(c)
    BY <1>3 DEF Goes, Waits
  <2> HIDE DEF c
  <2>2. Aims(GetScript(t, c), g) /\ Navigating(GetScript(t, c))
    BY <1>4, <2>1, GetScriptAims, GetScriptIs DEF Ready
  <2>3. NavTo(t, u) = GetScript(t, c)
    BY <1>2, <1>6
  <2> QED
    BY <2>2, <2>3, Zenon DEF Done, g
<1> QED
  BY <1>5, <1>6

\* With no other navigation under way, all that there is aims at a new goal.
LEMMA IdleAims ==
  ASSUME NEW t, ~Navigating(t), NEW g
  PROVE  Fit(t.selected, g) => Aims(t, g)
  BY Zenon DEF Aims, Single, Navigating, Waits, Goes

LEMMA IdleReady ==
  ASSUME NEW t, ~Navigating(t), NEW g, Clear(t.selected, g)
  PROVE  Ready(t, g)
  BY IdleAims, FitIs DEF Ready

\* What fits a goal depends on the page that is shown, not on the hash.
LEMMA PageAims ==
  ASSUME location'.page = location.page, Aims(tree', goal')
  PROVE  Aims(tree, goal)'
<1>1. ASSUME NEW S, NEW g PROVE (Fit(S, g) => Fit(S, g)') /\ (Clear(S, g) => Clear(S, g)')
  BY DEF Fit, Clear, ByWay, Namesakes, Here
<1>2. ASSUME NEW h, NEW g, HashFits(h, g) PROVE HashFits(h, g)'
  BY <1>2 DEF HashFits, Here, ByWay
<1>3. ASSUME NEW c, NEW b, NEW g, Goes(c, b, g) PROVE Goes(c, b, g)'
  BY <1>2, <1>3, Zenon DEF Goes, OnTheWay
<1>4. ASSUME NEW i \in DOMAIN tree'.scripts
      PROVE  Goes(tree.scripts[i], tree.breadcrumbs, goal)'
  BY <1>3 DEF Aims
<1>5. Fit(tree.selected, goal)' /\ (Navigating(tree)' => Clear(tree.selected, goal)')
  BY <1>1 DEF Aims, Navigating
<1>6. Single(tree)'
  BY DEF Aims, Single
<1> QED
  BY <1>4, <1>5, <1>6 DEF Aims

-----------------------------------------------------------------------------
(* What the goal is: where the index leads for its URL, or an item with    *)
(* that link.  The tree of a new document has none.  Alone, it is the link *)
(* that is kept, if there is one.                                          *)
IsGoal(g) == \/ g.way = Way(PartOf(g.url), Resolved(g.url))
             \/ g.way \in Node /\ Link[g.way] = g.url

GoalInv == /\ goal.url # NoUrl => IsGoal(goal)
           /\ goal.url = NoUrl => tree.selected = {} /\ ~Navigating(tree)
           /\ alone /\ goal.url # NoUrl /\ navpath # NoUrl => goal.url = navpath

LEMMA UrlNotEmpty == NoUrl \notin Url
  BY UrlIs, LinkAssumption

LEMMA GoalUrl ==
  ASSUME navpath \in Url \cup {NoUrl}, NEW u \in Url
  PROVE  /\ Goal(u).url \in Url /\ IsGoal(Goal(u))
         /\ Goal(u).url = IF navpath # NoUrl THEN navpath ELSE u
  BY DEF Goal, Wanted, IsGoal

LEMMA InitGoal == Init => GoalInv
  BY DEF Init, GoalInv, NewTree, Navigating

LEMMA OpenPageGoal == ASSUME NEW u \in Url, OpenPage(u) PROVE GoalInv'
<1>1. tree' = NewTree /\ goal' = [way |-> Root, url |-> NoUrl]
  BY DEF OpenPage, Document
<1> QED
  BY <1>1 DEF GoalInv, NewTree, Navigating

\* A navigation by navTo.
LEMMA NewGoal ==
  ASSUME Inv, NEW u \in Url, goal' = Goal(u), UNCHANGED navpath
  PROVE  GoalInv'
<1>1. /\ goal'.url \in Url /\ IsGoal(goal')
      /\ goal'.url = IF navpath # NoUrl THEN navpath ELSE u
  BY GoalUrl DEF Inv
<1>2. goal'.url # NoUrl
  BY <1>1, UrlNotEmpty
<1>3. (navpath # NoUrl => goal.url = navpath)'
  BY <1>1
<1>4. IsGoal(goal)'
  BY <1>1 DEF IsGoal
<1> QED
  BY <1>2, <1>3, <1>4 DEF GoalInv

LEMMA HashChangeGoal ==
  ASSUME Inv, GoalInv, NEW a \in Anchor[location.page] \cup {NoAnchor}, HashChange(a)
  PROVE  GoalInv'
<1> DEFINE u == [location EXCEPT !.anchor = a]
<1>1. u \in Url
  BY DEF Inv, Url
<1>2. UNCHANGED navpath
  BY DEF HashChange
<1>3. goal' = Goal(u) \/ UNCHANGED <<tree, goal, alone>>
  BY Zenon DEF HashChange, Navigate, Toward
<1> HIDE DEF u
<1>4. CASE UNCHANGED <<tree, goal, alone>>
  BY <1>2, <1>4 DEF GoalInv, IsGoal, Navigating
<1> QED
  BY <1>1, <1>2, <1>3, <1>4, NewGoal

LEMMA ClickAnchorGoal == ASSUME Inv, NEW n \in Node, ClickAnchor(n) PROVE GoalInv'
<1>1. Link[n] \in Url
  BY UrlIs, LinkAssumption DEF Inv, ClickAnchor
<1>2. goal' = [way |-> n, url |-> Link[n]] /\ goal'.url # NoUrl /\ IsGoal(goal)'
  BY <1>1, UrlNotEmpty DEF ClickAnchor, Toward, IsGoal
<1>3. (navpath # NoUrl => goal.url = navpath)'
  BY <1>2 DEF ClickAnchor, StoreLink, Inv
<1> QED
  BY <1>2, <1>3 DEF GoalInv

LEMMA ToggleSyncButtonGoal == ASSUME Inv, GoalInv, ToggleSyncButton PROVE GoalInv'
<1>1. /\ UNCHANGED <<tree, goal>>
      /\ alone' /\ goal.url # NoUrl /\ navpath' # NoUrl => navpath' = location /\ goal.url = location
  BY DEF ToggleSyncButton, Inv
<1> QED
  BY <1>1 DEF GoalInv, IsGoal, Navigating

\* A step that is toward the same goal: with none, no script is waited for.
LEMMA SameGoal ==
  ASSUME GoalInv, UNCHANGED <<navpath, goal, alone>>,
         goal.url = NoUrl => tree'.selected = {} /\ ~Navigating(tree')
  PROVE  GoalInv'
  BY DEF GoalInv, IsGoal, Navigating

LEMMA ToggleGoal == ASSUME Inv, GoalInv, NEW n \in Node, Toggle(n) PROVE GoalInv'
<1> DEFINE x == tree.expanded \ {n}
           u == [tree EXCEPT !.expanded = x]
<1>1. UNCHANGED <<navpath, goal, alone>> /\ TreeInv(tree)
  BY DEF Toggle, Inv
<1>2. tree' = u \/ tree' = ExpandNode(tree, n)
  BY <1>1 DEF Toggle, TreeInv, TreeType
<1>3. u.selected = tree.selected /\ u.scripts = tree.scripts /\ u.breadcrumbs = tree.breadcrumbs
  BY <1>1 DEF TreeInv, TreeType
<1> HIDE DEF u
<1>4. u.selected = tree.selected /\ (Navigating(tree) <=> Navigating(u))
  BY <1>3, SameAims
<1>5. /\ ExpandNode(tree, n).selected = tree.selected
      /\ Navigating(tree) <=> Navigating(ExpandNode(tree, n))
  BY <1>1, ExpandNodeAims
<1>6. goal.url = NoUrl => tree.selected = {} /\ ~Navigating(tree)
  BY DEF GoalInv
<1> QED
  BY <1>1, <1>2, <1>4, <1>5, <1>6, SameGoal

LEMMA RetryGoal == ASSUME Inv, GoalInv, Retry PROVE GoalInv'
<1> DEFINE u == [tree EXCEPT !.retry = FALSE]
<1>1. tree' = u /\ UNCHANGED <<navpath, goal, alone>>
  BY DEF Retry
<1>2. u.selected = tree.selected /\ u.scripts = tree.scripts /\ u.breadcrumbs = tree.breadcrumbs
  BY DEF Inv, TreeInv, TreeType
<1> HIDE DEF u
<1>3. Navigating(u) <=> Navigating(tree)
  BY <1>2, SameAims
<1> QED
  BY <1>1, <1>2, <1>3, SameGoal DEF GoalInv

-----------------------------------------------------------------------------
LEMMA InitAlone == Init => AloneInv
  BY DEF Init, AloneInv, Aims, NewTree, Fit, Single, Navigating

LEMMA OpenPageAlone == ASSUME Inv, NEW u \in Url, OpenPage(u) PROVE AloneInv'
<1>1. tree' = NewTree /\ loaded' = FALSE
  BY DEF OpenPage, Document
<1>2. tree'.scripts = <<>> /\ tree'.selected = {}
  BY <1>1 DEF NewTree
<1> QED
  BY <1>1, <1>2 DEF AloneInv, Aims, Fit, Single, Navigating

\* A navigation by navTo from a tree in which nothing else is under way.
LEMMA NavigateAlone ==
  ASSUME Inv, NEW t, TreeInv(t), NEW u \in Url, tree' = NavTo(t, u), goal' = Goal(u),
         alone' => ~Navigating(t) /\ Clear(t.selected, Goal(u)), location'.page = location.page
  PROVE  AloneInv'
<1> SUFFICES ASSUME alone' PROVE Aims(tree, goal)' /\ Done(tree, goal)'
  BY DEF AloneInv
<1>1. Ready(t, Goal(u))
  BY IdleReady
<1>2. Aims(tree', goal') /\ Done(tree', goal')
  BY <1>1, NavToAims DEF Inv
<1>3. Aims(tree, goal)'
  BY <1>2, PageAims
<1>4. Done(tree, goal)'
  BY <1>2 DEF Done, Navigating
<1> QED
  BY <1>3, <1>4

LEMMA WindowLoadAlone == ASSUME Inv, WindowLoad PROVE AloneInv'
<1> DEFINE t == [tree EXCEPT !.retry = TRUE]
<1>1. /\ tree' = NavTo(t, location) /\ goal' = Goal(location) /\ UNCHANGED location
      /\ alone' => ~Navigating(tree) /\ tree.selected = {}
  BY DEF WindowLoad
<1>2. TreeInv(t) /\ location \in Url
  BY RetryKeeps DEF Inv
<1>3. t.selected = tree.selected /\ t.scripts = tree.scripts /\ t.breadcrumbs = tree.breadcrumbs
  BY DEF Inv, TreeInv, TreeType
<1> HIDE DEF t
<1>4. Navigating(t) <=> Navigating(tree)
  BY <1>3, SameAims
<1>5. alone' => ~Navigating(t) /\ Clear(t.selected, Goal(location))
  BY <1>1, <1>3, <1>4 DEF Clear
<1> QED
  BY <1>1, <1>2, <1>5, NavigateAlone

\* What is selected has one link, all of it.
LEMMA OneLink ==
  ASSUME NEW g, Fit(tree.selected, g), NEW m \in tree.selected, NEW k \in tree.selected
  PROVE  Link[k] = Link[m]
  BY DEF Fit

(* What the handler of hashchange keeps, as it has the link that the hash   *)
(* changes to, fits the new goal.                                          *)
LEMMA KeptIsClear ==
  ASSUME Inv, AloneInv, GoalInv, alone, NEW m \in tree.selected, NEW u \in Url,
         Link[m] = u, u.page = location.page, u.anchor # NoAnchor
  PROVE  Clear(tree.selected, Goal(u))
<1> DEFINE S == tree.selected
           g == Goal(u)
<1>1. m \in Node /\ \A k \in S : Link[k] = u
  BY OneLink DEF AloneInv, Aims, Inv, TreeInv, TreeType
<1>2. LET n == Way(PartOf(u), Resolved(u)) IN n \in Node /\ Link[n] = u
  BY <1>1, WayToLink
<1>3. CASE g.url = u
  <2>1. g.way = Way(PartOf(u), Resolved(u))
    BY <1>3 DEF Goal
  <2>2. ByWay(S, g)
    BY <1>1, <1>2, <2>1 DEF ByWay
  <2> QED
    BY <1>3, <2>2 DEF Clear
<1>4. CASE g.url # u
  <2>1. navpath # NoUrl /\ goal.url = navpath /\ g.url = goal.url /\ goal.url \in Url
    BY <1>4, GoalUrl DEF GoalInv, Inv
  <2>2. CASE Namesakes(S, goal)
    BY <2>1, <2>2 DEF Clear, Namesakes
  <2>3. CASE ByWay(S, goal)
    <3>1. Link[goal.way] = u /\ goal.way \in Node
      BY <1>1, <2>3 DEF ByWay
    <3>2. goal.way = Way(PartOf(goal.url), Resolved(goal.url))
      BY <1>4, <2>1, <3>1, UrlNotEmpty DEF GoalInv, IsGoal
    <3>3. goal.url.page = location.page
      BY <2>1, <3>1, <3>2, WayPageAssumption
    <3>4. g.way = goal.way
      BY <2>1, <3>2 DEF Goal
    <3> QED
      BY <2>1, <2>3, <3>3, <3>4 DEF Clear, ByWay
  <2>4. Fit(S, goal) /\ S # {}
    BY DEF AloneInv, Aims
  <2> QED
    BY <2>2, <2>3, <2>4, FitIs
<1> QED
  BY <1>3, <1>4

LEMMA HashChangeAlone ==
  ASSUME Inv, AloneInv, GoalInv, NEW a \in Anchor[location.page] \cup {NoAnchor}, HashChange(a)
  PROVE  AloneInv'
<1> DEFINE u == [location EXCEPT !.anchor = a]
           c == Cleared(tree)
<1>1. u \in Url /\ u.page = location.page /\ u.anchor = a
  BY DEF Inv, Url
<1>2. location' = u /\ UNCHANGED loaded
  BY DEF HashChange
<1>3. \/ Navigate(c, u) \/ UNCHANGED <<tree, goal, alone>>
      \/ a # NoAnchor /\ (\E m \in tree.selected : Link[m] = u) /\ Navigate(tree, u)
  BY Zenon DEF HashChange
<1>4. TreeInv(c) /\ TreeInv(tree) /\ c.selected = {}
  BY ClearedKeeps DEF Inv, Cleared, TreeInv, TreeType
<1>5. location'.page = location.page
  BY <1>1, <1>2
<1> HIDE DEF u, c
<1>6. CASE UNCHANGED <<tree, goal, alone>>
  <2> SUFFICES ASSUME alone' PROVE Aims(tree, goal)' /\ (loaded' => Done(tree, goal)')
    BY DEF AloneInv
  <2>1. Aims(tree', goal') /\ (loaded => Done(tree', goal'))
    BY <1>6, Zenon DEF AloneInv
  <2>2. Aims(tree, goal)'
    BY <1>5, <2>1, PageAims
  <2>3. loaded' => Done(tree, goal)'
    BY <1>2, <2>1 DEF Done, Navigating
  <2> QED
    BY <2>2, <2>3
<1>7. CASE Navigate(c, u)
  <2>1. tree' = NavTo(c, u) /\ goal' = Goal(u) /\ (alone' => ~Navigating(c))
    BY <1>7 DEF Navigate, Toward
  <2> QED
    BY <1>1, <1>4, <1>5, <2>1, NavigateAlone DEF Clear
<1>8. CASE a # NoAnchor /\ (\E m \in tree.selected : Link[m] = u) /\ Navigate(tree, u)
  <2>1. /\ tree' = NavTo(tree, u) /\ goal' = Goal(u)
        /\ alone' => ~Navigating(tree) /\ (alone \/ tree.selected = {})
    BY <1>8 DEF Navigate, Toward
  <2>2. alone' => Clear(tree.selected, Goal(u))
    BY <1>1, <1>8, <2>1, KeptIsClear
  <2> QED
    BY <1>1, <1>4, <1>5, <2>1, <2>2, NavigateAlone
<1> QED
  BY <1>3, <1>6, <1>7, <1>8

LEMMA ClickAnchorAlone == ASSUME Inv, AloneInv, NEW n \in Node, ClickAnchor(n) PROVE AloneInv'
<1> SUFFICES ASSUME alone' PROVE Aims(tree, goal)' /\ Done(tree, goal)'
  BY DEF AloneInv
<1> DEFINE g == [way |-> n, url |-> Link[n]]
           u == [tree EXCEPT !.selected = {n}]
<1>1. /\ UNCHANGED location /\ Toward(g, IF n \in tree.selected THEN tree ELSE Cleared(tree))
      /\ tree' = IF n \in tree.selected THEN tree ELSE u
  BY DEF ClickAnchor
<1>2. goal' = g /\ g.way = n
  BY <1>1 DEF Toward
<1> HIDE DEF g
<1>3. Aims(tree', g) /\ n \in tree'.selected
  <2>1. CASE n \in tree.selected
    <3>1. tree' = tree /\ ~Navigating(tree) /\ alone
      BY <1>1, <2>1 DEF Toward
    <3>2. \A k \in tree.selected : Link[k] = Link[n]
      BY <2>1, <3>1, OneLink DEF AloneInv, Aims
    <3>3. Fit(tree.selected, g)
      BY <1>2, <3>2 DEF Fit
    <3> QED
      BY <2>1, <3>1, <3>3, IdleAims
  <2>2. CASE n \notin tree.selected
    <3>1. u.selected = {n} /\ u.scripts = tree.scripts /\ Cleared(tree).scripts = tree.scripts
      BY DEF Cleared, Inv, TreeInv, TreeType
    <3>2. tree' = u /\ ~Navigating(Cleared(tree))
      BY <1>1, <2>2 DEF Toward
    <3> HIDE DEF u
    <3>3. ~Navigating(u)
      BY <3>1, <3>2, Zenon DEF Navigating
    <3>4. Fit(u.selected, g)
      BY <1>2, <3>1 DEF Fit
    <3> QED
      BY <3>1, <3>2, <3>3, <3>4, IdleAims
  <2> QED
    BY <2>1, <2>2
<1>4. Aims(tree, goal)'
  BY <1>1, <1>2, <1>3, PageAims
<1>5. Done(tree, goal)'
  BY <1>3 DEF Done
<1> QED
  BY <1>4, <1>5

\* A step on the same page and toward the same goal.
LEMMA SameAlone ==
  ASSUME AloneInv, UNCHANGED <<location, loaded, goal>>, alone' => alone,
         Aims(tree, goal) => Aims(tree', goal),
         loaded /\ Aims(tree, goal) /\ Done(tree, goal) => Done(tree', goal)
  PROVE  AloneInv'
<1> SUFFICES ASSUME alone' PROVE Aims(tree, goal)' /\ (loaded' => Done(tree, goal)')
  BY DEF AloneInv
<1>1. Aims(tree', goal') /\ (loaded => Done(tree', goal'))
  BY Zenon DEF AloneInv
<1>2. Aims(tree, goal)'
  BY <1>1, PageAims
<1>3. loaded' => Done(tree, goal)'
  BY <1>1 DEF Done, Navigating
<1> QED
  BY <1>2, <1>3

LEMMA ToggleAlone == ASSUME Inv, AloneInv, NEW n \in Node, Toggle(n) PROVE AloneInv'
<1> DEFINE x == tree.expanded \ {n}
           u == [tree EXCEPT !.expanded = x]
<1>1. UNCHANGED <<location, loaded, goal, alone>>
  BY DEF Toggle
<1>2. TreeInv(tree)
  BY DEF Inv
<1>3. tree' = u \/ tree' = ExpandNode(tree, n)
  BY <1>2 DEF Toggle, TreeInv, TreeType
<1>4. u.selected = tree.selected /\ u.scripts = tree.scripts /\ u.breadcrumbs = tree.breadcrumbs
  BY <1>2 DEF TreeInv, TreeType
<1> HIDE DEF u
<1>5. CASE tree' = u
  <2>1. /\ Aims(tree, goal) => Aims(u, goal)
        /\ Done(tree, goal) => Done(u, goal)
    BY <1>4, SameAims
  <2> QED
    BY <1>1, <1>5, <2>1, SameAlone
<1>6. CASE tree' = ExpandNode(tree, n)
  <2>1. /\ Aims(tree, goal) => Aims(ExpandNode(tree, n), goal)
        /\ ExpandNode(tree, n).selected = tree.selected
        /\ Navigating(tree) => Navigating(ExpandNode(tree, n))
    BY <1>2, ExpandNodeAims
  <2>2. Done(tree, goal) => Done(ExpandNode(tree, n), goal)
    BY <2>1 DEF Done
  <2> QED
    BY <1>1, <1>6, <2>1, <2>2, SameAlone
<1> QED
  BY <1>3, <1>5, <1>6

LEMMA ToggleSyncButtonAlone == ASSUME AloneInv, ToggleSyncButton PROVE AloneInv'
<1>1. UNCHANGED <<tree, location, loaded, goal>> /\ (alone' => alone)
  BY DEF ToggleSyncButton
<1> QED
  BY <1>1, SameAlone

LEMMA RetryAlone == ASSUME Inv, AloneInv, Retry PROVE AloneInv'
<1> DEFINE u == [tree EXCEPT !.retry = FALSE]
<1>1. tree' = u /\ UNCHANGED <<location, loaded, goal, alone>>
  BY DEF Retry
<1>2. u.selected = tree.selected /\ u.scripts = tree.scripts /\ u.breadcrumbs = tree.breadcrumbs
  BY DEF Inv, TreeInv, TreeType
<1> HIDE DEF u
<1>3. (Aims(tree, goal) => Aims(u, goal)) /\ (Done(tree, goal) => Done(u, goal))
  BY <1>2, SameAims
<1> QED
  BY <1>1, <1>3, SameAlone

\* The scripts that are still out when one has arrived.
LEMMA RemovedAims ==
  ASSUME TreeInv(tree), NEW i \in DOMAIN tree.scripts, NEW g
  PROVE  /\ Aims(tree, g) => Aims(Removed(i), g)
         /\ Aims(tree, g) /\ Waits(tree.scripts[i]) => Ready(Removed(i), g)
         /\ ~Waits(tree.scripts[i]) => (Navigating(tree) <=> Navigating(Removed(i)))
<1> DEFINE s == tree.scripts
           q == RemoveAt(s, i)
           t == Removed(i)
<1>1. s \in Seq(Callback(InTree(tree))) /\ Len(s) \in Nat /\ i \in 1 .. Len(s) /\ i \in DOMAIN s
  BY DEF TreeInv
<1>2. /\ q \in Seq(Callback(InTree(tree))) /\ Len(q) = Len(s) - 1
      /\ \A j \in 1 .. Len(s) - 1 : q[j] = IF j < i THEN s[j] ELSE s[j + 1]
  BY <1>1, RemoveIs
<1>3. t.scripts = q /\ t.breadcrumbs = tree.breadcrumbs /\ t.selected = tree.selected
  BY RemovedKeeps
<1> HIDE DEF t, q, s
<1> DEFINE K(j) == IF j < i THEN j ELSE j + 1
<1>4. /\ \A j \in DOMAIN q : K(j) \in DOMAIN s /\ K(j) # i /\ q[j] = s[K(j)]
      /\ \A j, k \in DOMAIN q : K(j) = K(k) => j = k
  <2>1. DOMAIN q = 1 .. Len(s) - 1 /\ DOMAIN s = 1 .. Len(s)
    BY <1>1, <1>2
  <2>2. \A j \in DOMAIN q : K(j) \in DOMAIN s /\ K(j) # i
    BY <1>1, <2>1
  <2>3. \A j \in DOMAIN q : q[j] = s[K(j)]
    BY <1>2, <2>1
  <2>4. \A j, k \in DOMAIN q : K(j) = K(k) => j = k
    BY <1>1, <2>1
  <2> QED
    BY <2>2, <2>3, <2>4
<1> HIDE DEF K
<1>5. ASSUME NEW k \in DOMAIN s, k # i PROVE \E j \in DOMAIN q : q[j] = s[k]
  <2>1. CASE k < i
    <3>1. k \in 1 .. Len(s) - 1 /\ k \in DOMAIN q
      BY <1>1, <1>2, <2>1
    <3> QED
      BY <1>2, <2>1, <3>1
  <2>2. CASE ~ (k < i)
    <3> DEFINE j == k - 1
    <3>1. j \in 1 .. Len(s) - 1 /\ j \in DOMAIN q /\ ~ (j < i) /\ j + 1 = k
      BY <1>1, <1>2, <1>5, <2>2
    <3> HIDE DEF j
    <3> QED
      BY <1>2, <3>1
  <2> QED
    BY <2>1, <2>2
<1>6. Navigating(t) => Navigating(tree)
  BY <1>3, <1>4, Zenon DEF Navigating, s
<1>7. ASSUME Navigating(tree), ~Waits(s[i]) PROVE Navigating(t)
  <2>1. PICK k \in DOMAIN s : Waits(s[k])
    BY <1>7 DEF Navigating, s
  <2>2. k # i
    BY <1>7, <2>1
  <2>3. PICK j \in DOMAIN q : q[j] = s[k]
    BY <1>5, <2>2
  <2> QED
    BY <1>3, <2>1, <2>3, Zenon DEF Navigating
<1>8. ASSUME Aims(tree, g) PROVE Aims(t, g) /\ (Waits(s[i]) => Ready(t, g))
  <2>1. \A j \in DOMAIN q : Goes(q[j], t.breadcrumbs, g)
    BY <1>3, <1>4, <1>8, Zenon DEF Aims, s
  <2>2. Single(t)
    <3> SUFFICES ASSUME NEW j \in DOMAIN q, NEW k \in DOMAIN q, Waits(q[j]), Waits(q[k])
                 PROVE  j = k
      BY <1>3, Zenon DEF Single
    <3>1. K(j) = K(k)
      BY <1>4, <1>8, Zenon DEF Aims, Single, s
    <3> QED
      BY <1>4, <3>1, Zenon
  <2>3. Fit(t.selected, g) /\ (Navigating(t) => Clear(t.selected, g))
    BY <1>3, <1>6, <1>8, Zenon DEF Aims
  <2>4. Aims(t, g)
    BY <1>3, <2>1, <2>2, <2>3, Zenon DEF Aims
  <2>5. ASSUME Waits(s[i]) PROVE ~Navigating(t) /\ Clear(t.selected, g)
    <3>1. Navigating(tree)
      BY <1>1, <2>5, Zenon DEF Navigating, s
    <3>2. \A k \in DOMAIN s : Waits(s[k]) => k = i
      BY <1>8, <2>5, Zenon DEF Aims, Single, s
    <3>3. ~Navigating(t)
      BY <1>3, <1>4, <3>2, Zenon DEF Navigating
    <3> QED
      BY <1>3, <1>8, <3>1, <3>3, Zenon DEF Aims
  <2> QED
    BY <2>4, <2>5 DEF Ready
<1> QED
  BY <1>6, <1>7, <1>8 DEF s, t

(* A script that arrives goes on toward the goal, unless no navigation     *)
(* waits for it.                                                           *)
LEMMA ScriptArrivesAlone ==
  ASSUME Inv, AloneInv, NEW i \in DOMAIN tree.scripts, ScriptArrives(i)
  PROVE  AloneInv'
<1> DEFINE c == tree.scripts[i]
           t == Removed(i)
<1>1. /\ TreeInv(t) /\ TreeInv(tree)
      /\ t.breadcrumbs = tree.breadcrumbs /\ t.selected = tree.selected
  BY RemovedKeeps DEF Inv, Keeps
<1>2. ArrivesTo(i, c) /\ UNCHANGED <<location, loaded, goal, alone>>
  BY <1>1, ScriptArrivesIs
<1>3. Aims(tree, goal) => /\ Goes(c, t.breadcrumbs, goal) /\ Aims(t, goal)
                          /\ Waits(c) => Ready(t, goal)
  BY <1>1, RemovedAims DEF Aims
<1>4. ~Waits(c) => (Navigating(tree) <=> Navigating(t))
  BY <1>1, RemovedAims
<1> HIDE DEF c, t
<1> SUFFICES ASSUME Aims(tree, goal)
             PROVE  Aims(tree', goal) /\ (Done(tree, goal) => Done(tree', goal))
  BY <1>2, SameAlone
<1>5. ASSUME NEW b, Keeps(t, b), b.scripts = t.scripts, b.breadcrumbs = t.breadcrumbs,
             b.selected = t.selected
      PROVE  /\ TreeInv(b) /\ Aims(b, goal) /\ (Navigating(b) <=> Navigating(t))
             /\ Waits(c) => Ready(b, goal)
  BY <1>3, <1>5, SameAims DEF Keeps
<1>6. CASE /\ c.kind = "expand" /\ c.node \in InTree(t) \cap Lazy
           /\ tree' = ExpandNode(Arrive(t, c.node), c.node)
  <2> DEFINE b == Arrive(t, c.node)
  <2>1. /\ Keeps(t, b) /\ b.scripts = t.scripts /\ b.breadcrumbs = t.breadcrumbs
        /\ b.selected = t.selected
    BY <1>1, <1>6, ArriveKeeps
  <2> HIDE DEF b
  <2>2. TreeInv(b) /\ Aims(b, goal) /\ (Navigating(b) <=> Navigating(t))
    BY <1>5, <2>1
  <2>3. /\ Aims(tree', goal) /\ tree'.selected = b.selected
        /\ Navigating(b) <=> Navigating(tree')
    BY <1>6, <2>2, ExpandNodeAims DEF b
  <2>4. ~Waits(c)
    BY <1>6 DEF Waits
  <2> QED
    BY <1>1, <1>4, <2>1, <2>2, <2>3, <2>4, Zenon DEF Done
<1>7. CASE /\ c.kind = "show" /\ c.node \in InTree(t) \cap Lazy
           /\ c.index \in Nat \ {0} /\ c.hash \in Hash
           /\ tree' = ShowNode(Arrive(t, c.node), c.node, c.index, c.hash)
  <2> DEFINE b == Arrive(t, c.node)
  <2>1. /\ Keeps(t, b) /\ b.scripts = t.scripts /\ b.breadcrumbs = t.breadcrumbs
        /\ b.selected = t.selected
    BY <1>1, <1>7, ArriveKeeps
  <2> HIDE DEF b
  <2>2. TreeInv(b) /\ Ready(b, goal) /\ c.node \in InTree(b)
    BY <1>5, <1>7, <2>1 DEF Keeps, Waits
  <2>3. OnTheWay(c.node, c.index, b.breadcrumbs, goal) /\ HashFits(c.hash, goal)
    BY <1>3, <1>7, <2>1 DEF Goes
  <2> QED
    BY <1>7, <2>2, <2>3, ShowNodeAims DEF b
<1>8. CASE /\ c.kind = "child" /\ c.node \in InTree(t) /\ c.leaf \in Lazy
           /\ c.index \in Nat \ {0} /\ c.hash \in Hash
           /\ tree' = ShowNode(ArriveBelow(t, c.leaf, c.node), c.node, c.index, c.hash)
  <2> DEFINE b == ArriveBelow(t, c.leaf, c.node)
  <2>1. /\ Keeps(t, b) /\ b.scripts = t.scripts /\ b.breadcrumbs = t.breadcrumbs
        /\ b.selected = t.selected
    BY <1>1, <1>8, ArriveKeeps
  <2> HIDE DEF b
  <2>2. TreeInv(b) /\ Ready(b, goal) /\ c.node \in InTree(b)
    BY <1>5, <1>8, <2>1 DEF Keeps, Waits
  <2>3. OnTheWay(c.node, c.index, b.breadcrumbs, goal) /\ HashFits(c.hash, goal)
    BY <1>3, <1>8, <2>1 DEF Goes
  <2> QED
    BY <1>8, <2>2, <2>3, ShowNodeAims DEF b
<1>9. CASE /\ c.kind = "index" /\ c.part \in DOMAIN Index
           /\ c.url \in [page : Page \cup {MainPage}, anchor : Hash]
           /\ tree' = GotoNode(Listed(t, c.part), c.part, c.url)
  <2> DEFINE b == Listed(t, c.part)
  <2>1. /\ Keeps(t, b) /\ b.scripts = t.scripts /\ b.breadcrumbs = t.breadcrumbs
        /\ b.selected = t.selected
    BY <1>1, <1>9, ListedKeeps
  <2> HIDE DEF b
  <2>2. TreeInv(b) /\ Ready(b, goal) /\ c.url.anchor \in Hash
    BY <1>5, <1>9, <2>1 DEF Waits
  <2>3. Way(c.part, c.url) = goal.way /\ HashFits(c.url.anchor, goal)
    BY <1>3, <1>9 DEF Goes
  <2> QED
    BY <1>9, <2>2, <2>3, GotoNodeAims DEF b
<1> QED
  BY <1>2, <1>6, <1>7, <1>8, <1>9, Zenon DEF ArrivesTo, t

LEMMA ScriptArrivesGoal ==
  ASSUME Inv, GoalInv, NEW i \in DOMAIN tree.scripts, ScriptArrives(i)
  PROVE  GoalInv'
<1> DEFINE c == tree.scripts[i]
           t == Removed(i)
<1>1. TreeInv(t) /\ TreeInv(tree) /\ t.selected = tree.selected
  BY RemovedKeeps DEF Inv, Keeps
<1>2. ArrivesTo(i, c) /\ UNCHANGED <<navpath, goal, alone>>
  BY <1>1, ScriptArrivesIs
<1>3. ~Waits(c) => (Navigating(tree) <=> Navigating(t))
  BY <1>1, RemovedAims
<1>4. Waits(c) => Navigating(tree)
  BY Zenon DEF Navigating
<1> HIDE DEF c, t
<1>5. ASSUME goal.url = NoUrl PROVE tree'.selected = {} /\ ~Navigating(tree')
  <2>1. tree.selected = {} /\ ~Navigating(tree)
    BY <1>5 DEF GoalInv
  <2>2. ~Waits(c) /\ ~Navigating(t)
    BY <1>3, <1>4, <2>1
  <2>3. c.node \in InTree(t) \cap Lazy /\ tree' = ExpandNode(Arrive(t, c.node), c.node)
    BY <1>2, <2>2 DEF ArrivesTo, Waits, t
  <2> DEFINE b == Arrive(t, c.node)
  <2>4. /\ Keeps(t, b) /\ b.scripts = t.scripts /\ b.breadcrumbs = t.breadcrumbs
        /\ b.selected = t.selected
    BY <1>1, <2>3, ArriveKeeps
  <2> HIDE DEF b
  <2>5. TreeInv(b) /\ ~Navigating(b)
    BY <2>2, <2>4, SameAims DEF Keeps
  <2>6. tree'.selected = b.selected /\ (Navigating(b) <=> Navigating(tree'))
    BY <2>3, <2>5, ExpandNodeAims DEF b
  <2> QED
    BY <1>1, <2>1, <2>4, <2>5, <2>6
<1> QED
  BY <1>2, <1>5, SameGoal

LEMMA NextAlone == Inv /\ GoalInv /\ AloneInv /\ [Next]_vars => GoalInv' /\ AloneInv'
<1> SUFFICES ASSUME Inv, GoalInv, AloneInv, [Next]_vars PROVE GoalInv' /\ AloneInv'
  OBVIOUS
<1>1. ASSUME NEW u \in Url, OpenPage(u) PROVE GoalInv' /\ AloneInv'
  BY <1>1, OpenPageGoal, OpenPageAlone
<1>2. ASSUME NEW a \in Anchor[location.page] \cup {NoAnchor}, HashChange(a)
      PROVE  GoalInv' /\ AloneInv'
  BY <1>2, HashChangeGoal, HashChangeAlone
<1>3. ASSUME NEW n \in Node, ClickAnchor(n) \/ Toggle(n) PROVE GoalInv' /\ AloneInv'
  BY <1>3, ClickAnchorGoal, ToggleGoal, ClickAnchorAlone, ToggleAlone
<1>4. CASE ToggleSyncButton
  BY <1>4, ToggleSyncButtonGoal, ToggleSyncButtonAlone
<1>5. CASE WindowLoad
  <2>1. location \in Url /\ goal' = Goal(location) /\ UNCHANGED navpath
    BY <1>5 DEF WindowLoad, Inv
  <2> QED
    BY <1>5, <2>1, NewGoal, WindowLoadAlone
<1>6. CASE Retry
  BY <1>6, RetryGoal, RetryAlone
<1>7. ASSUME NEW i \in DOMAIN tree.scripts, ScriptArrives(i) PROVE GoalInv' /\ AloneInv'
  BY <1>7, ScriptArrivesGoal, ScriptArrivesAlone
<1>8. CASE UNCHANGED vars
  <2>1. UNCHANGED <<tree, location, loaded, navpath, goal, alone>>
    BY <1>8 DEF vars
  <2>2. goal.url = NoUrl => tree'.selected = {} /\ ~Navigating(tree')
    BY <2>1, Zenon DEF GoalInv
  <2> QED
    BY <2>1, <2>2, SameGoal, SameAlone
<1> QED
  BY <1>1, <1>2, <1>3, <1>4, <1>5, <1>6, <1>7, <1>8 DEF Next, User

(* An item is selected once the scripts are here, and what is selected     *)
(* belongs to the link navigated to, in whatever order they and those of   *)
(* the arrows arrived: unless a navigation began before another was done,  *)
(* the page's load came with an item selected already, or the tree was     *)
(* told to stay on the document's URL while it was at another one, and no  *)
(* navigation has cleared the selection since.                             *)
THEOREM SelectionCorrect == Spec => []SelectionFollows
<1>1. AloneInv => SelectionFollows
  BY DEF AloneInv, Aims, Done, SelectionFollows
<1>2. Spec => [](GoalInv /\ AloneInv)
  BY InitGoal, InitAlone, NextAlone, SpecInv, PTL DEF Spec
<1> QED
  BY <1>1, <1>2, PTL
=============================================================================
