----------------------------- MODULE DomainTree -----------------------------
(***************************************************************************)
(* Trees of domain names (g53/domaintree, and cement/domaintree around     *)
(* it): the names of one level under a common ancestor are the nodes of a  *)
(* red-black tree, every node has a tree of the level below in "down", and *)
(* holds the part of its name under its ancestor.                          *)
(*                                                                         *)
(* The nodes are a function from their places to their fields; place 0 is  *)
(* NULL_NODE, which the code shares and may write to.  A call ends with    *)
(* the places numbered afresh, so that trees of the same shape are the     *)
(* same state.  "up" stands for a pointer to a root: of the level below    *)
(* node up, or of the whole tree when up is 0.                             *)
(***************************************************************************)
EXTENDS DnsNames, TLC

CONSTANTS
  DtNames,     \* the names a caller uses
  DtFlags,     \* those of them it flags
  DtFollowLate \* bound: whether a tree is followed once the root was put above other names

VARIABLES
  dtTree,      \* [h, root, count, panic]
  dtData,      \* history: the names that were given data and not removed
  dtFlagged,   \* history: those of them that were flagged
  dtLate       \* history: the root was put above other names

dtVars == <<dtTree, dtData, dtFlagged, dtLate>>

NULL_NODE == 0
NullNode == [parent |-> 0, left |-> 0, right |-> 0, color |-> "BLACK", down |-> 0,
             name |-> <<>>, data |-> FALSE, flag |-> FALSE]
NewNode(n) == [NullNode EXCEPT !.color = "RED", !.name = n]
EmptyTree == [h |-> 0 :> NullNode, root |-> NULL_NODE, count |-> 0, panic |-> FALSE]

Put(t, i, f, v) == [t EXCEPT !.h[i][f] = v]
PutAll(t, writes) == FoldLeft(LAMBDA u, w : Put(u, w[1], w[2], w[3]), t, writes)
If(c, writes) == IF c THEN writes ELSE <<>>
Opposite(side) == IF side = "left" THEN "right" ELSE "left"
RootAt(t, up) == IF up = 0 THEN t.root ELSE t.h[up].down
PutRoot(t, up, n) == IF up = 0 THEN [t EXCEPT !.root = n] ELSE Put(t, up, "down", n)
IsEmptyNode(x) == ~x.data
IsLeaf(x) == x.down = NULL_NODE

-----------------------------------------------------------------------------
(* leftRotate (side "left") and rightRotate (side "right"). *)
RotateNode(t, n, c, p, side) ==
  PutAll(t, <<<<n, Opposite(side), t.h[c][side]>>, <<c, "parent", p>>, <<c, side, n>>, <<n, "parent", c>>>>
              \o If(t.h[c][side] # NULL_NODE, <<<<t.h[c][side], "parent", n>>>>)
              \o If(p # NULL_NODE, <<<<p, IF t.h[p][side] = n THEN side ELSE Opposite(side), c>>>>))
rotate(t, up, n, side) ==
  LET u == RotateNode(t, n, t.h[n][Opposite(side)], t.h[n].parent, side) IN
  IF t.h[n].parent = NULL_NODE THEN PutRoot(u, up, t.h[n][Opposite(side)]) ELSE u

(* A red parent whose sibling is black: the node is first brought to the   *)
(* outer side, then its parent takes the place of its grandparent.         *)
RotateOuter(t, up, n, side) ==
  LET u == PutAll(t, <<<<t.h[n].parent, "color", "BLACK">>, <<t.h[t.h[n].parent].parent, "color", "RED">>>>) IN
  rotate(u, up, t.h[t.h[n].parent].parent, Opposite(side))
RotateInner(t, up, n, p, side) ==
  IF n = t.h[p][Opposite(side)] THEN RotateOuter(rotate(t, up, p, side), up, p, side) ELSE RotateOuter(t, up, n, side)

RECURSIVE insertRebalance(_, _, _)
Recolor(t, up, n, p, g, side) ==
  IF t.h[t.h[g][Opposite(side)]].color = "RED"
  THEN insertRebalance(PutAll(t, <<<<p, "color", "BLACK">>, <<t.h[g][Opposite(side)], "color", "BLACK">>,
                                   <<g, "color", "RED">>>>), up, g)
  ELSE insertRebalance(RotateInner(t, up, n, p, side), up, IF n = t.h[p][Opposite(side)] THEN p ELSE n)
Rebalance(t, up, n, p, g) == Recolor(t, up, n, p, g, IF p = t.h[g].left THEN "left" ELSE "right")
insertRebalance(t, up, n) ==
  IF n = RootAt(t, up) \/ t.h[t.h[n].parent].color # "RED"
  THEN Put(t, RootAt(t, up), "color", "BLACK")
  ELSE Rebalance(t, up, n, t.h[n].parent, t.h[t.h[n].parent].parent)

-----------------------------------------------------------------------------
(* nodeFission: a node keeps the ancestor's name, and a new node below it  *)
(* takes the rest, the data, the flag and the levels below.                *)
NewPlace(t) == Max(DOMAIN t.h) + 1
AddNode(t, x) == [t EXCEPT !.h = @ @@ (NewPlace(t) :> x), !.count = @ + 1]
(* Variant: the flag stays at the ancestor. *)
FissionKeepsFlag(t, old, base) ==
  PutAll(AddNode(t, [NewNode(Subtract(t.h[old].name, base).name) EXCEPT
                       !.data = t.h[old].data, !.down = t.h[old].down, !.color = "BLACK"]),
         <<<<old, "name", base>>, <<old, "data", FALSE>>, <<old, "down", NewPlace(t)>>>>)
nodeFission(t, old, base) ==
  PutAll(AddNode(t, [NewNode(Subtract(t.h[old].name, base).name) EXCEPT
                       !.data = t.h[old].data, !.flag = t.h[old].flag, !.down = t.h[old].down, !.color = "BLACK"]),
         <<<<old, "name", base>>, <<old, "data", FALSE>>, <<old, "flag", FALSE>>, <<old, "down", NewPlace(t)>>>>)

insertRoot(t) ==
  IF t.root # NULL_NODE /\ IsRoot(t.h[t.root].name) THEN [tree |-> t, node |-> t.root]
  ELSE LET u == AddNode(t, [NewNode(<<>>) EXCEPT !.color = "BLACK", !.down = t.root]) IN
       [node |-> NewPlace(t),
        tree |-> [PutAll(u, If(t.root # NULL_NODE, <<<<t.root, "parent", NewPlace(t)>>, <<t.root, "color", "BLACK">>>>))
                    EXCEPT !.root = NewPlace(t)]]

(* The new node under its parent, or as the only one of its level. *)
LinkNode(t, name, up, parent, order) ==
  LET u == AddNode(t, [NewNode(name) EXCEPT !.parent = parent]) IN
  IF parent = NULL_NODE THEN Put(PutRoot(u, up, NewPlace(t)), NewPlace(t), "color", "BLACK")
  ELSE Put(u, parent, IF order < 0 THEN "left" ELSE "right", NewPlace(t))

RECURSIVE InsertFrom(_, _, _, _, _, _, _)
InsertCompared(t, name, cur, parent, up, first, c) ==
  CASE c.rel = "EQUAL" -> [tree |-> t, node |-> cur]
    [] c.rel = "SUBDOMAIN" -> InsertFrom(t, Subtract(name, t.h[cur].name).name, t.h[cur].down, NULL_NODE, cur, FALSE, -1)
    [] c.rel \notin {"EQUAL", "SUBDOMAIN"} /\ (c.common > 1 \/ first) ->
         InsertFrom(nodeFission(t, cur, Split(name, LabelCount(name) - c.common, c.common).name),
                    name, cur, parent, up, FALSE, -1)
    [] OTHER -> InsertFrom(t, name, IF c.order < 0 THEN t.h[cur].left ELSE t.h[cur].right, cur, up, FALSE, c.order)
InsertFrom(t, name, cur, parent, up, first, order) ==
  IF cur = NULL_NODE
  THEN [tree |-> insertRebalance(LinkNode(t, name, up, parent, order), up, NewPlace(t)), node |-> NewPlace(t)]
  ELSE InsertCompared(t, name, cur, parent, up, first, CompareNames(name, t.h[cur].name))

InsertNode(t, name) ==
  IF IsRoot(name) THEN insertRoot(t) ELSE InsertFrom(t, name, t.root, NULL_NODE, NULL_NODE, TRUE, -1)

-----------------------------------------------------------------------------
(* SearchExt: the node found, how well it fits, the nodes on the way and    *)
(* the last comparison; a callback that returns true ends the search.       *)
Found(target, ret, path, last) == [target |-> target, ret |-> ret, path |-> path, last |-> last]
Visible(x, empty) == empty \/ ~IsEmptyNode(x)

RECURSIVE SearchFrom(_, _, _, _, _, _)
SearchCompared(t, name, n, empty, callback, s) ==
  CASE s.last.rel = "EQUAL" ->
         IF Visible(t.h[n], empty) THEN Found(n, "ExactMatch", Append(s.path, n), s.last) ELSE s
    [] s.last.rel # "EQUAL" /\ s.last.common = 1 /\ ~IsRoot(t.h[n].name) ->
         SearchFrom(t, name, IF s.last.order < 0 THEN t.h[n].left ELSE t.h[n].right, empty, callback, s)
    [] s.last.rel = "SUBDOMAIN" /\ (s.last.common > 1 \/ IsRoot(t.h[n].name)) ->
         LET f == IF Visible(t.h[n], empty) THEN Found(n, "PartialMatch", s.path, s.last) ELSE s IN
         IF Visible(t.h[n], empty) /\ callback /\ t.h[n].flag THEN f
         ELSE SearchFrom(t, Subtract(name, t.h[n].name).name, t.h[n].down, empty, callback,
                         [f EXCEPT !.path = Append(@, n)])
    [] OTHER -> s
SearchFrom(t, name, n, empty, callback, s) ==
  IF n = NULL_NODE THEN s
  ELSE SearchCompared(t, name, n, empty, callback, [s EXCEPT !.last = CompareNames(name, t.h[n].name)])

SearchExt(t, name, empty, callback) ==
  SearchFrom(t, name, t.root, empty, callback, Found(NULL_NODE, "NotFound", <<>>, [rel |-> "none"]))

(* cement's Search: the absolute name of what was found. *)
GetAbsoluteName(t, path) == FlattenSeq([i \in DOMAIN path |-> t.h[path[Len(path) - i + 1]].name])
SearchName(t, name) ==
  LET f == SearchExt(t, name, FALSE, FALSE) IN
  IF f.ret = "NotFound" THEN NotNamed
  ELSE Named(GetAbsoluteName(t, SubSeq(f.path, 1, CHOOSE i \in DOMAIN f.path : f.path[i] = f.target)))

-----------------------------------------------------------------------------
(* Remove: a node with names below it only loses its data; another leaves   *)
(* its tree, and with it the empty nodes above that hold nothing else.      *)
connectChild(t, at, old, new, upper) ==
  IF at = NULL_NODE /\ upper = NULL_NODE THEN [t EXCEPT !.root = new]
  ELSE LET c == IF at = NULL_NODE THEN upper ELSE at IN
       Put(t, c, IF t.h[c].left = old THEN "left" ELSE IF t.h[c].right = old THEN "right" ELSE "down", new)

(* exchange: node takes the place of lower, the last before it on its level. *)
Other(x, l, n) == IF x = l THEN n ELSE x
SwapFields(t, n, l) ==
  [t EXCEPT !.h[n] = [@ EXCEPT !.left = t.h[l].left, !.right = t.h[l].right, !.color = t.h[l].color,
                               !.parent = Other(t.h[l].parent, n, l)],
            !.h[l] = [@ EXCEPT !.left = Other(t.h[n].left, l, n), !.right = Other(t.h[n].right, l, n),
                               !.color = t.h[n].color, !.parent = t.h[n].parent]]
Relink(t, n, l) ==
  LET p == t.h[n].parent IN
  PutAll(t, If(t.h[p].left = l, <<<<p, "left", n>>>>) \o If(t.h[p].left # l /\ t.h[p].right = l, <<<<p, "right", n>>>>)
            \o If(t.h[l].right # NULL_NODE, <<<<t.h[l].right, "parent", l>>>>)
            \o If(t.h[l].left # NULL_NODE, <<<<t.h[l].left, "parent", l>>>>))
exchange(t, n, l, upper) ==
  Relink(connectChild(SwapFields(t, n, l), t.h[n].parent, n, l, upper), n, l)

RECURSIVE RightMost(_, _)
RightMost(t, n) == IF t.h[n].right = NULL_NODE THEN n ELSE RightMost(t, t.h[n].right)

getSibling(t, parent, child) == IF t.h[parent].left = child THEN t.h[parent].right ELSE t.h[parent].left
SideOf(t, parent, child) == IF t.h[parent].left = child THEN "left" ELSE "right"
PanicAt(t) == [t EXCEPT !.panic = TRUE]

(* removeRebalance: the side of child lacks a black node. *)
RECURSIVE removeRebalance(_, _, _, _)
LastRotation(t, up, parent, side, sib) ==
  rotate(PutAll(t, <<<<sib, "color", t.h[parent].color>>, <<parent, "color", "BLACK">>,
                     <<t.h[sib][Opposite(side)], "color", "BLACK">>>>), up, parent, side)
InnerRotation(t, up, parent, side, sib) ==
  IF t.h[t.h[sib][Opposite(side)]].color = "RED" THEN LastRotation(t, up, parent, side, sib)
  ELSE LET u == rotate(PutAll(t, <<<<sib, "color", "RED">>, <<t.h[sib][side], "color", "BLACK">>>>), up, sib, Opposite(side)) IN
       LastRotation(u, up, parent, side, t.h[sib][side])
BlackSibling(t, up, child, parent, sib) ==
  IF sib = NULL_NODE \/ t.h[sib].color # "BLACK" THEN PanicAt(t)
  ELSE IF t.h[t.h[sib].left].color = "BLACK" /\ t.h[t.h[sib].right].color = "BLACK"
  THEN IF t.h[parent].color = "BLACK" THEN removeRebalance(Put(t, sib, "color", "RED"), up, parent, t.h[parent].parent)
       ELSE PutAll(t, <<<<sib, "color", "RED">>, <<parent, "color", "BLACK">>>>)
  ELSE InnerRotation(t, up, parent, SideOf(t, parent, child), sib)
RedSibling(t, up, child, parent, sib) ==
  LET u == rotate(PutAll(t, <<<<parent, "color", "RED">>, <<sib, "color", "BLACK">>>>), up, parent, SideOf(t, parent, child)) IN
  BlackSibling(u, up, child, parent, getSibling(u, parent, child))
removeRebalance(t, up, child, parent) ==
  IF parent = NULL_NODE THEN t
  ELSE IF getSibling(t, parent, child) = NULL_NODE THEN PanicAt(t)
  ELSE IF t.h[getSibling(t, parent, child)].color = "RED"
  THEN RedSibling(t, up, child, parent, getSibling(t, parent, child))
  ELSE BlackSibling(t, up, child, parent, getSibling(t, parent, child))

UnlinkChild(t, node, child, upper) ==
  LET u == connectChild(t, t.h[node].parent, node, child, upper) IN
  IF child = NULL_NODE THEN u ELSE Put(u, child, "parent", u.h[node].parent)
Rebalanced(t, node, child, upper) ==
  IF t.h[node].color # "BLACK" THEN t
  ELSE IF child # NULL_NODE /\ t.h[child].color = "RED" THEN Put(t, child, "color", "BLACK")
  ELSE removeRebalance(t, upper, child, t.h[node].parent)
Unlink(t, node, upper) ==
  LET child == IF t.h[node].right # NULL_NODE THEN t.h[node].right ELSE t.h[node].left IN
  [Rebalanced(UnlinkChild(t, node, child, upper), node, child, upper) EXCEPT !.count = @ - 1]
Detach(t, node, upper) ==
  IF t.h[node].left # NULL_NODE /\ t.h[node].right # NULL_NODE
  THEN Unlink(exchange(t, node, RightMost(t, t.h[node].left), upper), node, upper)
  ELSE Unlink(t, node, upper)

RECURSIVE RemoveUp(_, _)
RemoveAbove(t, path) ==
  IF t.panic \/ path = <<>> \/ t.h[Last(path)].down # NULL_NODE \/ ~IsEmptyNode(t.h[Last(path)]) THEN t
  ELSE RemoveUp(t, path)
RemoveUp(t, path) ==
  RemoveAbove(Detach(t, Last(path), IF Len(path) = 1 THEN NULL_NODE ELSE path[Len(path) - 1]), Front(path))

RemoveFound(t, f) ==
  IF f.ret # "ExactMatch" THEN t
  ELSE IF ~IsLeaf(t.h[f.target]) THEN Put(t, f.target, "data", FALSE)
  ELSE RemoveUp(t, f.path)

-----------------------------------------------------------------------------
(* nextNode: the path to the next node, the empty path at the end. *)
RECURSIVE LeftMost(_, _)
LeftMost(t, n) == IF t.h[n].left = NULL_NODE THEN n ELSE LeftMost(t, t.h[n].left)
RECURSIVE FirstLeftBranch(_, _)
FirstLeftBranch(t, n) ==
  IF t.h[n].parent # NULL_NODE /\ n = t.h[t.h[n].parent].right THEN FirstLeftBranch(t, t.h[n].parent) ELSE t.h[n].parent
successor(t, n) == IF t.h[n].right # NULL_NODE THEN LeftMost(t, t.h[n].right) ELSE FirstLeftBranch(t, n)
RECURSIVE NextAbove(_, _)
NextAbove(t, path) ==
  IF path = <<>> THEN <<>>
  ELSE IF successor(t, Last(path)) # NULL_NODE THEN Append(Front(path), successor(t, Last(path)))
  ELSE NextAbove(t, Front(path))
nextNode(t, path) ==
  IF t.h[Last(path)].down # NULL_NODE THEN Append(path, LeftMost(t, t.h[Last(path)].down)) ELSE NextAbove(t, path)

RECURSIVE NamesFrom(_, _, _)
NamesFrom(t, path, names) ==
  IF path = <<>> THEN names ELSE NamesFrom(t, nextNode(t, path), Append(names, GetAbsoluteName(t, path)))

(* forEachExHelper: every node with its absolute name. *)
RECURSIVE ForEachEx(_, _, _)
ForEachEx(t, n, above) ==
  IF n = NULL_NODE THEN {}
  ELSE {<<t.h[n].name \o above, n>>} \cup ForEachEx(t, t.h[n].left, above) \cup ForEachEx(t, t.h[n].right, above)
         \cup ForEachEx(t, t.h[n].down, t.h[n].name \o above)

-----------------------------------------------------------------------------
(* The places of the nodes that can be reached, and the tree with its nodes *)
(* at 1, 2, ... in that order.                                              *)
RECURSIVE Places(_, _, _)
Places(t, n, seen) ==
  IF n = NULL_NODE \/ n \in ToSet(seen) THEN seen
  ELSE Places(t, t.h[n].down, Places(t, t.h[n].right, Places(t, t.h[n].left, Append(seen, n))))
Renumber(t, ps) ==
  LET to(n) == IF n \in ToSet(ps) THEN CHOOSE i \in DOMAIN ps : ps[i] = n ELSE NULL_NODE IN
  [t EXCEPT !.root = to(t.root),
            !.h = [i \in 0..Len(ps) |->
                     LET x == IF i = 0 THEN t.h[0] ELSE t.h[ps[i]] IN
                     [x EXCEPT !.parent = to(@), !.left = to(@), !.right = to(@), !.down = to(@)]]]
Tidy(t) == Renumber(t, Places(t, t.root, <<>>))

-----------------------------------------------------------------------------
DtInit == dtTree = EmptyTree /\ dtData = {} /\ dtFlagged = {} /\ dtLate = FALSE

(* cement's Insert: the data of an existing node are replaced. *)
Insert(name) ==
  /\ dtTree' = LET r == InsertNode(dtTree, name) IN Tidy(Put(r.tree, r.node, "data", TRUE))
  /\ dtData' = dtData \cup {name}
  /\ dtLate' = (dtLate \/ (IsRoot(name) /\ dtTree.root # NULL_NODE /\ ~IsRoot(dtTree.h[dtTree.root].name)))
  /\ UNCHANGED dtFlagged

RemoveName(name) ==
  /\ dtTree' = Tidy(RemoveFound(dtTree, SearchExt(dtTree, name, FALSE, FALSE)))
  /\ dtData' = dtData \ {name}
  /\ dtFlagged' = dtFlagged \ {name}
  /\ UNCHANGED dtLate

(* A caller flags a node it has found. *)
SetFlag(name) ==
  LET f == SearchExt(dtTree, name, FALSE, FALSE) IN
  /\ f.ret = "ExactMatch"
  /\ dtTree' = Put(dtTree, f.target, "flag", TRUE)
  /\ dtFlagged' = dtFlagged \cup {name}
  /\ UNCHANGED <<dtData, dtLate>>

Clean == dtTree' = EmptyTree /\ dtData' = {} /\ dtFlagged' = {} /\ dtLate' = FALSE

DtNext ==
  /\ ~dtTree.panic /\ (dtLate => DtFollowLate)
  /\ \/ \E name \in DtNames : Insert(name) \/ RemoveName(name)
     \/ \E name \in DtFlags : SetFlag(name)
     \/ Clean
DtSpec == DtInit /\ [][DtNext]_dtVars

-----------------------------------------------------------------------------
IsUnder(n, m) == IsSuffix(m, n)
Enclosers(n, names) == {m \in names : IsUnder(n, m)}
Closest(n, names) ==
  IF Enclosers(n, names) = {} THEN NotNamed
  ELSE Named(CHOOSE m \in Enclosers(n, names) : \A k \in Enclosers(n, names) : Len(k) <= Len(m))

(* The black nodes from n down to the end of its level, or -1 when two      *)
(* ways differ, or a red node has a red child, or a parent is wrong.        *)
RECURSIVE BlackHeight(_, _, _)
BlackHeight(t, n, parent) ==
  IF n = NULL_NODE THEN 0
  ELSE LET l == BlackHeight(t, t.h[n].left, n) IN
       IF \/ l = -1 \/ l # BlackHeight(t, t.h[n].right, n)
          \/ t.h[n].parent # parent
          \/ t.h[n].color = "RED" /\ t.h[parent].color = "RED"
       THEN -1 ELSE l + (IF t.h[n].color = "BLACK" THEN 1 ELSE 0)

(* What the names in the tree are does not depend on how it was built: a    *)
(* search finds the name or the closest one above it that was inserted and  *)
(* not removed, the walks list every name, in the order of names, no flag   *)
(* is lost when nodes are split, the levels stay balanced and no call       *)
(* panics.  Insertions of the root above other names are left out.          *)
DtAgrees ==
  ~dtLate =>
    LET t == dtTree IN
    LET nodes == ForEachEx(t, t.root, <<>>) IN
    /\ ~t.panic
    /\ \A n \in DtNames : SearchName(t, n) = Closest(n, dtData)
    /\ \A n \in DtNames : LET f == SearchExt(t, n, TRUE, FALSE) IN
         /\ (f.ret = "NotFound") = (Enclosers(n, {x[1] : x \in nodes}) = {})
         /\ f.ret # "NotFound" => <<Closest(n, {x[1] : x \in nodes}).name, f.target>> \in nodes
         /\ (f.ret # "ExactMatch" /\ ~IsRoot(n)) =>
              ((f.last.rel = "SUPERDOMAIN") <=> (\E m \in dtData : m # n /\ IsUnder(m, n)))
    /\ \A n \in DtNames : LET cuts == {m \in dtFlagged : m # n /\ IsUnder(n, m)} IN
         \A m \in cuts : \E x \in nodes : /\ x[2] = SearchExt(t, n, FALSE, TRUE).target
                                          /\ IsUnder(m, x[1])
    /\ {x[1] : x \in {y \in nodes : t.h[y[2]].data}} = dtData
    /\ t.count = Cardinality(nodes)
    /\ BlackHeight(t, t.root, NULL_NODE) # -1
    /\ \A x \in nodes : BlackHeight(t, t.h[x[2]].down, NULL_NODE) # -1
    /\ t.root # NULL_NODE =>
         LET all == NamesFrom(t, <<t.root>>, <<>>) IN
         /\ ToSet(all) = {x[1] : x \in nodes}
         /\ \A i \in 1..(Len(all) - 1) : CompareNames(all[i], all[i + 1]).order < 0

(* "sibling can`t be null node when remove rebalance": removeRebalance       *)
(* always finds the node it expects next to the one that left.              *)
DtNoPanic == ~dtTree.panic
=============================================================================
