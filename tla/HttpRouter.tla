----------------------------- MODULE HttpRouter -----------------------------
(***************************************************************************)
(* The router of the REST servers (cement/httprouter): a radix tree of     *)
(* routes for every method, built while the server starts, and the way a   *)
(* request is answered from it, redirected or refused.                     *)
(*                                                                         *)
(* A path is a sequence of characters, each one byte long.  The handle of  *)
(* a route is the route, in a tuple; << >> is nil.                         *)
(***************************************************************************)
EXTENDS Integers, Sequences, FiniteSets, SequencesExt, FiniteSetsExt

CONSTANTS
    RtRoutes,    \* what may be registered: [method, path]
    RtPaths,     \* the paths of requests
    RtUpper,     \* the upper case letters, each with its lower case
    RtAdds       \* routes registered (bound)

VARIABLES
    rtTrees,     \* Router.trees
    rtAdded,     \* the routes registered
    rtFailed     \* a registration panicked, which ends the program

rtVars == <<rtTrees, rtAdded, rtFailed>>

Bind(x, op(_)) == op(x)

Drop(s, n) == SubSeq(s, n + 1, Len(s))

Take(s, n) == SubSeq(s, 1, n)

ToLower(s) == [i \in DOMAIN s |-> IF s[i] \in DOMAIN RtUpper THEN RtUpper[s[i]] ELSE s[i]]

ToUpper(c) == IF \E u \in DOMAIN RtUpper : RtUpper[u] = c THEN CHOOSE u \in DOMAIN RtUpper : RtUpper[u] = c ELSE c

Slash == <<"/">>

Ends(s, c) == s # << >> /\ Last(s) = c

(* Where c is for the first time, or the place after the end.                *)
Until(s, c) == Min({i \in DOMAIN s : s[i] = c} \cup {Len(s) + 1})

-----------------------------------------------------------------------------
(* The tree.                                                                 *)

Wild == {":", "*"}

countParams(path) == Min({255, Cardinality({i \in DOMAIN path : path[i] \in Wild})})

NewNode == [path |-> << >>, wildChild |-> FALSE, nType |-> "static", maxParams |-> 0, indices |-> << >>,
            children |-> << >>, handle |-> << >>, priority |-> 0]

Grown(node) == [node |-> node, ok |-> TRUE]

Panic == [node |-> NewNode, ok |-> FALSE]

(* Where the child at pos goes, and the node with the child moved there.     *)
NewPos(n, pos) ==
    Min({p \in 1..pos : \A q \in p..(pos - 1) : n.children[q].priority < n.children[pos].priority + 1})

Moved(s, pos, to) == Take(s, to - 1) \o <<s[pos]>> \o SubSeq(s, to, pos - 1) \o Drop(s, pos)

(* Variant: the characters are left in the order they came in.               *)
IncrementPrioOnly(n, pos) ==
    [n EXCEPT !.children = Moved([@ EXCEPT ![pos].priority = @ + 1], pos, NewPos(n, pos))]

incrementChildPrio(n, pos) ==
    [n EXCEPT !.children = Moved([@ EXCEPT ![pos].priority = @ + 1], pos, NewPos(n, pos)),
              !.indices = Moved(@, pos, NewPos(n, pos))]

(* The rest of a path below a node, wildcard by wildcard.                    *)
RECURSIVE insertChild(_, _, _, _)

InsertParam(n, num, path, i, end, handle) ==
    LET child == [NewNode EXCEPT !.nType = "param", !.maxParams = num, !.priority = 1, !.path = SubSeq(path, i, end - 1)]
        below == insertChild([NewNode EXCEPT !.maxParams = num - 1, !.priority = 1], num - 1, Drop(path, end - 1), handle)
        Over(c) == [n EXCEPT !.path = IF i > 1 THEN Take(path, i - 1) ELSE @, !.children = <<c>>, !.wildChild = TRUE]
    IN  IF end > Len(path) THEN Grown(Over([child EXCEPT !.handle = handle]))
        ELSE IF below.ok THEN Grown(Over([child EXCEPT !.children = <<below.node>>])) ELSE Panic

InsertCatchAll(n, num, path, i, end, handle) ==
    IF end <= Len(path) \/ num > 1 \/ Ends(n.path, "/") \/ i = 1 \/ path[i - 1] # "/" THEN Panic
    ELSE LET leaf == [NewNode EXCEPT !.path = Drop(path, i - 2), !.nType = "catchAll", !.maxParams = 1,
                                     !.handle = handle, !.priority = 1]
         IN  Grown([n EXCEPT !.path = Take(path, i - 2), !.indices = Slash,
                             !.children = <<[NewNode EXCEPT !.wildChild = TRUE, !.nType = "catchAll", !.maxParams = 1,
                                                            !.priority = 1, !.children = <<leaf>>]>>])

insertChild(n, num, path, handle) ==
    IF num = 0 THEN Grown([n EXCEPT !.path = path, !.handle = handle])
    ELSE Bind(Min({j \in DOMAIN path : path[j] \in Wild}), LAMBDA i : Bind(i + Until(Drop(path, i), "/"), LAMBDA end :
         IF (\E j \in (i + 1)..(end - 1) : path[j] \in Wild) \/ n.children # << >> \/ end - i < 2 THEN Panic
         ELSE IF path[i] = ":" THEN InsertParam(n, num, path, i, end, handle)
         ELSE InsertCatchAll(n, num, path, i, end, handle)))

CommonLength(a, b) == Max({k \in 0..Min({Len(a), Len(b)}) : Take(a, k) = Take(b, k)})

SplitEdge(n, i) ==
    IF i = Len(n.path) THEN n
    ELSE LET child == [n EXCEPT !.path = Drop(n.path, i), !.nType = "static", !.priority = @ - 1,
                                !.maxParams = Max({n.children[k].maxParams : k \in DOMAIN n.children} \cup {0})]
         IN  [n EXCEPT !.children = <<child>>, !.indices = <<n.path[i + 1]>>, !.path = Take(n.path, i),
                       !.handle = << >>, !.wildChild = FALSE]

(* The walk of addRoute, at a node that counts the new route already.        *)
RECURSIVE Walk(_, _, _, _)

Below(n, k, r) == IF r.ok THEN Grown([n EXCEPT !.children[k] = r.node]) ELSE Panic

WalkWild(n, num, path, handle) ==
    LET child == [n.children[1] EXCEPT !.priority = @ + 1, !.maxParams = Max({@, num})]
    IN  IF IsPrefix(child.path, path) /\ (Len(child.path) >= Len(path) \/ path[Len(child.path) + 1] = "/")
        THEN Below(n, 1, Walk(child, num - 1, path, handle))
        ELSE Panic

WalkStatic(n, num, path, handle) ==
    LET k == SelectInSeq(n.indices, LAMBDA c : c = path[1])
        more == [n EXCEPT !.indices = Append(@, path[1]), !.children = Append(@, [NewNode EXCEPT !.maxParams = num])]
    IN  CASE n.nType = "param" /\ path[1] = "/" /\ Len(n.children) = 1 ->
                 Below(n, 1, Walk([n.children[1] EXCEPT !.priority = @ + 1], num, path, handle))
          [] ~ (n.nType = "param" /\ path[1] = "/" /\ Len(n.children) = 1) /\ k # 0 ->
                 Bind(incrementChildPrio(n, k), LAMBDA m :
                     Below(m, NewPos(n, k), Walk(m.children[NewPos(n, k)], num, path, handle)))
          [] ~ (n.nType = "param" /\ path[1] = "/" /\ Len(n.children) = 1) /\ k = 0 ->
                 IF path[1] \in Wild THEN insertChild(n, num, path, handle)
                 ELSE Bind(NewPos(more, Len(more.children)), LAMBDA at : Bind(incrementChildPrio(more, Len(more.children)),
                          LAMBDA m : Below(m, at, insertChild(m.children[at], num, path, handle))))

Walk(n, num, path, handle) ==
    Bind(CommonLength(path, n.path), LAMBDA i : Bind(SplitEdge([n EXCEPT !.maxParams = Max({@, num})], i), LAMBDA m :
        CASE i = Len(path) -> Grown([m EXCEPT !.handle = handle])
          [] i < Len(path) /\ m.wildChild -> WalkWild(m, num, Drop(path, i), handle)
          [] i < Len(path) /\ ~ m.wildChild -> WalkStatic(m, num, Drop(path, i), handle)))

addRoute(n, path, handle) ==
    LET counted == [n EXCEPT !.priority = @ + 1]
        made == insertChild(counted, countParams(path), path, handle)
    IN  IF n.path # << >> \/ n.children # << >> THEN Walk(counted, countParams(path), path, handle)
        ELSE IF made.ok THEN Grown([made.node EXCEPT !.nType = "root"]) ELSE Panic

-----------------------------------------------------------------------------
(* getValue: the handle, the values of the wildcards and whether a slash     *)
(* more or less is advised.  The values have room for what the first         *)
(* wildcard was told to expect.                                              *)

Nothing(params, tsr) == [handle |-> << >>, params |-> params.vals, tsr |-> tsr, panics |-> FALSE]

Has(handle, params) == [handle |-> handle, params |-> params.vals, tsr |-> FALSE, panics |-> FALSE]

Crash == [handle |-> << >>, params |-> << >>, tsr |-> FALSE, panics |-> TRUE]

WithParam(params, n, value) ==
    [vals |-> Append(params.vals, value), room |-> IF params.vals = << >> THEN n.maxParams ELSE params.room]

RECURSIVE getValue(_, _, _)

ParamValue(n, path, params) ==
    LET end == Until(path, "/") - 1
        kept == WithParam(params, n, Take(path, end))
    IN  CASE Len(kept.vals) > kept.room -> Crash
          [] Len(kept.vals) <= kept.room /\ end < Len(path) ->
                 IF n.children # << >> THEN getValue(n.children[1], Drop(path, end), kept)
                 ELSE Nothing(kept, Len(path) = end + 1)
          [] OTHER -> IF n.handle # << >> THEN Has(n.handle, kept)
                      ELSE Nothing(kept, Len(n.children) = 1 /\ n.children[1].path = Slash /\ n.children[1].handle # << >>)

CatchAllValue(n, path, params) ==
    LET kept == WithParam(params, n, path) IN IF Len(kept.vals) > kept.room THEN Crash ELSE Has(n.handle, kept)

(* Further down, the node's own path being off.                              *)
Descend(n, path, params) ==
    LET k == SelectInSeq(n.indices, LAMBDA c : c = path[1])
    IN  CASE n.wildChild -> IF n.children[1].nType = "param" THEN ParamValue(n.children[1], path, params)
                            ELSE CatchAllValue(n.children[1], path, params)
          [] ~ n.wildChild /\ k # 0 -> getValue(n.children[k], path, params)
          [] ~ n.wildChild /\ k = 0 -> Nothing(params, path = Slash /\ n.handle # << >>)

(* A node that a slash leads to ends a route or begins one with a catch-all. *)
SlashEnds(n) ==
    LET k == SelectInSeq(n.indices, LAMBDA c : c = "/")
        m == n.children[k]
    IN  k # 0 /\ ((Len(m.path) = 1 /\ m.handle # << >>) \/ (m.nType = "catchAll" /\ m.children[1].handle # << >>))

getValue(n, path, params) ==
    CASE Len(path) > Len(n.path) /\ IsPrefix(n.path, path) -> Descend(n, Drop(path, Len(n.path)), params)
      [] path = n.path ->
             IF n.handle # << >> THEN Has(n.handle, params)
             ELSE Nothing(params, (path = Slash /\ n.wildChild /\ n.nType # "root") \/ SlashEnds(n))
      [] OTHER -> Nothing(params, path = Slash \/ (n.path = Append(path, "/") /\ n.handle # << >>))

Looked(n, path) == getValue(n, path, [vals |-> << >>, room |-> 0])

-----------------------------------------------------------------------------
(* findCaseInsensitivePath: the path that is registered in other letters.    *)

Fixed(path, found) == [path |-> path, found |-> found]

RECURSIVE findCaseInsensitivePathRec(_, _, _)

(* Both letters may lead on: the lower one is tried first.                   *)
LookThrough(n, path, ci) ==
    LET low == ToLower(path)[1]
        At(c) == SelectInSeq(n.indices, LAMBDA x : x = c)
        first == IF At(low) = 0 THEN Fixed(ci, FALSE) ELSE findCaseInsensitivePathRec(n.children[At(low)], path, ci)
    IN  CASE first.found -> first
          [] ~ first.found /\ ToUpper(low) # low /\ At(ToUpper(low)) # 0 ->
                 findCaseInsensitivePathRec(n.children[At(ToUpper(low))], path, ci)
          [] OTHER -> Fixed(ci, path = Slash /\ n.handle # << >>)

LookParam(n, path, ci) ==
    LET k == Until(path, "/") - 1
        more == ci \o Take(path, k)
    IN  CASE k < Len(path) -> IF n.children # << >> THEN findCaseInsensitivePathRec(n.children[1], Drop(path, k), more)
                              ELSE Fixed(more, Len(path) = k + 1)
          [] k = Len(path) /\ n.handle # << >> -> Fixed(more, TRUE)
          [] OTHER -> IF Len(n.children) = 1 /\ n.children[1].path = Slash /\ n.children[1].handle # << >>
                      THEN Fixed(Append(more, "/"), TRUE) ELSE Fixed(more, FALSE)

LookEnd(n, ci) ==
    CASE n.handle # << >> -> Fixed(ci, TRUE)
      [] n.handle = << >> /\ SlashEnds(n) -> Fixed(Append(ci, "/"), TRUE)
      [] OTHER -> Fixed(ci, FALSE)

(* The first letter is the one that led here.                                *)
Agrees(path, own) == Len(path) >= Len(own) /\ (own = << >> \/ Tail(ToLower(Take(path, Len(own)))) = Tail(ToLower(own)))

findCaseInsensitivePathRec(n, path, ci) ==
    LET rest == Drop(path, Len(n.path))
        more == ci \o n.path
    IN  CASE Agrees(path, n.path) /\ rest = << >> -> LookEnd(n, more)
          [] Agrees(path, n.path) /\ rest # << >> /\ ~ n.wildChild -> LookThrough(n, rest, more)
          [] Agrees(path, n.path) /\ rest # << >> /\ n.wildChild ->
                 IF n.children[1].nType = "param" THEN LookParam(n.children[1], rest, more) ELSE Fixed(more \o rest, TRUE)
          [] ~ Agrees(path, n.path) /\ path = Slash -> Fixed(ci, TRUE)
          [] OTHER -> IF Len(path) + 1 = Len(n.path) /\ Last(n.path) = "/" /\ n.handle # << >>
                         /\ Tail(ToLower(path)) = Tail(ToLower(Front(n.path)))
                      THEN Fixed(ci \o n.path, TRUE) ELSE Fixed(ci, FALSE)

-----------------------------------------------------------------------------
(* CleanPath, on the elements between the slashes.                           *)

Elements(p) == LET cuts == SetToSortSeq({0, Len(p) + 1} \cup {i \in DOMAIN p : p[i] = "/"}, <)
               IN  [k \in 1..(Len(cuts) - 1) |-> SubSeq(p, cuts[k] + 1, cuts[k + 1] - 1)]

CleanPath(p) ==
    LET elements == Elements(p)
        kept == FoldLeft(LAMBDA s, e : CASE e \in {<< >>, <<".">>} -> s
                                         [] e = <<".", ".">> -> IF s = << >> THEN s ELSE Front(s)
                                         [] OTHER -> Append(s, e), << >>, elements)
        trailing == (Len(p) > 2 /\ Ends(p, "/")) \/ Last(elements) = <<".">>
        joined == FlattenSeq([i \in DOMAIN kept |-> Slash \o kept[i]])
    IN  IF kept = << >> THEN Slash ELSE IF trailing THEN Append(joined, "/") ELSE joined

-----------------------------------------------------------------------------
(* Router.                                                                   *)

Handle(r) ==
    Bind(addRoute(IF r.method \in DOMAIN rtTrees THEN rtTrees[r.method] ELSE NewNode, r.path, <<r.path>>), LAMBDA made :
        /\ rtFailed' = ~ made.ok
        /\ rtTrees' = IF made.ok THEN (r.method :> made.node) @@ rtTrees ELSE rtTrees
        /\ rtAdded' = IF made.ok THEN rtAdded \cup {r} ELSE rtAdded)

(* OPTIONS is never among the methods tried.                                 *)
allowed(path, method) ==
    IF path = <<"*">> THEN DOMAIN rtTrees \ {"OPTIONS"}
    ELSE {m \in DOMAIN rtTrees \ {method, "OPTIONS"} : Looked(rtTrees[m], path).handle # << >>}

Answer(kind, at, params) == [kind |-> kind, at |-> at, params |-> params]

(* What the router does when there is no handle and no redirection.          *)
Unrouted(method, path) ==
    Bind(allowed(path, method), LAMBDA ms :
        IF ms = {} THEN Answer("404", << >>, {})
        ELSE Answer(IF method = "OPTIONS" THEN "options" ELSE "405", << >>, ms))

Redirects(method, path, tsr) ==
    Bind(findCaseInsensitivePathRec(rtTrees[method], CleanPath(path), << >>), LAMBDA f :
        CASE method = "CONNECT" \/ path = Slash -> Unrouted(method, path)
          [] ~ (method = "CONNECT" \/ path = Slash) /\ tsr ->
                 Answer("slash", IF Len(path) > 1 /\ Ends(path, "/") THEN Front(path) ELSE Append(path, "/"), {})
          [] OTHER -> IF f.found THEN Answer("fixed", f.path, {}) ELSE Unrouted(method, path))

ServeHTTP(method, path) ==
    IF method \notin DOMAIN rtTrees THEN Unrouted(method, path)
    ELSE Bind(Looked(rtTrees[method], path), LAMBDA v :
             CASE v.panics -> Answer("panic", << >>, {})
               [] ~ v.panics /\ v.handle # << >> -> Answer("handle", v.handle[1], {v.params})
               [] OTHER -> Redirects(method, path, v.tsr))

RtInit == rtTrees = << >> /\ rtAdded = {} /\ rtFailed = FALSE

(* The priority of a root counts the routes registered below it.             *)
RtNext ==
    /\ ~ rtFailed /\ MapThenSumSet(LAMBDA m : rtTrees[m].priority, DOMAIN rtTrees) < RtAdds
    /\ \E r \in RtRoutes : Handle(r)

RtSpec == RtInit /\ [][RtNext]_rtVars

-----------------------------------------------------------------------------
(* What a route stands for: a wildcard takes what is left of an element, and *)
(* there must be something left of the path.                                 *)
RECURSIVE Fits(_, _)

Fits(route, path) ==
    CASE route = << >> -> IF path = << >> THEN {<< >>} ELSE {}
      [] route # << >> /\ route[1] = "*" -> {<<Slash \o path>>}
      [] route # << >> /\ route[1] = ":" /\ path # << >> ->
             {<<Take(path, Until(path, "/") - 1)>> \o ps :
                 ps \in Fits(Drop(route, Until(route, "/") - 1), Drop(path, Until(path, "/") - 1))}
      [] OTHER -> IF path # << >> /\ path[1] = route[1] THEN Fits(Tail(route), Tail(path)) ELSE {}

Matching(method, path) ==
    UNION {{[at |-> r.path, params |-> ps] : ps \in Fits(r.path, path)} : r \in {x \in rtAdded : x.method = method}}

(* A final slash may be taken off without a look at what is there then.      *)
Shorter(a, path) == ToLower(Append(a, "/")) = ToLower(path)

(***************************************************************************)
(* Whatever routes were registered, in whatever order, a request is handed *)
(* to the route that fits its path, with the values of its wildcards, and  *)
(* to no other; without one, a corrected path the client is sent to is     *)
(* served (unless it only lost its final slash), and the methods it is     *)
(* told of are those that have a route.                                    *)
(* (getValue, findCaseInsensitivePath, allowed on trees addRoute built.)   *)
(***************************************************************************)
RtFinds ==
    \A method \in {r.method : r \in RtRoutes} \cup {"OPTIONS"}, path \in RtPaths :
        Bind(ServeHTTP(method, path), LAMBDA a : Bind(Matching(method, path), LAMBDA fits :
            CASE a.kind = "handle" -> fits = {[at |-> a.at, params |-> CHOOSE p \in a.params : TRUE]}
              [] a.kind = "fixed" -> fits = {} /\ (Matching(method, a.at) # {} \/ Shorter(a.at, CleanPath(path)))
              [] a.kind \in {"405", "options"} ->
                     fits = {} /\ a.params = {m \in {r.method : r \in rtAdded} \ {"OPTIONS"} :
                                               path = <<"*">> \/ (m # method /\ Matching(m, path) # {})}
              [] a.kind \in {"404", "slash"} -> fits = {}
              [] OTHER -> FALSE))
=============================================================================
