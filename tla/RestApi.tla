------------------------------ MODULE RestApi ------------------------------
(***************************************************************************)
(* The REST framework (gorest): kinds of resources are imported below      *)
(* their parents, routes are generated from what their handlers offer, and *)
(* a request becomes a resource with its parents that is handed to one of  *)
(* the handlers; the answer carries links.                                 *)
(*                                                                         *)
(* First, how the body of a request is checked (gorest/resource/schema/    *)
(* resourcefield): a tree of fields with validators is built from a Go     *)
(* type and its tags, and walked over the resource that was filled from    *)
(* the body together with the body itself.                                 *)
(*                                                                         *)
(* A type is [k, elem, fields]: its reflect kind, in a tuple the type of   *)
(* its elements, and the fields of a struct, [name, json, rest, embedded,  *)
(* exported, type].  A tag of "rest" is [tag, num, text]: its number in a  *)
(* tuple and its words in a set.  A value of a type is a number, a string, *)
(* a sequence, a function from keys or field names, or a pointer in a      *)
(* tuple.  A JSON value is [j, v]; an object gives for a name the value    *)
(* and whether the name is spelled as declared.                            *)
(*                                                                         *)
(* One version of the API is imported.  A path is the sequence of its      *)
(* segments after the version, unescaped; segments that are empty stand    *)
(* for slashes that follow one another or end the path.                    *)
(***************************************************************************)
EXTENDS Integers, Sequences, FiniteSets, SequencesExt, FiniteSetsExt, TLC

CONSTANTS
    RaLength,    \* the length of every string
    RaDomains,   \* the strings dns1123SubdomainRegexp accepts
    RaMaxDomain, \* DNS1123SubdomainMaxLength
    RaKinds,     \* kind -> [parents, handlers, actions (with inputs), async, type,
                 \*         default]
    RaPlural,    \* kind -> the name of its collection
    RaIds,       \* ids of resources
    RaBodies     \* kind -> bodies: a JSON value in a tuple, or << >>

VARIABLES
    raTop,       \* VersionedSchemas.toplevelSchemas
    raChildren,  \* kind -> Schema.children
    raFields,    \* kind -> Schema.fields
    raFailed     \* an import failed: MustImport panics

raVars == <<raTop, raChildren, raFields, raFailed>>

-----------------------------------------------------------------------------
Bind(x, op(_)) == op(x)

Elem(t) == t.elem[1]

Primary == {"int", "uint", "string", "bool"}

Unknown == <<"unknown", "">>

(* What holds the elements, and what they are.                               *)
Inspect(t) ==
    CASE t.k \in Primary \cup {"struct"} -> <<"", t.k>>
      [] t.k = "ptr" -> IF Elem(t).k \in {"struct", "bool"} THEN <<"ptr", Elem(t).k>> ELSE Unknown
      [] t.k \in {"map", "slice"} /\ Elem(t).k = "ptr" ->
             IF Elem(Elem(t)).k = "struct" THEN <<IF t.k = "map" THEN "mapPtr" ELSE "slicePtr", "struct">> ELSE Unknown
      [] t.k \in {"map", "slice"} /\ Elem(t).k # "ptr" ->
             IF Elem(t).k \in {"int", "uint", "string", "struct"} THEN <<t.k, Elem(t).k>> ELSE Unknown
      [] OTHER -> Unknown

-----------------------------------------------------------------------------
(* The validators.                                                           *)

Validator(of, min, max, options) == [of |-> of, min |-> min, max |-> max, options |-> options]

Built(x) == [ok |-> TRUE, is |-> x]

Wrong == [ok |-> FALSE, is |-> << >>]

Tagged(tags, tag) == SelectSeq(tags, LAMBDA t : t.tag = tag)

Given(t) == t.num # << >> \/ t.text # {}

(* A second value is an error, and so is one that is not a number.           *)
RangeFromTags(of, tags, lo, hi) ==
    LET Value(tag) == IF Tagged(tags, tag) = << >> THEN [tag |-> tag, num |-> << >>, text |-> {}] ELSE Last(Tagged(tags, tag))
        Twice(tag) == \E i, j \in DOMAIN Tagged(tags, tag) : i < j /\ Given(Tagged(tags, tag)[i])
        Bad(tag) == Given(Value(tag)) /\ Value(tag).num = << >>
    IN  CASE Twice(lo) \/ Twice(hi) \/ Bad(lo) \/ Bad(hi) -> Wrong
          [] ~ Given(Value(lo)) /\ ~ Given(Value(hi)) -> Built(<< >>)
          [] OTHER -> IF Value(lo).num # << >> /\ Value(hi).num # << >> /\ Value(lo).num[1] >= Value(hi).num[1] THEN Wrong
                      ELSE Built(<<Validator(of, Value(lo).num, Value(hi).num, {})>>)

DomainFromTags(tags) == IF Tagged(tags, "isDomain") = << >> THEN << >> ELSE <<Validator("domain", << >>, << >>, {})>>

OptionsFromTags(tags) ==
    IF Tagged(tags, "options") = << >> THEN << >> ELSE <<Validator("options", << >>, << >>, Tagged(tags, "options")[1].text)>>

BuildValidators(t, tags) ==
    Bind(IF Inspect(t)[2] \in {"int", "uint"} THEN RangeFromTags("int", tags, "min", "max")
         ELSE RangeFromTags("len", tags, "minLen", "maxLen"), LAMBDA range :
        CASE Inspect(t)[1] \notin {"", "map", "slice"} \/ Inspect(t)[2] \notin {"int", "uint", "string"} -> Built(<< >>)
          [] ~ range.ok -> Wrong
          [] Inspect(t)[2] = "string" -> Built(DomainFromTags(tags) \o range.is \o OptionsFromTags(tags))
          [] OTHER -> range)

(* Variant: the upper bound is let in.                                       *)
WithinBounds(n, v) == (v.min = << >> \/ n >= v.min[1]) /\ (v.max = << >> \/ n <= v.max[1])

Within(n, v) == (v.min = << >> \/ n >= v.min[1]) /\ (v.max = << >> \/ n < v.max[1])

validateDomain(s) == RaLength[s] <= RaMaxDomain /\ s \in RaDomains

ValidatorAccepts(v, x) ==
    CASE v.of = "int" -> Within(x, v)
      [] v.of = "len" -> Within(RaLength[x], v)
      [] v.of = "domain" -> validateDomain(x)
      [] v.of = "options" -> x \in v.options

doValidate(f, x) == \A i \in DOMAIN f.validators : ValidatorAccepts(f.validators[i], x)

-----------------------------------------------------------------------------
(* The builder.                                                              *)

fieldJsonName(fd) ==
    LET named == SelectSeq(fd.json, LAMBDA part : part # "omitempty") IN IF named = << >> THEN fd.name ELSE named[1]

fieldParseOptional(tags) ==
    LET told == Tagged(tags, "required")
    IN  IF \E i \in DOMAIN told : told[i].text \cap {"yes", "true", "no", "false"} = {} THEN Wrong
        ELSE Built(<<told # << >> /\ Last(told).text \cap {"yes", "true"} # {}>>)

newField(class, fd, validators, required, inner) ==
    [class |-> class, name |-> fd.name, json |-> fieldJsonName(fd), validators |-> validators, required |-> required, inner |-> inner]

buildLeafField(class, fd, t, tags, inner) ==
    Bind(BuildValidators(t, tags), LAMBDA v : Bind(fieldParseOptional(tags), LAMBDA r :
        IF v.ok /\ r.ok THEN Built(<<newField(class, fd, v.is, r.is[1], inner)>>) ELSE Wrong))

RECURSIVE buildFields(_)

(* The fields of a struct by name; nothing when there are none to check.     *)
Build(t) == buildFields(t)

createStructElems(fd, t, kind) ==
    Bind(Build(IF kind[1] \in {"mapPtr", "slicePtr"} THEN Elem(Elem(t)) ELSE Elem(t)), LAMBDA inner :
        IF ~ inner.ok THEN Wrong
        ELSE IF inner.is = << >> /\ fd.rest = << >> THEN Built(<< >>)
        ELSE buildLeafField(IF kind[1] \in {"map", "mapPtr"} THEN "mapStruct" ELSE "sliceStruct", fd, t, fd.rest, inner.is))

createStruct(fd, t) ==
    Bind(Build(t), LAMBDA inner : Bind(fieldParseOptional(fd.rest), LAMBDA r :
        IF ~ inner.ok THEN Wrong
        ELSE IF inner.is = << >> THEN Built(<< >>)
        ELSE IF r.ok THEN Built(<<newField("struct", fd, << >>, r.is[1], inner.is)>>) ELSE Wrong))

createField(fd, t) ==
    Bind(Inspect(t), LAMBDA kind :
        CASE kind[1] \in {"", "map", "slice"} /\ kind[2] \in Primary /\ fd.rest # << >> ->
                 buildLeafField(CASE kind[1] = "" -> "leaf" [] kind[1] = "map" -> "mapLeaf" [] kind[1] = "slice" -> "sliceLeaf",
                                fd, t, fd.rest, << >>)
          [] kind = <<"ptr", "struct">> -> createStruct(fd, Elem(t))
          [] kind = <<"", "struct">> -> createStruct(fd, t)
          [] kind[1] \in {"map", "mapPtr", "slice", "slicePtr"} /\ kind[2] = "struct" -> createStructElems(fd, t, kind)
          [] OTHER -> Built(<< >>))

buildField(fd) ==
    CASE ~ fd.exported -> Built(<< >>)
      [] fd.exported /\ fd.embedded -> buildFields(fd.type)
      [] OTHER -> createField(fd, fd.type)

(* addField refuses a name that is there.                                    *)
addField(had, more) ==
    IF had.ok /\ more.ok /\ (\A i \in DOMAIN had.is, j \in DOMAIN more.is : had.is[i].name # more.is[j].name)
    THEN Built(had.is \o more.is) ELSE Wrong

buildFields(t) ==
    CASE t.k = "ptr" -> buildFields(Elem(t))
      [] t.k = "struct" -> FoldLeft(LAMBDA had, fd : addField(had, buildField(fd)), Built(<< >>), t.fields)
      [] OTHER -> Wrong

-----------------------------------------------------------------------------
(* The walk.  Maps are walked in any order, so there may be more than one    *)
(* verdict.                                                                  *)

Lookup(raw, name) == IF name \in DOMAIN raw /\ raw[name].same THEN <<raw[name].val>> ELSE << >>

Present(raw, name) == Lookup(raw, name) # << >> /\ Lookup(raw, name)[1].j # "null"

All(verdicts) == {b \in BOOLEAN : IF b THEN \A s \in verdicts : TRUE \in s ELSE \E s \in verdicts : FALSE \in s}

Size(json) == IF json.j = "arr" THEN Len(json.v) ELSE Cardinality(DOMAIN json.v)

fieldIsSpecifiedWithKind(f, raw, kind) ==
    CASE ~ Present(raw, f.json) -> IF f.required THEN "error" ELSE "no"
      [] Present(raw, f.json) /\ Lookup(raw, f.json)[1].j # kind -> "error"
      [] OTHER -> IF f.required /\ Size(Lookup(raw, f.json)[1]) = 0 THEN "error" ELSE "yes"

RECURSIVE structValidate(_, _, _, _, _), validateMembers(_, _, _, _, _)

validateLeaf(f, x, raw) == {IF f.json \in DOMAIN raw /\ raw[f.json].same THEN doValidate(f, x) ELSE ~ f.required}

(* The elements of slices and maps of simple values.                         *)
validateLeaves(f, xs, raw, kind) ==
    LET specified == fieldIsSpecifiedWithKind(f, raw, kind)
    IN  {specified # "error" /\ (specified = "yes" => \A i \in DOMAIN xs : doValidate(f, xs[i]))}

validateSliceLeaf(f, xs, raw) == validateLeaves(f, xs, raw, "arr")

validateMapLeaf(f, xs, raw) == validateLeaves(f, xs, raw, "obj")

validateElem(f, t, x, json) ==
    IF json.j = "obj" THEN structValidate(<< >>, f.inner, t, x, json.v) ELSE {FALSE}

validateSliceStruct(f, t, xs, raw) ==
    LET specified == fieldIsSpecifiedWithKind(f, raw, "arr")
        json == Lookup(raw, f.json)[1].v
    IN  CASE specified = "error" -> {FALSE}
          [] specified = "no" \/ f.inner = << >> -> {specified # "error"}
          [] OTHER -> IF Len(xs) # Len(json) THEN {FALSE}
                      ELSE All({validateElem(f, Elem(t), xs[i], json[i]) : i \in DOMAIN xs})

(* The two maps are walked side by side, each in an order of its own, so an  *)
(* entry may be checked with what was said of another.                       *)
validateMapStruct(f, t, xs, raw) ==
    LET specified == fieldIsSpecifiedWithKind(f, raw, "obj")
        json == Lookup(raw, f.json)[1].v
        Pairings == {p \in [DOMAIN json -> DOMAIN xs] : IsInjective(p)}
    IN  CASE specified = "error" -> {FALSE}
          [] specified = "no" \/ f.inner = << >> -> {specified # "error"}
          [] OTHER -> IF Cardinality(DOMAIN xs) # Cardinality(DOMAIN json) THEN {FALSE}
                      ELSE UNION {All({validateElem(f, Elem(t), xs[p[k]], json[k].val) : k \in DOMAIN json}) : p \in Pairings}

FieldValidate(f, t, x, raw) ==
    CASE f.class = "leaf" -> validateLeaf(f, x, raw)
      [] f.class = "sliceLeaf" -> validateSliceLeaf(f, x, raw)
      [] f.class = "mapLeaf" -> validateMapLeaf(f, x, raw)
      [] f.class = "sliceStruct" -> validateSliceStruct(f, t, x, raw)
      [] f.class = "mapStruct" -> validateMapStruct(f, t, x, raw)
      [] f.class = "struct" -> structValidate(<<f>>, f.inner, t, x, raw)

(* The members of a struct, an embedded one with the fields of the whole.    *)
validateMembers(self, fields, t, x, raw) ==
    CASE t.k = "ptr" -> IF x = << >> THEN {FALSE} ELSE validateMembers(self, fields, Elem(t), x[1], raw)
      [] OTHER -> All({LET fd == t.fields[i]
                           k == SelectInSeq(fields, LAMBDA f : f.name = fd.name)
                       IN  CASE ~ fd.exported -> {TRUE}
                             [] fd.exported /\ fd.embedded -> structValidate(self, fields, fd.type, x[fd.name], raw)
                             [] OTHER -> IF k = 0 THEN {TRUE} ELSE FieldValidate(fields[k], fd.type, x[fd.name], raw)
                       : i \in DOMAIN t.fields})

structValidate(self, fields, t, x, raw) ==
    CASE self = << >> -> validateMembers(self, fields, t, x, raw)
      [] self # << >> /\ ~ Present(raw, self[1].json) -> {~ self[1].required}
      [] OTHER -> IF Lookup(raw, self[1].json)[1].j = "obj"
                  THEN validateMembers(self, fields, t, x, Lookup(raw, self[1].json)[1].v) ELSE {FALSE}

-----------------------------------------------------------------------------
(* encoding/json, as Unmarshal fills a value that is there: names in any     *)
(* spelling, values of the wrong type left out, elements of a slice and      *)
(* entries of a map that were there kept.                                    *)

RECURSIVE Zero(_)

Zero(t) ==
    CASE t.k = "struct" -> [n \in {t.fields[i].name : i \in DOMAIN t.fields} |->
                               Zero((CHOOSE fd \in ToSet(t.fields) : fd.name = n).type)]
      [] t.k \in {"int", "uint"} -> 0
      [] t.k = "string" -> ""
      [] t.k = "bool" -> FALSE
      [] OTHER -> << >>

RECURSIVE Unmarshal(_, _, _)

UnmarshalStruct(t, old, json) ==
    [n \in DOMAIN old |->
        LET fd == CHOOSE d \in ToSet(t.fields) : d.name = n
        IN  CASE fd.embedded -> Unmarshal(fd.type, old[n], json)
              [] ~ fd.embedded /\ fd.exported /\ fieldJsonName(fd) \in DOMAIN json.v ->
                     Unmarshal(fd.type, old[n], json.v[fieldJsonName(fd)].val)
              [] OTHER -> old[n]]

Unmarshal(t, old, json) ==
    CASE json.j = "null" -> IF t.k \in {"ptr", "map", "slice"} THEN << >> ELSE old
      [] json.j # "null" /\ t.k = "ptr" -> <<Unmarshal(Elem(t), IF old = << >> THEN Zero(Elem(t)) ELSE old[1], json)>>
      [] json.j = "num" /\ (t.k = "int" \/ (t.k = "uint" /\ json.v >= 0)) -> json.v
      [] json.j = "str" /\ t.k = "string" -> json.v
      [] json.j = "bool" /\ t.k = "bool" -> json.v
      [] json.j = "obj" /\ t.k = "struct" -> UnmarshalStruct(t, old, json)
      [] json.j = "arr" /\ t.k = "slice" ->
             [i \in DOMAIN json.v |-> Unmarshal(Elem(t), IF i \in DOMAIN old THEN old[i] ELSE Zero(Elem(t)), json.v[i])]
      [] json.j = "obj" /\ t.k = "map" -> [k \in DOMAIN json.v |-> Unmarshal(Elem(t), Zero(Elem(t)), json.v[k].val)] @@ old
      [] OTHER -> old

RECURSIVE Mistyped(_, _)

(* Unmarshal reports that some value was left out.                           *)
Mistyped(t, json) ==
    CASE json.j = "null" -> FALSE
      [] json.j # "null" /\ t.k = "ptr" -> Mistyped(Elem(t), json)
      [] json.j = "obj" /\ t.k = "struct" ->
             \E fd \in ToSet(t.fields) : \/ (fd.embedded /\ Mistyped(fd.type, json))
                                        \/ (~ fd.embedded /\ fieldJsonName(fd) \in DOMAIN json.v
                                            /\ Mistyped(fd.type, json.v[fieldJsonName(fd)].val))
      [] json.j = "arr" /\ t.k = "slice" -> \E i \in DOMAIN json.v : Mistyped(Elem(t), json.v[i])
      [] json.j = "obj" /\ t.k = "map" -> \E k \in DOMAIN json.v : Mistyped(Elem(t), json.v[k].val)
      [] OTHER -> <<json.j, t.k>> \notin {<<"num", "int">>, <<"str", "string">>, <<"bool", "bool">>}
                  /\ ~ (json.j = "num" /\ t.k = "uint" /\ json.v >= 0)

-----------------------------------------------------------------------------
(* What the tags of a type ask, read off the type.                           *)

Required(fd) == \E i \in DOMAIN fd.rest : fd.rest[i].tag = "required" /\ fd.rest[i].text = {"true"}

Meets(fd, kind, x) ==
    \A i \in DOMAIN fd.rest : LET tag == fd.rest[i] IN
        CASE tag.tag = "min" /\ kind # "string" -> x >= tag.num[1]
          [] tag.tag = "max" /\ kind # "string" -> x < tag.num[1]
          [] tag.tag = "minLen" /\ kind = "string" -> RaLength[x] >= tag.num[1]
          [] tag.tag = "maxLen" /\ kind = "string" -> RaLength[x] < tag.num[1]
          [] tag.tag = "isDomain" /\ kind = "string" -> x \in RaDomains
          [] tag.tag = "options" /\ kind = "string" -> x \in tag.text
          [] OTHER -> TRUE

RECURSIVE Tags(_)

(* A type some field of which has a tag.                                     *)
Tags(t) ==
    CASE t.k \in {"ptr", "map", "slice"} -> Tags(Elem(t))
      [] t.k = "struct" -> \E i \in DOMAIN t.fields : t.fields[i].rest # << >> \/ Tags(t.fields[i].type)
      [] OTHER -> FALSE

RECURSIVE Fits(_, _, _)

(* The struct x, filled from the object raw, has all its tags ask.           *)
FieldFits(fd, x, raw) ==
    LET name == fieldJsonName(fd)
        kind == Inspect(fd.type)
        json == Lookup(raw, name)[1]
    IN  CASE kind[1] = "" /\ kind[2] # "struct" ->
                 IF Lookup(raw, name) = << >> THEN ~ Required(fd) ELSE Meets(fd, kind[2], x)
          [] kind[2] = "struct" /\ kind[1] \in {"", "ptr"} ->
                 Tags(fd.type) => IF ~ Present(raw, name) THEN ~ Required(fd)
                                  ELSE json.j = "obj" /\ Fits(fd.type, x, json.v)
          [] kind[1] \in {"map", "slice", "mapPtr", "slicePtr"} ->
                 (fd.rest # << >> \/ Tags(fd.type)) =>
                     IF ~ Present(raw, name) THEN ~ Required(fd)
                     ELSE /\ json.j = IF fd.type.k = "slice" THEN "arr" ELSE "obj"
                          /\ Required(fd) => Size(json) > 0
                          /\ kind[2] # "struct" => \A i \in DOMAIN x : Meets(fd, kind[2], x[i])
                          /\ kind[2] = "struct" /\ Tags(fd.type) =>
                                 /\ DOMAIN x = DOMAIN json.v
                                 /\ \A i \in DOMAIN x : LET one == IF json.j = "arr" THEN json.v[i] ELSE json.v[i].val
                                                        IN  one.j = "obj" /\ Fits(Elem(fd.type), x[i], one.v)
          [] OTHER -> TRUE

Fits(t, x, raw) ==
    CASE t.k = "ptr" -> x # << >> /\ Fits(Elem(t), x[1], raw)
      [] OTHER -> \A i \in DOMAIN t.fields : LET fd == t.fields[i] IN
                      fd.exported => IF fd.embedded THEN Fits(fd.type, x[fd.name], raw) ELSE FieldFits(fd, x[fd.name], raw)

-----------------------------------------------------------------------------
(* Importing.                                                                *)

RECURSIVE Reaches(_, _)

(* GetSchema: the schema is in the tree below k.                             *)
Reaches(k, kind) == k = kind \/ \E i \in DOMAIN raChildren[k] : Reaches(raChildren[k][i], kind)

GetSchema(kind) == \E i \in DOMAIN raTop : Reaches(raTop[i], kind)

(* The parents up to the first that is missing or has the child get it.      *)
AddChildren(kind) ==
    LET ps == RaKinds[kind].parents
        Ok(i) == GetSchema(ps[i]) /\ ~ Contains(raChildren[ps[i]], kind)
        given == {ps[i] : i \in {j \in DOMAIN ps : \A h \in 1..j : Ok(h)}}
    IN  [k \in DOMAIN raChildren |-> IF k \in given THEN Append(raChildren[k], kind) ELSE raChildren[k]]

(* A handler has at least one of the methods (and those it has, with the     *)
(* right signature).                                                         *)
HandlerAdaptor(kind) == RaKinds[kind].handlers # {}

NewSchema(kind) == Build(RaKinds[kind].type)

Import(kind) ==
    LET ps == RaKinds[kind].parents
        fields == NewSchema(kind)
        fits == IF ps = << >> THEN ~ Contains(raTop, kind)
                ELSE \A i \in DOMAIN ps : GetSchema(ps[i]) /\ ~ Contains(raChildren[ps[i]], kind)
        ok == HandlerAdaptor(kind) /\ fields.ok /\ fits
    IN  /\ raFailed' = ~ ok
        /\ raFields' = IF ok THEN (kind :> fields.is) @@ raFields ELSE raFields
        /\ raTop' = IF ok /\ ps = << >> THEN Append(raTop, kind) ELSE raTop
        /\ raChildren' = IF HandlerAdaptor(kind) /\ fields.ok THEN AddChildren(kind) ELSE raChildren

-----------------------------------------------------------------------------
(* Routes: a method and a path whose ids are wildcards named for the kind.   *)

IdOf(kind) == <<"id", kind>>

Name(kind) == <<"name", RaPlural[kind]>>

generateCollectionPath(parents, kind) ==
    FlattenSeq([i \in DOMAIN parents |-> <<Name(parents[i]), IdOf(parents[i])>>]) \o <<Name(kind)>>

Offers(kind, handler) == handler \in RaKinds[kind].handlers

GetCollectionMethods(kind) == {m \in {"GET", "POST"} : Offers(kind, IF m = "GET" THEN "List" ELSE "Create")}

GetResourceMethods(kind) ==
    {m \in {"GET", "DELETE", "PUT", "POST"} :
        Offers(kind, CASE m = "GET" -> "Get" [] m = "DELETE" -> "Delete" [] m = "PUT" -> "Update" [] m = "POST" -> "Action")}

generateSelfRoute(parents, kind) ==
    LET path == generateCollectionPath(parents, kind)
    IN  {<<m, path>> : m \in GetCollectionMethods(kind)} \cup {<<m, Append(path, IdOf(kind))>> : m \in GetResourceMethods(kind)}

RECURSIVE GenerateRoute(_, _)

GenerateRoute(parents, kind) ==
    generateSelfRoute(parents, kind)
        \cup UNION {GenerateRoute(Append(parents, kind), raChildren[kind][i]) : i \in DOMAIN raChildren[kind]}

GenerateResourceRoute == UNION {GenerateRoute(<< >>, raTop[i]) : i \in DOMAIN raTop}

(* The web server's router passes what fits a route (external).              *)
Routed(routes, method, path) ==
    \E r \in routes :
        /\ r[1] = method /\ Len(r[2]) = Len(path)
        /\ \A i \in DOMAIN path : r[2][i][1] = "name" => r[2][i][2] = path[i]

-----------------------------------------------------------------------------
(* The resource of a request.                                                *)

Resource(kind, ups) == [kind |-> kind, id |-> << >>, ups |-> ups, action |-> << >>, value |-> RaKinds[kind].default]

Made(r) == [res |-> <<r>>, err |-> ""]

Error(code) == [res |-> << >>, err |-> code]

NoneYet == [res |-> << >>, err |-> ""]

(* The input of an action, if it has one, must be there and well typed.      *)
parseAction(r, action, body) ==
    LET actions == RaKinds[r.kind].actions
    IN  CASE ~ Offers(r.kind, "Action") \/ action \notin DOMAIN actions -> {Error("NotFound")}
          [] Offers(r.kind, "Action") /\ action \in DOMAIN actions ->
                 IF actions[action] # << >> /\ (body = << >> \/ Mistyped(actions[action][1], body[1]))
                 THEN {Error("InvalidBodyContent")} ELSE {Made([r EXCEPT !.action = <<action>>])}

(* The resource is filled first, whatever comes of it.                       *)
fillResource(r, body) ==
    LET t == RaKinds[r.kind].type
        filled == IF body = << >> THEN r ELSE [r EXCEPT !.value = Unmarshal(t, @, body[1])]
        raw == IF body = << >> \/ body[1].j = "null" THEN << >> ELSE body[1].v
    IN  CASE raFields[r.kind] = << >> -> {Made(filled)}
          [] raFields[r.kind] # << >> /\ body # << >> /\ body[1].j \notin {"obj", "null"} -> {Error("InvalidBodyContent")}
          [] OTHER -> {IF ok THEN Made(filled) ELSE Error("InvalidBodyContent") :
                          ok \in structValidate(<< >>, raFields[r.kind], t, filled.value, raw)}

validateAndFillResource(r, method, action, body) ==
    CASE method = "POST" /\ action # "" -> parseAction(r, action, body)
      [] method \in {"POST", "PUT"} /\ ~ (method = "POST" /\ action # "") -> fillResource(r, body)
      [] OTHER -> {Made(r)}

RECURSIVE FromSegments(_, _, _, _, _, _), FromChildren(_, _, _, _, _, _)

(* CreateResourceFromPathSegments.                                           *)
FromSegments(kind, ups, segments, method, action, body) ==
    LET r == [Resource(kind, ups) EXCEPT !.id = SubSeq(segments, 2, Min({2, Len(segments)}))]
    IN  CASE segments[1] # RaPlural[kind] -> {NoneYet}
          [] segments[1] = RaPlural[kind] /\ Len(segments) <= 2 -> validateAndFillResource(r, method, action, body)
          [] OTHER -> FromChildren(raChildren[kind], Append(ups, <<kind, segments[2]>>), SubSeq(segments, 3, Len(segments)),
                                   method, action, body)

(* The first child that has a resource or an error.                          *)
FromChildren(kinds, ups, segments, method, action, body) ==
    IF kinds = << >> THEN {Error("NotFound")}
    ELSE LET first == FromSegments(kinds[1], ups, segments, method, action, body)
         IN  IF first = {NoneYet} THEN FromChildren(Tail(kinds), ups, segments, method, action, body) ELSE first

CreateResourceFromRequest(method, path, action, body) ==
    LET segments == SelectSeq(path, LAMBDA s : s # "")
        act == IF method = "POST" THEN action ELSE ""
        sent == IF method \in {"POST", "PUT"} THEN body ELSE << >>
    IN  IF segments = << >> THEN {Error("InvalidFormat")} ELSE FromChildren(raTop, << >>, segments, method, act, sent)

-----------------------------------------------------------------------------
(* Links.                                                                    *)

generateCollectionLink(r) == FlattenSeq([i \in DOMAIN r.ups |-> <<RaPlural[r.ups[i][1]], r.ups[i][2]>>]) \o <<RaPlural[r.kind]>>

(* Every link with the method it is for; a child's is for its collection.    *)
generateResourceLinks(r) ==
    LET self == Append(generateCollectionLink(r), r.id[1])
        Link(handler, rel, method, to) == IF Offers(r.kind, handler) THEN {[rel |-> rel, method |-> method, to |-> to]} ELSE {}
    IN  Link("List", "collection", "GET", generateCollectionLink(r)) \cup Link("Get", "self", "GET", self)
        \cup Link("Update", "update", "PUT", self) \cup Link("Delete", "remove", "DELETE", self)
        \cup {[rel |-> "child", method |-> "", to |-> Append(self, RaPlural[raChildren[r.kind][i]])] : i \in DOMAIN raChildren[r.kind]}

-----------------------------------------------------------------------------
(* The handlers.  What a handler returns is an outcome: "ok" the resource    *)
(* (with an id of its own, after a Create), "error" an error, "none" no      *)
(* resource or one without id, "other" a list of something else.             *)

Answer(status, handler, r, links) == [status |-> status, handler |-> handler, res |-> r, links |-> links]

Refused(code) == Answer(code, "", << >>, {})

(* A resource that has its links, or an error because it has no id.          *)
Linked(status, handler, r) ==
    IF r.id = << >> THEN Answer("ServerError", handler, <<r>>, {}) ELSE Answer(status, handler, <<r>>, generateResourceLinks(r))

handleCreate(r, outcome, id) ==
    CASE ~ Offers(r.kind, "Create") -> Refused("NotFound")
      [] Offers(r.kind, "Create") /\ outcome = "error" -> Answer("error", "Create", <<r>>, {})
      [] OTHER -> Linked("Created", "Create", [r EXCEPT !.id = IF outcome = "ok" THEN <<id>> ELSE << >>])

handleDelete(r, outcome) ==
    CASE ~ Offers(r.kind, "Delete") -> Refused("NotFound")
      [] Offers(r.kind, "Delete") /\ outcome = "error" -> Answer("error", "Delete", <<r>>, {})
      [] OTHER -> Answer(IF RaKinds[r.kind].async THEN "Accepted" ELSE "NoContent", "Delete", <<r>>, {})

handleUpdate(r, outcome) ==
    CASE ~ Offers(r.kind, "Update") -> Refused("NotFound")
      [] Offers(r.kind, "Update") /\ outcome = "error" -> Answer("error", "Update", <<r>>, {})
      [] OTHER -> Linked("OK", "Update", IF outcome = "ok" THEN r ELSE [r EXCEPT !.id = << >>])

(* The members of the list, in a tuple: one, with an id, or none; the list   *)
(* must be of resources of this kind.                                        *)
NewResourceCollection(r, outcome, id) ==
    CASE outcome = "ok" -> <<{[r EXCEPT !.id = <<id>>]}>>
      [] outcome = "none" -> <<{}>>
      [] outcome = "other" -> << >>

AddLinksToResourceCollection(r, members) ==
    {[rel |-> "self", method |-> "GET", to |-> generateCollectionLink(r)]} \cup UNION {generateResourceLinks(m) : m \in members}

ListAll(r, outcome, id) ==
    CASE ~ Offers(r.kind, "List") -> Refused("NotFound")
      [] Offers(r.kind, "List") /\ outcome = "error" -> Answer("error", "List", <<r>>, {})
      [] OTHER -> LET rc == NewResourceCollection(r, outcome, id)
                  IN  IF rc = << >> THEN Answer("ServerError", "List", <<r>>, {})
                      ELSE Answer("OK", "List", <<r>>, AddLinksToResourceCollection(r, rc[1]))

GetOne(r, outcome) ==
    CASE ~ Offers(r.kind, "Get") -> Refused("NotFound")
      [] Offers(r.kind, "Get") /\ outcome \in {"error", "none"} -> Answer(IF outcome = "none" THEN "NotFound" ELSE "error", "Get", <<r>>, {})
      [] OTHER -> Linked("OK", "Get", r)

handleList(r, outcome, id) == IF r.id = << >> THEN ListAll(r, outcome, id) ELSE GetOne(r, outcome)

handleAction(r, outcome) == Answer(IF outcome = "error" THEN "error" ELSE "OK", "Action", <<r>>, {})

restHandler(r, method, outcome, id) ==
    CASE r.action # << >> -> handleAction(r, outcome)
      [] r.action = << >> /\ method = "GET" -> handleList(r, outcome, id)
      [] r.action = << >> /\ method = "POST" -> handleCreate(r, outcome, id)
      [] r.action = << >> /\ method = "PUT" -> handleUpdate(r, outcome)
      [] r.action = << >> /\ method = "DELETE" -> handleDelete(r, outcome)

ServeHTTP(q, outcome, id) ==
    {IF made.err # "" THEN Refused(made.err) ELSE restHandler(made.res[1], q.method, outcome, id) :
        made \in CreateResourceFromRequest(q.method, q.path, q.action, q.body)}

RaInit ==
    /\ raTop = << >>
    /\ raChildren = [k \in DOMAIN RaKinds |-> << >>]
    /\ raFields = << >>
    /\ raFailed = FALSE

RaNext == ~ raFailed /\ \E kind \in DOMAIN RaKinds : Import(kind)

RaSpec == RaInit /\ [][RaNext]_raVars

-----------------------------------------------------------------------------
(* What the API promises of an imported kind, read off the kinds.            *)

RECURSIVE Chains(_)

(* The ways from a kind without parents down to a kind.                      *)
Chains(kind) ==
    LET ps == RaKinds[kind].parents
    IN  IF ps = << >> THEN {<<kind>>} ELSE UNION {{Append(c, kind) : c \in Chains(ps[i])} : i \in DOMAIN ps}

Path(chain, ids) == FlattenSeq([i \in DOMAIN chain |-> IF i \in DOMAIN ids THEN <<RaPlural[chain[i]], ids[i]>> ELSE <<RaPlural[chain[i]]>>])

Request(handler, chain, ids, action, body) ==
    [method |-> CASE handler \in {"List", "Get"} -> "GET" [] handler \in {"Create", "Action"} -> "POST"
                  [] handler = "Update" -> "PUT" [] handler = "Delete" -> "DELETE",
     path |-> Path(chain, IF handler \in {"List", "Create"} THEN Front(ids) ELSE ids), action |-> action, body |-> body]

Null == [j |-> "null"]

(* A body that is what the tags of its kind ask for.                         *)
Acceptable(kind, body) ==
    LET t == RaKinds[kind].type
    IN  CASE ~ Tags(t) -> TRUE
          [] Tags(t) /\ (body = << >> \/ body = <<Null>>) -> Fits(t, RaKinds[kind].default, << >>)
          [] OTHER -> body[1].j = "obj" /\ Fits(t, Unmarshal(t, RaKinds[kind].default, body[1]), body[1].v)

RECURSIVE Shape(_)

(* What a JSON value mentions.                                               *)
Shape(json) ==
    CASE json.j = "obj" -> [n \in DOMAIN json.v |-> <<json.v[n].same, Shape(json.v[n].val)>>]
      [] json.j = "arr" -> [i \in DOMAIN json.v |-> Shape(json.v[i])]
      [] OTHER -> json.j

RECURSIVE Oddities(_, _)

(* Where the walk does not compare a value with what was said of it: entries *)
(* of a map of structs that do not mention the same (it takes the entries of *)
(* the two maps as they come), and a struct embedded in a nested one (it     *)
(* looks for the nested struct's name once more, inside it).                 *)
OdditiesOf(fd, raw) ==
    LET kind == Inspect(fd.type)
        json == Lookup(raw, fieldJsonName(fd))[1]
        inner == IF fd.type.k = "ptr" THEN Elem(fd.type) ELSE fd.type
    IN  CASE fd.embedded -> Oddities(fd.type, raw)
          [] ~ fd.embedded /\ (kind[2] # "struct" \/ ~ Present(raw, fieldJsonName(fd))) -> {}
          [] OTHER ->
                 CASE kind[1] \in {"", "ptr"} /\ json.j = "obj" ->
                          {o \in {"embedded"} : \E i \in DOMAIN inner.fields : inner.fields[i].embedded} \cup Oddities(inner, json.v)
                   [] kind[1] \in {"map", "mapPtr"} /\ json.j = "obj" ->
                          {o \in {"uneven"} : \E m, n \in DOMAIN json.v : Shape(json.v[m].val) # Shape(json.v[n].val)}
                              \cup UNION {Oddities(Elem(fd.type), json.v[n].val.v) : n \in {m \in DOMAIN json.v : json.v[m].val.j = "obj"}}
                   [] kind[1] \in {"slice", "slicePtr"} /\ json.j = "arr" ->
                          UNION {Oddities(Elem(fd.type), json.v[i].v) : i \in {h \in DOMAIN json.v : json.v[h].j = "obj"}}
                   [] OTHER -> {}

Oddities(t, raw) ==
    IF t.k = "ptr" THEN Oddities(Elem(t), raw) ELSE UNION {OdditiesOf(t.fields[i], raw) : i \in DOMAIN t.fields}

(* The request reaches the handler with the ids and the body it was sent     *)
(* for, if the body may pass; links lead to requests that are routed.        *)
Served(routes, handler, chain, ids, action, body) ==
    LET kind == Last(chain)
        q == Request(handler, chain, ids, action, body)
        ups == [i \in 1..(Len(chain) - 1) |-> <<chain[i], ids[i]>>]
        passes == CASE handler \in {"Create", "Update"} -> Acceptable(kind, body)
                    [] handler = "Action" -> LET input == RaKinds[kind].actions[action]
                                             IN  input = << >> \/ (body # << >> /\ ~ Mistyped(input[1], body[1]))
                    [] OTHER -> TRUE
        odd == IF handler \in {"Create", "Update"} /\ body # << >> /\ body[1].j = "obj" THEN Oddities(RaKinds[kind].type, body[1].v) ELSE {}
        refused == Refused("InvalidBodyContent")
        Delivered(a) ==
            /\ a.handler = handler /\ a.res[1].kind = kind /\ a.res[1].ups = ups
            /\ a.res[1].id = (IF handler = "List" THEN << >> ELSE <<Last(ids)>>)
            /\ \A l \in a.links : IF l.method = "" THEN Front(l.to) = Path(chain, ids) ELSE Routed(routes, l.method, l.to)
    IN  /\ Routed(routes, q.method, q.path)
        /\ \A outcome \in {"error", "none", "other"} : \A a \in ServeHTTP(q, outcome, Last(ids)) :
               a.handler = handler \/ (a = refused /\ (passes => odd # {}))
        /\ Bind(ServeHTTP(q, "ok", Last(ids)), LAMBDA answers :
               /\ \A a \in answers : a = refused \/ Delivered(a)
               /\ odd = {} => \A a \in answers : a = refused <=> ~ passes
               /\ odd = {"uneven"} => \E a \in answers : a = refused <=> ~ passes)

(***************************************************************************)
(* Every handler of every kind that was imported is reached by the request *)
(* made for it, under each of its parents: the route is registered, the    *)
(* handler is the one meant and has the ids of the path, and the links of  *)
(* the answer lead to routes.  A body gets there if and only if it is what *)
(* the tags of the type ask for, with two exceptions: one whose map of     *)
(* structs has entries that mention different fields may be let through or *)
(* refused, by the order in which the maps are walked, and one with a      *)
(* nested struct that embeds another is not judged by the tags of the      *)
(* embedded one.  (Import, GenerateResourceRoute, Validate, restHandler,   *)
(* CreateResourceFromRequest, AddLinksToResource.)                         *)
(***************************************************************************)
RaServes ==
    ~ raFailed => Bind(GenerateResourceRoute, LAMBDA routes :
        \A kind \in DOMAIN raFields : \A handler \in RaKinds[kind].handlers, chain \in Chains(kind) :
            \A ids \in [DOMAIN chain -> RaIds], action \in (IF handler = "Action" THEN DOMAIN RaKinds[kind].actions ELSE {""}),
               body \in (IF handler \in {"Create", "Update", "Action"} THEN RaBodies[kind] ELSE {<< >>}) :
                Served(routes, handler, chain, ids, action, body))
=============================================================================
