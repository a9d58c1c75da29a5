-------------------------------- MODULE Bodies --------------------------------
(***************************************************************************)
(* What the API gateway makes of a body: the request pipe sanitizes it and *)
(* takes fields out, the interceptor converts an answer and wraps it, and  *)
(* TransformationService converts data between versions.  Each walks a     *)
(* tree of its own accord; the properties compare them with what they say  *)
(* of the tree's nodes.                                                    *)
(***************************************************************************)
EXTENDS Naturals, SequencesExt, FiniteSetsExt

CONSTANTS Keys, Texts,              \* what bodies are made of
          Chains, Widths,           \* and how deep and how wide others are
          maxDepth, maxProperties   \* of a body that is let through

VARIABLES body, version, stage, result

vars == <<body, version, stage, result>>

(* A value: a text, a date, or a list or an object and its fields, in the  *)
(* order they were written.  A list's keys are its indices.                *)
Leaf(kind) == [kind |-> kind, fields |-> <<>>]
Tree(kind, fields) == [kind |-> kind, fields |-> fields]
Field(key, value) == [key |-> key, value |-> value]

IsObject(v) == v.kind \in {"object", "list", "date"}
IsTree(v) == v.kind \in {"object", "list"}
Truthy(v) == v.kind # "empty"

Has(v, key) == v.kind = "object" /\ \E i \in DOMAIN v.fields : v.fields[i].key = key
Get(v, key) == v.fields[CHOOSE i \in DOMAIN v.fields : v.fields[i].key = key].value
Without(v, removed) == [v EXCEPT !.fields = SelectSeq(@, LAMBDA f : f.key \notin removed)]

(* An assignment keeps the place of a key the object has.                  *)
Put(v, key, value) ==
    IF Has(v, key)
    THEN [v EXCEPT !.fields = [i \in DOMAIN @ |-> IF @[i].key = key THEN Field(key, value) ELSE @[i]]]
    ELSE [v EXCEPT !.fields = Append(@, Field(key, value))]

Spread(v) == [v EXCEPT !.kind = "object"]

Children(v) == {v.fields[i].value : i \in DOMAIN v.fields}

(* How deep the trees are that are handled below; v and what is in it.     *)
Height == Max(Chains \cup {3})
Within(v) == FoldSet(LAMBDA n, found : found \cup UNION {Children(w) : w \in found}, {v}, 1..Height)

(* What is made of a tree, by what is made of each of its nodes and of the *)
(* values in it: the recursion of every function below.                    *)
Walk(v, Make(_, _)) ==
    LET made[w \in Within(v)] == Make(w, [i \in DOMAIN w.fields |-> made[w.fields[i].value]])
    IN made[v]

Refilled(v, values) == [v EXCEPT !.fields = [i \in DOMAIN @ |-> Field(@[i].key, values[i])]]
-----------------------------------------------------------------------------
(* RequestTransformPipe.                                                   *)
Dangerous == {"$key"}
removeFields == {"password"}

(* Markup is cut out and blanks are trimmed, whatever is left.             *)
sanitizeString(kind) == CASE kind = "padded" -> "plain"
                          [] kind = "markup" -> "empty"
                          [] OTHER -> kind

sanitizeObject(v) == Walk(v, LAMBDA w, made :
    IF IsTree(w) THEN Without(Refilled(w, made), Dangerous) ELSE Leaf(sanitizeString(w.kind)))

(* A slip in removeSensitiveFields: the items of a list are passed over.   *)
RemoveOutsideLists(v) == Walk(v, LAMBDA w, made :
    IF w.kind = "object" THEN Without(Refilled(w, made), removeFields) ELSE w)

removeSensitiveFields(v) == Walk(v, LAMBDA w, made :
    IF IsTree(w) THEN Without(Refilled(w, made), removeFields) ELSE w)

(* It is cut short one level past maxDepth.                                *)
getObjectDepth(v) == Min({maxDepth + 1, Walk(v, LAMBDA w, made :
    Max({0} \cup {made[i] + 1 : i \in {j \in DOMAIN made : IsTree(w.fields[j].value)}}))})

getObjectPropertyCount(v) == Walk(v, LAMBDA w, made :
    FoldFunction(LAMBDA m, n : m + n, Len(w.fields), made))

validateTransformedObject(v) == getObjectDepth(v) <= maxDepth /\ getObjectPropertyCount(v) <= maxProperties

Refused == Leaf("refused")

(* The spread makes an object of a list.  No version is in the metadata    *)
(* the pipe is given, so the body is never converted.                      *)
transform(v) ==
    IF ~IsTree(v) THEN v
    ELSE LET transformed == removeSensitiveFields(sanitizeObject(Spread(v)))
         IN IF validateTransformedObject(transformed) THEN transformed ELSE Refused
-----------------------------------------------------------------------------
(* VersioningService and TransformationService convert keys alike; what    *)
(* has no keys of its own, such as a date, comes out as an empty object.   *)
SnakeOf == [userId |-> "user_id", createdAt |-> "created_at", updatedAt |-> "updated_at"]
snakeKey(key) == IF key \in DOMAIN SnakeOf THEN SnakeOf[key] ELSE key
camelKey(key) == IF key \in Range(SnakeOf) THEN CHOOSE k \in DOMAIN SnakeOf : SnakeOf[k] = key ELSE key

Respelled(v, spell(_)) == Walk(v, LAMBDA w, made :
    CASE w.kind = "list" -> Refilled(w, made)
      [] w.kind \in {"object", "date"} ->
             FoldLeft(LAMBDA acc, f : Put(acc, spell(f.key), f.value),
                      Tree("object", <<>>), Refilled(w, made).fields)
      [] OTHER -> w)

convertKeysToSnakeCase(v) == Respelled(v, snakeKey)
convertKeysToCamelCase(v) == Respelled(v, camelKey)

(* ResponseTransformInterceptor.                                           *)
transformV1Response(v) == convertKeysToSnakeCase(v)

transformResponseForVersion(v) == IF version = "v1" THEN transformV1Response(v) ELSE v

applyVersionTransformation(v) == IF Truthy(v) THEN transformResponseForVersion(v) ELSE v

Unpaged(v) == [data |-> v, pagination |-> <<>>]

Paginated(v) == Has(v, "pagination") /\ Truthy(Get(v, "pagination"))

(* The pages go into the metadata as the handler gave them.                *)
transformSuccessResponse(v) ==
    LET data == applyVersionTransformation(v)
        moved == Paginated(v) /\ Paginated(data)
    IN [data |-> IF moved THEN Without(data, {"pagination"}) ELSE data,
        pagination |-> IF Paginated(v) THEN <<Get(v, "pagination")>> ELSE <<>>]
-----------------------------------------------------------------------------
(* TransformationService.                                                  *)
Rename(from, to) == [transformation |-> "rename", field |-> from, to |-> to]
Rule(transformation) == [transformation |-> transformation, field |-> "metadata", to |-> "metadata"]

v1ToV2Schema == <<Rename("user_id", "userId"), Rename("created_at", "createdAt"),
                  Rename("updated_at", "updatedAt"), Rule("default")>>
v2ToV1Schema == <<Rename("userId", "user_id"), Rename("createdAt", "created_at"),
                  Rename("updatedAt", "updated_at"), Rule("remove")>>

applyRenameRule(v, rule) ==
    IF Has(v, rule.field) THEN Without(Put(v, rule.to, Get(v, rule.field)), {rule.field}) ELSE v

applyRemoveRule(v, rule) == Without(v, {rule.field})

applyDefaultRule(v, rule) == IF Has(v, rule.field) THEN v ELSE Put(v, rule.field, Tree("object", <<>>))

applyTransformationRule(v, rule) ==
    CASE rule.transformation = "rename" -> applyRenameRule(v, rule)
      [] rule.transformation = "remove" -> applyRemoveRule(v, rule)
      [] rule.transformation = "default" -> applyDefaultRule(v, rule)

(* A date spread out has no fields.                                        *)
applyTransformationSchema(v, rules) == Walk(v, LAMBDA w, made :
    CASE w.kind = "list" -> Refilled(w, made)
      [] w.kind \in {"object", "date"} -> FoldLeft(applyTransformationRule, Spread(w), rules)
      [] OTHER -> w)

transformData(v, from, to) ==
    IF ~Truthy(v) \/ from = to THEN v
    ELSE applyTransformationSchema(v, IF from = "v1" THEN v1ToV2Schema ELSE v2ToV1Schema)

(* Its own copy of the pipe's removal, which makes objects of lists.       *)
applyRequestSanitization(v) == Walk(v, LAMBDA w, made :
    IF IsObject(w) THEN Spread(Without(Refilled(w, made), removeFields)) ELSE w)

transformToV1Request(v) == convertKeysToSnakeCase(v)
transformToV2Request(v) == convertKeysToCamelCase(v)

transformRequestData(v) ==
    IF version = "v1" THEN transformToV1Request(applyRequestSanitization(v))
                      ELSE transformToV2Request(applyRequestSanitization(v))

transformToV1Response(v) ==
    LET transformed == convertKeysToSnakeCase(v)
    IN IF Has(transformed, "metadata") /\ Truthy(Get(transformed, "metadata"))
       THEN Without(transformed, {"metadata"}) ELSE transformed

Stamp == Tree("object", <<Field("version", Leaf("plain")), Field("timestamp", Leaf("plain"))>>)

(* On a list the metadata is a property of the list, which is not sent.    *)
transformToV2Response(v) ==
    LET transformed == convertKeysToCamelCase(v)
        given == Has(transformed, "metadata") /\ Truthy(Get(transformed, "metadata"))
    IN IF given \/ transformed.kind = "list" THEN transformed ELSE Put(transformed, "metadata", Stamp)

transformResponseData(v) ==
    IF ~IsObject(v) THEN v
    ELSE IF version = "v1" THEN transformToV1Response(v) ELSE transformToV2Response(v)
-----------------------------------------------------------------------------
(* The bodies: fields of each kind and spelling, nested and in lists, the  *)
(* second of two only a text; and some as deep or as wide as is allowed.   *)
Small == {Leaf(kind) : kind \in Texts} \cup
         {Tree("list", <<>>), Tree("list", <<Field("0", Leaf("padded"))>>)} \cup
         {Tree("object", <<Field(k, Leaf(kind))>>) : k \in Keys, kind \in {"padded", "date"}}

Nested == Small \cup {Tree("list", <<Field("0", v)>>) : v \in {w \in Small : w.kind = "object"}}

Data == Nested \cup {Tree("object", <<Field(k, v)>>) : k \in Keys, v \in Nested} \cup
        {Tree("object", <<Field(kl[1], v), Field(kl[2], Leaf("markup"))>>) :
             kl \in {pair \in Keys \X Keys : pair[1] # pair[2]}, v \in Small}

Chain[n \in Nat] ==
    IF n = 0 THEN Leaf("plain") ELSE Tree("object", <<Field("inner", Chain[n - 1])>>)

Wide(n) == Tree("object", [i \in 1..n |-> Field(ToString(i), Leaf("plain"))])

(* What comes with a request is an object or a list, and holds no date.    *)
HoldsDate(v) == \E w \in Within(v) : w.kind = "date"

Received == {v \in Data : IsTree(v) /\ ~HoldsDate(v)} \cup {Chain[n] : n \in Chains} \cup {Wide(n) : n \in Widths}

(* No body is under way.                                                   *)
Rest == body = Leaf("empty") /\ version = "v1" /\ stage = "rest" /\ result = Unpaged(body)

Init == /\ \/ stage = "body" /\ body \in Received
           \/ stage = "data" /\ body \in Data
        /\ version \in {"v1", "v2"}
        /\ result = Unpaged(body)

Process(from, to, made) ==
    /\ stage = from /\ stage' = to
    /\ result' = made
    /\ UNCHANGED <<body, version>>

request == Process("body", "request", Unpaged(transform(body)))

answer == Process("data", "answer", transformSuccessResponse(body))

Other == IF version = "v1" THEN "v2" ELSE "v1"

convert == Process("data", "converted", Unpaged(transformData(body, Other, version)))

requestData == Process("data", "requestData", Unpaged(transformRequestData(body)))

responseData == Process("data", "responseData", Unpaged(transformResponseData(body)))

Next == request \/ answer \/ convert \/ requestData \/ responseData

Spec == Init /\ [][Next]_vars
-----------------------------------------------------------------------------
(* The nodes of a tree: the keys that lead to each, and its kind.          *)
Nodes(v) == Walk(v, LAMBDA w, made :
    {[path |-> <<>>, kind |-> w.kind]} \cup
        UNION {{[n EXCEPT !.path = <<w.fields[i].key>> \o @] : n \in made[i]} : i \in DOMAIN made})

Through(n, keys) == \E i \in DOMAIN n.path : n.path[i] \in keys

Named(key) == IF version = "v1" THEN snakeKey(key) ELSE camelKey(key)

Renamed(nodes) == {[n EXCEPT !.path = [i \in DOMAIN @ |-> Named(@[i])]] : n \in nodes}

Turned(nodes, kinds) == {[n EXCEPT !.kind = IF @ \in kinds THEN "object" ELSE @] : n \in nodes}

(* No two fields of one object are spellings of one name.                  *)
OneSpelling(v) == \A w \in Within(v) : \A i, j \in DOMAIN w.fields :
    snakeKey(w.fields[i].key) = snakeKey(w.fields[j].key) => i = j

(* A tree of these nodes; where two had one name, of one of them.          *)
Holds(v, nodes) ==
    /\ Nodes(v) \subseteq nodes
    /\ \A m, n \in Nodes(v) : m.path = n.path => m = n
    /\ OneSpelling(body) => Nodes(v) = nodes

(* A handler is given each node of the body that no forbidden key leads    *)
(* to, and nothing else, its texts clean, a list as an object; and a body  *)
(* is refused for the depth and the width of what is left of it.           *)
RequestAccounted ==
    LET left == {n \in Nodes(body) : ~Through(n, Dangerous \cup removeFields)}
        within == /\ \A n \in left : n.kind \in {"object", "list"} => Len(n.path) <= maxDepth
                  /\ Cardinality(left) <= maxProperties + 1
        given(n) == IF n.path = <<>> THEN "object" ELSE sanitizeString(n.kind)
    IN IF within THEN Nodes(result.data) = {[n EXCEPT !.kind = given(n)] : n \in left}
                 ELSE result.data = Refused

(* An answer is the data in the client's version, less the pages, which go *)
(* with it as they were.                                                   *)
AnswerAccounted ==
    LET pages == {n \in Nodes(body) : n.path # <<>> /\ n.path[1] = "pagination"}
        apart == IF Paginated(body) THEN pages ELSE {}
        kept == Nodes(body) \ apart
    IN /\ IF version = "v1" THEN Holds(result.data, Turned(Renamed(kept), {"date"}))
                            ELSE Nodes(result.data) = kept
       /\ result.pagination = IF Paginated(body) THEN <<Get(body, "pagination")>> ELSE <<>>

(* Data in the spelling of a version converted to the other and back is as *)
(* it was, but for the metadata, which the first knows nothing of.         *)
Spelled(v) == Walk(v, LAMBDA w, made :
    /\ w.kind # "date"
    /\ \A i \in DOMAIN w.fields :
          w.fields[i].key = IF version = "v1" THEN camelKey(w.fields[i].key)
                                              ELSE snakeKey(w.fields[i].key)
    /\ w.kind = "list" => \A i \in DOMAIN made : made[i])

RoundTrip == Spelled(body) =>
    LET known(v) == {n \in Nodes(v) : ~Through(n, {"metadata"})}
    IN known(transformData(result.data, version, Other)) = known(body)

(* TransformationService takes out what the pipe does, and renames the     *)
(* rest; unlike the pipe it makes objects of lists.                        *)
RequestDataAccounted ==
    LET left == {n \in Nodes(body) : ~Through(n, removeFields)}
    IN Holds(result.data, Turned(Renamed(left), {"date", "list"}))

(* The data it answers with is the data renamed, and has metadata of its   *)
(* own in the second version alone.                                        *)
ResponseDataAccounted ==
    LET own(n) == n.path # <<>> /\ n.path[1] = "metadata"
        renamed == Turned(Renamed(Nodes(body)), {"date"})
        first == {n \in Nodes(result.data) : ~own(n)}
    IN IF ~IsObject(body) THEN result.data = body
       ELSE /\ first \subseteq renamed
            /\ OneSpelling(body) => first = {n \in renamed : ~own(n)}
            /\ result.data.kind = "object" /\ version = "v2" => Has(result.data, "metadata")
            /\ version = "v1" /\ Has(result.data, "metadata") =>
                   ~Truthy(Get(result.data, "metadata"))

(* Each way a body goes, every node of it is where the conversions put it  *)
(* or was taken out by a rule, and none is made up.                        *)
BodiesAccounted == /\ stage = "request" => RequestAccounted
                   /\ stage = "answer" => AnswerAccounted
                   /\ stage = "converted" => RoundTrip
                   /\ stage = "requestData" => RequestDataAccounted
                   /\ stage = "responseData" => ResponseDataAccounted
=============================================================================
