------------------------------ MODULE Requests ------------------------------
(* What the endpoints make of a request: the items of a multipart form, and  *)
(* the collection, graph label and cache key its names stand for.  A name is *)
(* a sequence of characters, since the names are joined, replaced in and     *)
(* matched as globs.  Of the values of a form field only the place matters:  *)
(* values[f] says how many came, and an item keeps which one it took.        *)
EXTENDS Naturals, SequencesExt

CONSTANTS
    Requests,       \* [op, system, name, item, values]: name is the collection
                    \* or the service, item the screen or the version
    Default,        \* the system_id "default"
    Digest          \* the MD5 of what else identifies a search

Fields == {"service_name", "screen_name", "version", "access_level", "content"}
Uploads == {"image", "text"}
Questions == {"search", "service", "related"}

ASSUME RequestsAssumption ==
    Requests \subseteq [op : Uploads \cup Questions, system : Seq(STRING),
                        name : Seq(STRING), item : Seq(STRING), values : [Fields -> Nat]]

(* It is a hexadecimal number.                                               *)
ASSUME DigestAssumption == Digest \in STRING \ {":"}

VARIABLES request, pc, items, key

vars == <<request, pc, items, key>>

-----------------------------------------------------------------------------
(* Slip: the two are put together without a colon.                           *)
JoinedPlainly(system, name) == system \o name

Prefixed(system, name) == system \o <<":">> \o name

System(q) == IF q.system = Default THEN <<>> ELSE q.system

(* _prefixed_collection                                                      *)
Collection(q) ==
    IF System(q) = <<>> THEN q.name ELSE Prefixed(System(q), q.name)

(* _age_safe_label                                                           *)
AgeSafeLabel(collection) ==
    FlattenSeq([i \in DOMAIN collection |->
        IF collection[i] = ":" THEN <<"_", "_">> ELSE <<collection[i]>>])

All == <<"a", "l", "l">>

(* Slip: a version given is not part of the key.                             *)
AlwaysAll(version) == All

(* version or "all"                                                          *)
VKey(version) == IF version = <<>> THEN All ELSE version

SearchKey(collection) == <<"rag:search:">> \o collection \o <<":", Digest>>

CacheKey(q) ==
    CASE q.op = "search" -> SearchKey(Collection(q))
      [] q.op = "service" ->
            <<"rag:graph:service:">> \o q.name \o <<":">> \o VKey(q.item)
      [] q.op = "related" ->
            <<"rag:graph:screen:">> \o Collection(q) \o <<":">> \o q.item

(* Slip: rag:search:{collection_name}*                                       *)
PatternUnended(collection) == <<"rag:search:">> \o collection \o <<"*">>

Pattern(collection) == <<"rag:search:">> \o collection \o <<":", "*">>

Stars(p) == {i \in DOMAIN p : p[i] = "*"}

(* Where the i-th character of a pattern has its match, when the star at j   *)
(* stands for what is there before ends[j].                                  *)
Place(p, ends, i) ==
    LET before == {j \in Stars(p) : j < i}
    IN  IF before = {} THEN i ELSE ends[Max(before)] + (i - Max(before) - 1)

(* MATCH of Redis: * is any string, ? any character.  Sets in brackets and   *)
(* escapes are left out.                                                     *)
Matches(p, s) ==
    \E ends \in [Stars(p) -> 1..Len(s) + 1] :
        /\ \A i \in DOMAIN p :
              IF i \in Stars(p) THEN Place(p, ends, i) <= ends[i]
              ELSE /\ Place(p, ends, i) <= Len(s)
                   /\ p[i] \in {"?", s[Place(p, ends, i)]}
        /\ Place(p, ends, Len(p) + 1) = Len(s) + 1

-----------------------------------------------------------------------------
(* _get(lst, i), 0 being the default.                                        *)
Get(n, i) == IF n = 0 THEN 0 ELSE IF i <= n THEN i ELSE 1

(* Slip: screen_names is not padded (the fallback of the other fields).      *)
ScreenUnpadded(n, i) == Get(n, i)

(* screen_names is padded with "".                                           *)
Screen(n, i) == IF i <= n THEN i ELSE 0

(* Slip: the loop of before Bug#7, over the service names.                   *)
LoopOverServices(values) == 1..values["service_name"]

ImageLoop(values) == 1..values["content"]

ImageItem(values, i) ==
    [f \in Fields |-> CASE f = "content" -> i
                        [] f = "screen_name" -> Screen(values[f], i)
                        [] OTHER -> Get(values[f], i)]

TextLoop(values) == 1..values["service_name"]

-----------------------------------------------------------------------------
Init ==
    /\ request \in Requests
    /\ pc = "received" /\ items = <<>> /\ key = <<>>

(* add_rag_data                                                              *)
AddImages ==
    /\ pc = "received" /\ request.op = "image"
    /\ items' = [i \in ImageLoop(request.values) |-> ImageItem(request.values, i)]
    /\ key' = Pattern(Collection(request))
    /\ pc' = "accepted"
    /\ UNCHANGED request

(* add_rag_text_data: a list shorter than the loop raises IndexError.        *)
AddTexts ==
    /\ pc = "received" /\ request.op = "text"
    /\ IF \A i \in TextLoop(request.values) : \A f \in Fields : i <= request.values[f]
       THEN /\ items' = [i \in TextLoop(request.values) |-> [f \in Fields |-> i]]
            /\ key' = Pattern(Collection(request))
            /\ pc' = "accepted"
       ELSE pc' = "error" /\ UNCHANGED <<items, key>>
    /\ UNCHANGED request

(* search_rag, get_screens_by_service and get_related_screens                *)
Ask ==
    /\ pc = "received" /\ request.op \in Questions
    /\ key' = CacheKey(request)
    /\ pc' = "accepted"
    /\ UNCHANGED <<request, items>>

Next == AddImages \/ AddTexts \/ Ask

Spec == Init /\ [][Next]_vars

-----------------------------------------------------------------------------
Without(name, chars) == ToSet(name) \cap chars = {}

(* Plain(q): the names of q have no colon.                                   *)
Plain(q) == \A name \in {q.system, q.name, q.item} : Without(name, {":"})

(* Tame(name): no underscore meets another, or a colon when names are joined.*)
Tame(name) ==
    name # <<>> =>
        /\ name[1] # "_" /\ name[Len(name)] # "_"
        /\ \A i \in 1..Len(name) - 1 : name[i] = "_" => name[i + 1] # "_"

(* EveryItemComplete: each image of a form, and each service of a text form, *)
(* becomes an item with the values that were sent in its place, however many *)
(* the other fields have; a text form that lacks some is refused as a whole. *)
EveryItemComplete ==
    request.op \in Uploads /\ pc = "accepted" =>
        /\ Len(items) = request.values[IF request.op = "image" THEN "content"
                                                               ELSE "service_name"]
        /\ \A i \in DOMAIN items : \A f \in Fields :
              IF request.op = "text" \/ i <= request.values[f]
              THEN items[i][f] = i /\ i <= request.values[f]
              ELSE items[i][f] \in {0, 1}

(* NoBorrowedScreen: no two items have one screen_name value or one content: *)
(* an image is never stored under the name of another's screen.              *)
NoBorrowedScreen ==
    \A i, j \in DOMAIN items : \A f \in {"screen_name", "content"} :
        items[i][f] = items[j][f] /\ items[i][f] # 0 => i = j

(* NamesApart: without colons, two systems or collections never meet in the  *)
(* vector table, and with tame underscores neither in the graph.             *)
NamesApart ==
    pc = "accepted" /\ Plain(request) => \A q \in Requests :
        Plain(q) /\ <<System(q), q.name>> # <<System(request), request.name>> =>
            /\ Collection(q) # Collection(request)
            /\ (\A r \in {q, request} : Tame(r.system) /\ Tame(r.name)) =>
                  AgeSafeLabel(Collection(q)) # AgeSafeLabel(Collection(request))

(* What a question is about.                                                 *)
About(q) ==
    CASE q.op = "search" -> <<System(q), q.name>>
      [] q.op = "service" -> <<q.name, q.item>>
      [] q.op = "related" -> <<System(q), q.name, q.item>>

(* KeysApart: without colons, and but for a version called "all" beside none,*)
(* only one question is answered from a cache key.                           *)
KeysApart ==
    request.op \in Questions /\ pc = "accepted" /\ Plain(request) => \A q \in Requests :
        /\ q.op \in Questions /\ Plain(q) /\ {q.item, request.item} # {<<>>, All}
        /\ CacheKey(q) = key
        => q.op = request.op /\ About(q) = About(request)

(* SweepReach: an upload's pattern matches all search keys of its collection,*)
(* whatever the name but for [ and \, and without * and ? no others but those*)
(* of collections that continue it after a colon.                            *)
SweepReach ==
    request.op \in Uploads /\ pc = "accepted" =>
        LET c == Collection(request)
        IN  Without(c, {"[", "\\"}) =>
              /\ Matches(key, SearchKey(c))
              /\ Without(c, {"*", "?"}) => \A q \in Requests :
                    q.op = "search" /\ Matches(key, CacheKey(q)) =>
                        IsPrefix(c \o <<":">>, Collection(q) \o <<":">>)
=============================================================================
