------------------------------ MODULE PathRouter ------------------------------
(***************************************************************************)
(* path_router: which resource serves a request, and what it is given.     *)
(* Resources are added while the server is built; then the router, which   *)
(* is const from there on, routes requests.  A static resource is given a  *)
(* file name below its root, a dynamic one the parameters of the path and  *)
(* of the query.                                                           *)
(***************************************************************************)
EXTENDS Url, Pattern, Listing, SequencesExt

CONSTANTS
  Method,     \* the methods resources may be added for
  Location,   \* the locations they may be added at
  Uri,        \* the uris requests may have
  MaxRoutes   \* bound: resources added

ASSUME RouterAssumption ==
  /\ "GET" \in Method
  /\ Location \subseteq Seq(STRING)
  /\ Uri \subseteq Seq(STRING)
  /\ MaxRoutes \in Nat

Request == [method : Method \cup {"HEAD"}, uri : Uri]
Entry == [location : Location, kind : {"static", "dynamic"}, id : 1..MaxRoutes]

VARIABLES
  resources,  \* path_router::resources, the handlers of each method
  added,      \* history: the entries added, with their methods
  served      \* what became of the request, once there is one

rvars == <<resources, added, served>>

Unserved == <<>>

RouterInit ==
  /\ resources = [method \in Method |-> <<>>]
  /\ added = {}
  /\ served = Unserved

-----------------------------------------------------------------------------
Sorted(handlers) ==
  \A j, k \in DOMAIN handlers : j < k => Len(handlers[j].location) >= Len(handlers[k].location)

Arrangements(handlers) ==
  {[k \in DOMAIN handlers |-> handlers[p[k]]] : p \in Bijection(DOMAIN handlers, DOMAIN handlers)}

\* Mutants of Sorting: the shortest location comes first; a location that is there
\* already is not added again.
SortingShortestFirst(handlers) ==
  {Reverse(t) : t \in {a \in Arrangements(handlers) : Sorted(a)}}
SortingUnique(handlers) ==
  LET firsts == {k \in DOMAIN handlers : \A j \in 1..(k - 1) : handlers[j].location # handlers[k].location}
  IN  {t \in Arrangements(SetToSeq({handlers[k] : k \in firsts})) : Sorted(t)}

\* std::sort is not stable: locations of one length come in any order.
Sorting(handlers) == {t \in Arrangements(handlers) : Sorted(t)}

\* path_router::add; a static resource is always added for GET.
Add(method, location, kind) ==
  /\ Cardinality(added) < MaxRoutes
  /\ kind = "static" => method = "GET"
  /\ LET entry == [location |-> location, kind |-> kind, id |-> Cardinality(added) + 1]
     IN  /\ \E t \in Sorting(Append(resources[method], entry)) :
              resources' = [resources EXCEPT ![method] = t]
         /\ added' = added \cup {<<method, entry>>}
  /\ UNCHANGED served

-----------------------------------------------------------------------------
\* Mutant of Acceptable: ".." is looked for at the start only.
AcceptableStart(path) == path # <<>> /\ path[1] = "/" /\ ~IsPrefix(<<"/", ".", ".">>, path)

Acceptable(path) ==
  /\ path # <<>> /\ path[1] = "/"
  /\ \A i \in 1..(Len(path) - 1) : ~(path[i] = "." /\ path[i + 1] = ".")

\* HEAD requests are given to the handlers of GET.
Handled(method) == IF method = "HEAD" THEN "GET" ELSE method

\* static_content::serve_if_match and dynamic_content::serve_if_match, the decision.
Matches(entry, path) ==
  IF entry.kind = "static"
  THEN IsPrefix(entry.location, path)
  ELSE MatchPattern(entry.location, Before(path, "?")) # {}

\* request_path.relative_path(): the leading slashes go.
Relative(path) ==
  LET slashes == {i \in DOMAIN path : \A j \in 1..i : path[j] = "/"}
  IN  SubSeq(path, Cardinality(slashes) + 1, Len(path))

\* handle_query_parameters: the pieces between '&', the last one of a key counting.
QueryParameters(query) ==
  LET params[i \in 1..(Len(query) + 2)] ==
        IF i > Len(query) THEN <<>>
        ELSE LET end   == Find(query, "&", i)
                 param == SubSeq(query, i, end - 1)
             IN  WithDefault(params[end + 1], Before(param, "="), After(param, "="))
  IN  params[1]

\* What the resource is given: a file below its root, or a request.
Given(entry, path) ==
  IF entry.kind = "static"
  THEN {[file |-> Relative(SubSeq(path, Len(entry.location) + 1, Len(path)))]}
  ELSE {[resources |-> params, querystring |-> QueryParameters(After(path, "?"))] :
          params \in MatchPattern(entry.location, Before(path, "?"))}

\* The first handler that serves the path.
First(handlers, path) ==
  {k \in DOMAIN handlers : Matches(handlers[k], path) /\ \A j \in 1..(k - 1) : ~Matches(handlers[j], path)}

-----------------------------------------------------------------------------
(***************************************************************************)
(* path_router::operator(), by what it ends with.                          *)
(***************************************************************************)
BadRequest(req) ==
  /\ \A path \in UrlDecode(req.uri) : ~Acceptable(path)
  /\ served' = [request |-> req, status |-> "bad_request"]
  /\ UNCHANGED <<resources, added>>

NotFound(req) ==
  /\ \E path \in UrlDecode(req.uri) :
       /\ Acceptable(path)
       /\ First(resources[Handled(req.method)], path) = {}
       /\ served' = [request |-> req, status |-> "not_found", path |-> path]
  /\ UNCHANGED <<resources, added>>

Serve(req) ==
  /\ \E path \in UrlDecode(req.uri) :
       /\ Acceptable(path)
       /\ \E k \in First(resources[Handled(req.method)], path) :
            LET entry == resources[Handled(req.method)][k]
            IN  \E given \in Given(entry, path) :
                  served' = [request |-> req, status |-> "served", path |-> path,
                             by |-> entry, given |-> given]
  /\ UNCHANGED <<resources, added>>

\* One request is enough: the router is const once it serves.
RouterNext ==
  /\ served = Unserved
  /\ \/ \E method \in Method, location \in Location, kind \in {"static", "dynamic"} :
          Add(method, location, kind)
     \/ \E req \in Request : BadRequest(req) \/ NotFound(req) \/ Serve(req)

RouterSpec == RouterInit /\ [][RouterNext]_rvars

-----------------------------------------------------------------------------
(***************************************************************************)
(* Properties.                                                             *)
(***************************************************************************)
Candidates(req, path) ==
  {e \in {a[2] : a \in {b \in added : b[1] = Handled(req.method)}} : Matches(e, path)}

\* The handlers of a method are the resources added for it, each once, sorted by the
\* length of their locations, whatever the order they were added in.
RouterInv ==
  /\ \A method \in Method :
       /\ resources[method] \in Seq(Entry)
       /\ Sorted(resources[method])
       /\ \A j, k \in DOMAIN resources[method] :
            resources[method][j].id = resources[method][k].id => j = k
       /\ {resources[method][k] : k \in DOMAIN resources[method]} = {a[2] : a \in {b \in added : b[1] = method}}
  /\ added \subseteq Method \X Entry
  /\ served # Unserved => served.request \in Request

\* Whatever the order the resources were added in, a request is served by one whose
\* location is the longest of those that match, and it is not found only when no
\* added resource matches.
MostSpecific ==
  served # Unserved =>
    CASE served.status = "bad_request" -> TRUE
      [] served.status = "not_found" -> Candidates(served.request, served.path) = {}
      [] served.status = "served" ->
           /\ served.by \in Candidates(served.request, served.path)
           /\ \A e \in Candidates(served.request, served.path) :
                Len(e.location) <= Len(served.by.location)

\* A static resource never gets a file name with "..", or an absolute one, however
\* the uri was escaped and wherever the location ends in it.
Contained ==
  served # Unserved /\ served.status = "served" /\ served.by.kind = "static" =>
    LET file == served.given.file
    IN  /\ file # <<>> => file[1] # "/"
        /\ \A i \in 1..(Len(file) - 1) : ~(file[i] = "." /\ file[i + 1] = ".")

\* A uri is spelled in order: no '%' without two hexadecimal digits after it.
Spelled(uri) ==
  \A i \in DOMAIN uri : uri[i] = "%" => i + 2 \in DOMAIN uri /\ {uri[i + 1], uri[i + 2]} \subseteq HexDigit

\* Then a character is at every place but the two after each '%', and stands for this.
CharacterPlaces(uri) == {i \in DOMAIN uri : \A p \in {i - 2, i - 1} \cap DOMAIN uri : uri[p] # "%"}

Character(uri, i) ==
  CASE uri[i] = "%" -> Escaped(uri[i + 1], uri[i + 2])
    [] uri[i] = "+" -> "SP"
    [] OTHER -> uri[i]

\* url_decode accepts the uris that are spelled in order, and gives the one text
\* they stand for, character by character, each escape decoded once.
DecodeIsExact ==
  served # Unserved =>
    LET uri    == served.request.uri
        places == CharacterPlaces(uri)
    IN  UrlDecode(uri) =
          IF Spelled(uri) THEN {[n \in 1..Cardinality(places) |-> Character(uri, Nth(places, n))]} ELSE {}

\* A text is cut at each '/' and at its ends.  Its segments are between the cuts.
CutsFrom(text, i) == {i - 1, Len(text) + 1} \cup {k \in i..Len(text) : text[k] = "/"}

SegmentsFrom(text, i) ==
  LET cuts == CutsFrom(text, i)
  IN  [n \in 1..(Cardinality(cuts) - 1) |-> SubSeq(text, Nth(cuts, n) + 1, Nth(cuts, n + 1) - 1)]

SegmentsOf(text) == SegmentsFrom(text, 1)

\* A segment of a location may end in the name of a parameter: after its first ':'.
HasParameter(segment) == \E k \in DOMAIN segment : segment[k] = ":"
NameOf(segment) == After(segment, ":")
ValueOf(segment, text) == SubSeq(text, Find(segment, ":", 1), Len(text))

SegmentFits(segment, text) ==
  IF HasParameter(segment) THEN IsPrefix(Before(segment, ":"), text) ELSE text = segment

\* The path, and the path without the slash that may end it.
Trimmed(path) == {path} \cup {u \in {SubSeq(path, 1, Len(path) - 1)} : path # <<>> /\ path[Len(path)] = "/"}

SegmentsFit(segs, texts) ==
  Len(segs) = Len(texts) /\ \A k \in DOMAIN segs : SegmentFits(segs[k], texts[k])

\* The last segment is a parameter, and there is nothing for it.
EndsEmpty(segs, texts) ==
  HasParameter(segs[Len(segs)]) /\ ValueOf(segs[Len(segs)], texts[Len(segs)]) = <<>>

\* The parameters by name, the last segment of a name counting.
Parameters(segs) == {k \in DOMAIN segs : HasParameter(segs[k])}
IsLastOf(segs, k) == \A j \in Parameters(segs) : NameOf(segs[j]) = NameOf(segs[k]) => j <= k

Extracted(segs, texts) ==
  [name \in {NameOf(segs[k]) : k \in Parameters(segs)} |->
     LET last == CHOOSE k \in Parameters(segs) : NameOf(segs[k]) = name /\ IsLastOf(segs, k)
     IN  ValueOf(segs[last], texts[last])]

\* What it means for a path to match a location, and with which parameters: segment
\* by segment, one slash at the end of the path being optional; but a parameter that
\* ends the location does not match nothing at all.
BySegments(location, path) ==
  LET segs == SegmentsOf(location)
      fitting == {u \in Trimmed(path) : /\ SegmentsFit(segs, SegmentsOf(u))
                                        /\ ~(u = path /\ EndsEmpty(segs, SegmentsOf(u)))}
  IN  {Extracted(segs, SegmentsOf(u)) : u \in fitting}

Dynamic(method) == {a[2] : a \in {b \in added : b[1] = Handled(method) /\ b[2].kind = "dynamic"}}

\* A dynamic resource serves the paths that match its location by segments, unless
\* another with a location as long does, and no others; it gets the parameters that
\* the segments have.
MatchIsBySegments ==
  served # Unserved /\ served.status # "bad_request" =>
    \A entry \in Dynamic(served.request.method) :
      LET means == BySegments(entry.location, Before(served.path, "?"))
      IN  IF served.status = "served" /\ served.by = entry THEN means = {served.given.resources}
          ELSE means = {} \/ (served.status = "served" /\ Len(entry.location) <= Len(served.by.location))

\* The location with the values of the parameters in their places.
Filled(location, params) ==
  LET from[p \in 1..(Len(location) + 1)] ==
        IF p > Len(location) THEN <<>>
        ELSE IF location[p] # ":" THEN <<location[p]>> \o from[p + 1]
        ELSE LET end == Find(location, "/", p + 1)
             IN  params[SubSeq(location, p + 1, end - 1)] \o from[end]
  IN  from[1]

\* The pieces of a query between its '&', by the '&' or the end on either side; what
\* follows a last '&' counts when it is not empty.
Pieces(query) ==
  LET cuts == {0, Len(query) + 1} \cup {i \in DOMAIN query : query[i] = "&"}
  IN  {c \in cuts \X cuts : /\ c[1] < c[2] /\ cuts \cap (c[1] + 1)..(c[2] - 1) = {}
                             /\ c # <<Len(query), Len(query) + 1>>}

Piece(query, c) == SubSeq(query, c[1] + 1, c[2] - 1)

\* No parameter of the location is named twice.
NamedOnce(location, params) ==
  Cardinality(DOMAIN params) = Cardinality({p \in DOMAIN location : location[p] = ":"})

\* A dynamic resource gets the path it was asked for, cut as its location says: the
\* location filled with the parameters is the path again, but for a slash at its
\* end (a name used twice keeps its last value only).  Each query parameter it gets
\* is the last of its key in the query.
HandlerSeesRequest ==
  served # Unserved /\ served.status = "served" /\ served.by.kind = "dynamic" =>
    LET path  == Before(served.path, "?")
        query == After(served.path, "?")
        gets  == served.given
    IN  /\ NamedOnce(served.by.location, gets.resources) =>
             \E trailing \in {<<>>, <<"/">>} : Filled(served.by.location, gets.resources) \o trailing = path
        /\ \A c \in Pieces(query) :
             LET key == Before(Piece(query, c), "=")
             IN  /\ key \in DOMAIN gets.querystring
                 /\ (\A d \in Pieces(query) : d[1] > c[1] => Before(Piece(query, d), "=") # key) =>
                      \/ Piece(query, c) = key \o <<"=">> \o gets.querystring[key]
                      \/ Piece(query, c) = key /\ gets.querystring[key] = <<>>

=============================================================================
