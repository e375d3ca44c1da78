----------------------------- MODULE MCPathRouter -----------------------------
(* PathRouter on small instances, side by side: locations of one length and   *)
(* of several with uris that escape what matters; no resource, with every     *)
(* small uri; one resource, at every small location, with every small path.   *)
EXTENDS PathRouter

CONSTANTS
  MaxTokens,    \* bound: tokens of a uri after its first slash
  MaxChars,     \* bound: characters of a uri of characters
  MaxSegments,  \* bound: segments of a location
  MaxPath       \* bound: characters of a path matched against it

\* "/", "/a", "/:x", "/a/:x" and "/:x/:y"
FewLocations == {<<"/">>, <<"/", "a">>, <<"/", ":", "x">>, <<"/", "a", "/", ":", "x">>,
                 <<"/", ":", "x", "/", ":", "y">>}

Tokens == {<<"/">>, <<"a">>, <<"b">>, <<".">>, <<".", "%", "2", "E">>, <<"%", "2", "F">>, <<"?">>, <<"%">>}
PathTexts == {<<"/">> \o FlattenSeq(t) : t \in SeqOf(Tokens, MaxTokens)}

\* Queries on one path: a key given more than once, with and without a value.
QueryTokens == {<<"a", "=", "b">>, <<"a">>, <<"&">>}
Queries == {<<"/", "a", "?">> \o FlattenSeq(t) : t \in SeqOf(QueryTokens, MaxTokens + 1)}

FewUris == PathTexts \cup Queries

\* "%25" and "%2B" stand for the characters url_decode treats specially; the last
\* three are hexadecimal digits, the first two are not.
AllUris == SeqOf({"%", "+", "2", "5", "B"}, MaxChars)

\* A segment is fixed, empty or a parameter, or a parameter ends it.
Segment == {<<"a">>, <<"a", "b">>, <<>>, <<":", "x">>, <<":", "y">>, <<"a", ":", "x">>}
Rendered(segments) == FlattenSeq([k \in DOMAIN segments |-> <<"/">> \o segments[k]])
AllLocations == {Rendered(s) : s \in SeqOf(Segment, MaxSegments)}
AllPaths == {<<"/">> \o t : t \in SeqOf({"/", "a", "b"}, MaxPath - 1)}

Locations == FewLocations \cup AllLocations
Uris == FewUris \cup AllUris \cup AllPaths

Ask(method, uri) ==
  LET req == [method |-> method, uri |-> uri]
  IN  BadRequest(req) \/ NotFound(req) \/ Serve(req)

\* The one resource has been added, for GET and dynamic.
Alone(location) ==
  /\ Cardinality(added) = 1
  /\ \E a \in added : a[1] = "GET" /\ a[2].kind = "dynamic" /\ a[2].location = location

\* RouterNext, a resource and a request at a time as above.
MCNext ==
  /\ served = Unserved
  /\ \/ /\ \A a \in added : a[2].location \in FewLocations
        /\ \/ \E method \in Method, location \in FewLocations, kind \in {"static", "dynamic"} :
                Add(method, location, kind)
           \/ \E method \in Method \cup {"HEAD"}, uri \in FewUris : Ask(method, uri)
     \/ added = {} /\ \E location \in AllLocations : Add("GET", location, "dynamic")
     \/ added = {} /\ \E uri \in AllUris : Ask("GET", uri)
     \/ (\E location \in AllLocations : Alone(location)) /\ \E uri \in AllPaths : Ask("GET", uri)

MCSpec == RouterInit /\ [][MCNext]_rvars

=============================================================================
