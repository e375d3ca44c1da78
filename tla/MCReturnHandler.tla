---------------------------- MODULE MCReturnHandler ----------------------------
(* ReturnHandler on a small instance: the redirect of f16.json, an entry of two *)
(* pairs, an empty one, one with a line break that names a variable twice, and  *)
(* one that is no string; hosts with and without a port and an empty one.       *)
EXTENDS ReturnHandler

Entries == {
  <<<<"Location", <<"https://", "$host", ":", "4000", "$request_uri">>>>>>,
  <<<<"Refresh", <<"$host">>>>, <<"X-Uri", <<"uri", "$request_uri">>>>>>,
  <<>>,
  <<<<"Via", <<"$host", "CRLF", "$host">>>>>>,
  <<<<"Retry-After", NotText>>, <<"Server", <<"f16">>>>>>}

Hosts == {<<>>, <<"example">>, <<"example", ":", "80">>, <<"$request_uri">>}

Uris == {<<"/">>, <<"/", "$host">>}

=============================================================================
