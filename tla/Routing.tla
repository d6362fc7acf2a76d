------------------------------- MODULE Routing -------------------------------
(***************************************************************************)
(* The router's tests of a request.  Everything here is a pure function.   *)
(*                                                                         *)
(* A host is a sequence of tokens: labels, ".", ":" and "*".  A path regex *)
(* is the function from the paths it matches to the values of its named    *)
(* groups, and a header regex the set of the values it matches whole.      *)
(* Headers are functions from names to the sequences of their values.      *)
(***************************************************************************)
EXTENDS Naturals, SequencesExt

CONSTANT Lower   \* the lower case of the labels that have another one

\* Only labels have another case, and in lower case they are labels too.
ASSUME LowerAssumption == \A label \in DOMAIN Lower : {label, Lower[label]} \cap {".", ":", "*"} = {}

IsList(s) == Len(s) \in Nat /\ s = [i \in 1..Len(s) |-> s[i]]

\* What a loop over s leaves that goes on from the places that are not in keep.
Sieve(s, keep) ==
  LET place(n) == CHOOSE i \in keep : Cardinality({j \in keep : j <= i}) = n
  IN  [n \in 1..Cardinality(keep) |-> s[place(n)]]

ToLower(host) == [i \in DOMAIN host |-> IF host[i] \in DOMAIN Lower THEN Lower[host[i]] ELSE host[i]]

\* strings.Split(host, ".") has an empty part.
EmptyLabel(host) ==
  \/ host = <<>> \/ Head(host) = "." \/ Last(host) = "."
  \/ \E i \in 2..Len(host) : host[i - 1] = "." /\ host[i] = "."

\* A plain host, or one wildcard label before a suffix of two labels or more.
validateHostPattern(host) ==
  IF Contains(host, "*")
  THEN LET suffix == SubSeq(host, 3, Len(host))
       IN  /\ IsPrefix(<<"*", ".">>, host)
           /\ ~Contains(suffix, "*")
           /\ Contains(suffix, ".")
           /\ ~EmptyLabel(suffix)
  ELSE ~EmptyLabel(host)

\* The host up to its last ":".
StripPort(host) ==
  LET colon == SelectLastInSeq(host, LAMBDA t : t = ":")
  IN  IF colon = 0 THEN host ELSE SubSeq(host, 1, colon - 1)

\* Fault: the part before the suffix may have several labels.
WildcardMatches_AnyDepth(suffix, host) == IsStrictSuffix(suffix, host)

\* One label, not empty, and then the suffix, which starts with a dot.
WildcardMatches(suffix, host) ==
  /\ IsSuffix(suffix, host)
  /\ LET prefix == SubSeq(host, 1, Len(host) - Len(suffix))
     IN  prefix # <<>> /\ ~Contains(prefix, ".")

\* The empty pattern matches every host.
HostMatches(pattern, host) ==
  LET p == ToLower(pattern)
      h == ToLower(StripPort(host))
  IN  \/ pattern = <<>>
      \/ IF IsPrefix(<<"*", ".">>, p) THEN WildcardMatches(Tail(p), h) ELSE h = p

\* http.Header.Get: the first value, "" for none.
Get(headers, name) == IF name \in DOMAIN headers THEN Head(headers[name]) ELSE ""

\* http.Header's Del, Add and Set.
Del(headers, name) == Restrict(headers, DOMAIN headers \ {name})
Add(headers, name, values) ==
  (name :> (IF name \in DOMAIN headers THEN headers[name] ELSE <<>>) \o values) @@ headers
Set(headers, name, value) ==
  [n \in DOMAIN headers \cup {name} |-> IF n = name THEN <<value>> ELSE headers[n]]

\* All rules must hold: "*" asks for presence, a regex for a match.
HeadersMatch(rules, headers) ==
  \A name \in DOMAIN rules :
    IF rules[name] = {"*"} THEN Get(headers, name) # "" ELSE Get(headers, name) \in rules[name]

\* An OPTIONS request passes the test of methods.
Matches(route, req) ==
  /\ req.path \in DOMAIN route.regex
  /\ HostMatches(route.host, req.host)
  /\ route.methods = {} \/ req.method \in route.methods \/ req.method = "OPTIONS"
  /\ HeadersMatch(route.headers, req.headers)

\* The place of the route that serves the request, 0 for none.
firstMatch(routes, req) == SelectInSeq(routes, LAMBDA route : Matches(route, req))

-----------------------------------------------------------------------------
\* Letter case is nothing.
SameToken(t, u) == ToLower(<<t>>) = ToLower(<<u>>)

\* n tokens of the host are in front of its port, which starts at the last colon.
Portless(host, n) ==
  LET colons == {i \in 1..Len(host) : host[i] = ":"}
  IN  IF colons = {} THEN n = Len(host) ELSE n + 1 \in colons /\ \A i \in colons : i <= n + 1

\* The first n tokens of the host are what the pattern promises, token by token:
\* "*.example.com" stands for one label, of w tokens, in front of ".example.com".
Fits(pattern, host, n) ==
  IF pattern[1] = "*"
  THEN \E w \in 1..n :
         /\ n - w = Len(pattern) - 1
         /\ \A i \in 1..w : host[i] # "."
         /\ \A i \in w + 1..n : SameToken(host[i], pattern[i - w + 1])
  ELSE n = Len(pattern) /\ \A i \in 1..n : SameToken(host[i], pattern[i])

\* What a route's host declares; none declares every host.
HostDeclared(pattern, host) ==
  pattern = <<>> \/ \E n \in 0..Len(host) : Portless(host, n) /\ Fits(pattern, host, n)

\* What a route declares.
Declares(route, req) ==
  /\ req.path \in DOMAIN route.regex
  /\ HostDeclared(route.host, req.host)
  /\ req.method \in route.methods \cup {"OPTIONS"} \/ route.methods = {}
  /\ \A name \in DOMAIN route.headers :
       \/ route.headers[name] = {"*"} /\ name \in DOMAIN req.headers /\ req.headers[name][1] # ""
       \/ name \in DOMAIN req.headers /\ req.headers[name][1] \in route.headers[name]
       \/ name \notin DOMAIN req.headers /\ "" \in route.headers[name]

=============================================================================
