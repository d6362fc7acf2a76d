------------------------------ MODULE ClientKey ------------------------------
(***************************************************************************)
(* The rate-limit key of a request.  Everything here is a pure function.   *)
(*                                                                         *)
(* An address is written in some spelling; Address gives the address that  *)
(* net.ParseIP reads.  Trusted networks are sets of addresses.  The values *)
(* of X-Forwarded-For are its header lines, each the sequence of its       *)
(* comma-separated entries.  A claim's value is its type and the text it   *)
(* is formatted as.                                                        *)
(***************************************************************************)
EXTENDS Routing

CONSTANTS
  Address,   \* the addresses of the spellings that are one
  Digest     \* the digests of the values that are longer than maxKeyLen

ASSUME DigestAssumption == DOMAIN Digest \cap Range(Digest) = {}

isTrusted(entry, trusted) == entry \in DOMAIN Address /\ Address[entry] \in trusted

\* Header.Get sees the first line only.
ForwardedFor(headers) ==
  IF "X-Forwarded-For" \in DOMAIN headers THEN Head(headers["X-Forwarded-For"]) ELSE <<>>

\* Fault: the list is read from its near end.
extractIP_First(req, trusted) ==
  LET xff == ForwardedFor(req.headers)
      first == SelectInSeq(xff, LAMBDA e : e \in DOMAIN Address /\ ~isTrusted(e, trusted))
  IN  IF isTrusted(req.remote, trusted) /\ first # 0 THEN xff[first] ELSE req.remote

\* The entry nearest to a trusted peer that is an address and not trusted,
\* skipping what is not an address; the peer itself when there is none.
extractIP(req, trusted) ==
  LET xff == ForwardedFor(req.headers)
      last == SelectLastInSeq(xff, LAMBDA e : e \in DOMAIN Address /\ ~isTrusted(e, trusted))
  IN  IF isTrusted(req.remote, trusted) /\ last # 0 THEN xff[last] ELSE req.remote

truncateKey(value) == IF value \in DOMAIN Digest THEN Digest[value] ELSE value

\* claims is what the last authentication left, no function at all when none
\* did.  A claim that is there counts even when its text is empty; a header that
\* is there and empty does not.
extractKey(req, source, claims, trusted) ==
  CASE source.kind = "header" /\ Get(req.headers, source.name) # "" ->
         truncateKey(Get(req.headers, source.name))
    [] source.kind = "claim" /\ source.name \in DOMAIN claims
         /\ claims[source.name].type # "nil" -> truncateKey(claims[source.name].text)
    [] OTHER -> extractIP(req, trusted)

\* "rl:<algorithm>:<route>:<middleware>:<extracted>".
compositeKey(algorithm, route, name, extracted) ==
  [algorithm |-> algorithm, route |-> route, name |-> name, extracted |-> extracted]

-----------------------------------------------------------------------------
\* Who the client is: the addresses a request came by, on every line of the
\* header, end with the peer; going back from there past trusted proxies, the
\* first that is not one.
ClientOf(req, trusted) ==
  LET lines == IF "X-Forwarded-For" \in DOMAIN req.headers THEN req.headers["X-Forwarded-For"] ELSE <<>>
      all == FlattenSeq(lines)
      hops == Sieve(all, {i \in DOMAIN all : all[i] \in DOMAIN Address}) \o <<req.remote>>
      strangers == {i \in DOMAIN hops : ~isTrusted(hops[i], trusted)}
  IN  IF strangers = {} THEN req.remote ELSE hops[Max(strangers)]

\* Header.Get sees all there is.
OneLine(headers) == "X-Forwarded-For" \in DOMAIN headers => Len(headers["X-Forwarded-For"]) = 1

=============================================================================
