------------------------------- MODULE Rewrite -------------------------------
(***************************************************************************)
(* What transforms make of headers and bodies and the proxy of a path.     *)
(* Everything here is a pure function.                                     *)
(*                                                                         *)
(* The code walks Go maps, whose order is not fixed: where that may show,  *)
(* an operator gives the set of the possible results.  A value that is     *)
(* added or injected is one literal or one variable.  A body is an object  *)
(* with its fields, or of a kind that has none.  A path template is a      *)
(* sequence of tokens, and path parameters are keyed by the placeholder    *)
(* they fill.  <<>> stands for a part that is not configured.              *)
(***************************************************************************)
EXTENDS ClientKey

Configured(part) == part # <<>>

\* The first entry of X-Forwarded-For, whoever wrote it, or the peer.
clientIP(req) ==
  LET xff == ForwardedFor(req.headers) IN IF xff # <<>> THEN Head(xff) ELSE req.remote

\* Times are not in the model; a variable that is not known stays as it is.
resolveVariables(value, req) ==
  CASE value = "${client_ip}" -> clientIP(req)
    [] value = "${method}" -> req.method
    [] value = "${path}" -> req.path
    [] value = "${route_name}" -> req.route
    [] value = "${request_id}" -> req.id
    [] OTHER -> value

\* Every header of old goes to the end of the new name's.
RenameHeader(headers, old, new) ==
  IF old \in DOMAIN headers THEN Add(Del(headers, old), new, headers[old]) ELSE headers

\* In the request direction the variables are read from the headers that are
\* being rewritten: req.headers are then headers itself.
AddHeader(headers, name, value, req, own) ==
  Set(headers, name, resolveVariables(value, IF own THEN [req EXCEPT !.headers = headers] ELSE req))

\* Remove, rename, add.  own says that headers are those of req.
transformHeaders(headers, t, req, own) ==
  IF ~Configured(t) THEN {headers}
  ELSE {FoldLeft(LAMBDA h, n : AddHeader(h, n, t.add[n], req, own),
                 FoldLeft(LAMBDA h, old : RenameHeader(h, old, t.rename[old]),
                          Restrict(headers, DOMAIN headers \ t.remove), renames),
                 adds)
          : renames \in SetToSeqs(DOMAIN t.rename), adds \in SetToSeqs(DOMAIN t.add)}

\* A key that is renamed to itself is lost.
RenameKey(fields, old, new) ==
  IF old \in DOMAIN fields THEN Del((new :> fields[old]) @@ fields, old) ELSE fields

\* Fault: fields are injected before others are stripped and renamed.
transformBody_InjectFirst(body, t, req) ==
  IF ~Configured(t) \/ body.kind # "object" THEN {body}
  ELSE LET full == [key \in DOMAIN t.inject |-> resolveVariables(t.inject[key], req)] @@ body.fields
       IN  {[body EXCEPT !.fields =
               FoldLeft(LAMBDA f, old : RenameKey(f, old, t.rename[old]),
                        Restrict(full, DOMAIN full \ t.strip), renames)]
              : renames \in SetToSeqs(DOMAIN t.rename)}

\* Strip, rename, inject.  Only an object has fields; any other body is
\* left as it is.
transformBody(body, t, req) ==
  IF ~Configured(t) \/ body.kind # "object" THEN {body}
  ELSE {[body EXCEPT !.fields =
           [key \in DOMAIN t.inject |-> resolveVariables(t.inject[key], req)]
           @@ FoldLeft(LAMBDA f, old : RenameKey(f, old, t.rename[old]),
                       Restrict(body.fields, DOMAIN body.fields \ t.strip), renames)]
          : renames \in SetToSeqs(DOMAIN t.rename)}

\* JSON null decodes into a map that is nil, and writing to that panics.
InjectPanics(body, t) == Configured(t) /\ body.kind = "null" /\ t.inject # <<>>

isJSON(headers) == Get(headers, "Content-Type") = "application/json"

\* strings.ReplaceAll, one parameter after the other in any order: a value that
\* has the placeholder of a later one is filled again.
ExpandPath(template, params) ==
  {FoldLeft(LAMBDA path, key :
              FlattenSeq([i \in DOMAIN path |-> IF path[i] = key THEN params[key] ELSE <<path[i]>>]),
            template, keys)
     : keys \in SetToSeqs(DOMAIN params)}

\* What Director makes of the path.
PathRewrite(template, params, path) ==
  IF Configured(template) THEN ExpandPath(template, params) ELSE {<<path>>}

-----------------------------------------------------------------------------
\* A transform whose result does not depend on the order of its maps.
Orderless(t) ==
  Configured(t) =>
    /\ IsInjective(t.rename)
    /\ DOMAIN t.rename \cap Range(t.rename) = {}
    /\ "X-Forwarded-For" \notin DOMAIN t.add

\* The headers such a transform promises: one that is added has its value alone;
\* any other has what it had, unless it is removed or renamed, and then what is
\* renamed to it.
Promised(headers, t, req, own) ==
  IF ~Configured(t) THEN headers
  ELSE LET left(n) == IF n \in DOMAIN headers \ t.remove THEN headers[n] ELSE <<>>
           kept(n) == IF n \in DOMAIN t.rename THEN <<>> ELSE left(n)
           moved(n) == IF \E old \in DOMAIN t.rename : t.rename[old] = n
                       THEN left(CHOOSE old \in DOMAIN t.rename : t.rename[old] = n) ELSE <<>>
           names == {n \in DOMAIN headers \cup Range(t.rename) : kept(n) \o moved(n) # <<>>}
           bare == [n \in names |-> kept(n) \o moved(n)]
           seen == IF own THEN [req EXCEPT !.headers = bare] ELSE req
       IN  [n \in DOMAIN t.add |-> <<resolveVariables(t.add[n], seen)>>] @@ bare

\* The same of a body's keys.
OrderlessBody(t) ==
  Configured(t) => IsInjective(t.rename) /\ DOMAIN t.rename \cap Range(t.rename) = {}

\* The body such a transform promises: an object has what is injected, then what is
\* renamed, then what it had, unless that is stripped or renamed; any other body
\* stays as it is.
PromisedBody(body, t, req) ==
  IF ~Configured(t) \/ body.kind # "object" THEN body
  ELSE LET left == DOMAIN body.fields \ t.strip
           source(key) == {old \in left : key = IF old \in DOMAIN t.rename THEN t.rename[old] ELSE old}
           origin(key) == CHOOSE old \in source(key) : old \in DOMAIN t.rename \/ source(key) = {old}
       IN  [body EXCEPT !.fields =
              [key \in {k \in left \cup Range(t.rename) \cup DOMAIN t.inject :
                          k \in DOMAIN t.inject \/ source(k) # {}} |->
                 IF key \in DOMAIN t.inject THEN resolveVariables(t.inject[key], req)
                 ELSE body.fields[origin(key)]]]

\* A message as a transform promises it: the body follows the headers, and only
\* when they say, once rewritten, that it is JSON.
Message(headers, body) == [headers |-> headers, body |-> body]
PromisedMessage(m, way, req, own) ==
  IF ~Configured(way) THEN m
  ELSE LET headers == Promised(m.headers, way.headers, IF own THEN [req EXCEPT !.headers = m.headers] ELSE req, own)
           seen == IF own THEN [req EXCEPT !.headers = headers] ELSE req
       IN  Message(headers, IF isJSON(headers) THEN PromisedBody(m.body, way.body, seen) ELSE m.body)

\* The path a template promises when no value has a placeholder in it.
PromisedPath(template, params) ==
  FlattenSeq([i \in DOMAIN template |->
    IF template[i] \in DOMAIN params THEN params[template[i]] ELSE <<template[i]>>])

Plain(params) == \A key \in DOMAIN params : ToSet(params[key]) \cap DOMAIN params = {}

=============================================================================
