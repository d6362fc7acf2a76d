------------------------------ MODULE Pipeline ------------------------------
(***************************************************************************)
(* In which order BuildHandler nests the middlewares of a route around its *)
(* proxy.  A handler is the sequence of its layers, the outermost first;   *)
(* a layer is a resolved middleware or has only a type.                    *)
(***************************************************************************)
EXTENDS Config

Layer(type) == [name |-> type, type |-> type, config |-> <<>>]

\* The list is applied in reverse: its first is the outermost.
Wrap(mws, handler) == mws \o handler

Transforms(chain) == Sieve(chain, {i \in DOMAIN chain : chain[i].type = "transform"})
Guards(chain) == Sieve(chain, {i \in DOMAIN chain : chain[i].type # "transform"})

\* Transforms go around the proxy, everything else around them.
RouteHandler(cfg, route) ==
  LET chain == Effective(cfg, route)
  IN  Wrap(Guards(chain), Wrap(Transforms(chain), <<Layer("proxy")>>))

BuildHandler ==
  Wrap(<<Layer("recovery"), Layer("request_id"), Layer("logging"), Layer("metrics")>>,
       <<Layer("router")>>)

=============================================================================
