------------------------------ MODULE MCGateway ------------------------------
(* Gateway for TLC: the files an operator may write.                         *)
EXTENDS Gateway

Base == [valid |-> TRUE, builds |-> TRUE,
         host |-> "h1", shutdown_timeout |-> "15s", backend |-> "memory",
         providers |-> {"jwt"}, level |-> "info",
         routes |-> <<[name |-> "a", body |-> 1], [name |-> "b", body |-> 1]>>,
         definitions |-> [auth |-> <<"jwt">>], middlewares |-> <<"auth">>]

\* A route names a provider nobody defines.
Invalid == [Base EXCEPT !.valid = FALSE, !.definitions.auth = <<"oidc">>]

\* It changes a setting the process ignores, and cannot be built.
Unbuildable == [Base EXCEPT !.builds = FALSE, !.level = "debug"]

\* It moves to Redis, with a provider the process was not started with.
Moved == [Base EXCEPT !.backend = "redis", !.shutdown_timeout = "60s",
                      !.providers = {"jwt", "oidc"}, !.definitions.auth = <<"jwt", "oidc">>]
Reordered == [Base EXCEPT !.routes = <<Base.routes[2], Base.routes[1]>>]

Files == {Base, Invalid, Unbuildable, Moved, Reordered}

==============================================================================
