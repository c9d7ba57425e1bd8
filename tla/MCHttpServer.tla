---------------------------- MODULE MCHttpServer -----------------------------
(***************************************************************************)
(* Small instances of HttpServer for TLC.                                  *)
(***************************************************************************)
EXTENDS HttpServer, TLC

CONSTANTS secret, wrong   \* the configured token and another one

Msg(route, scheme, authorization, adminToken) ==
  [route |-> route, scheme |-> scheme,
   authorization |-> authorization, adminToken |-> adminToken]

api == Msg("api", "raw", None, None)

\* Both routes, the preflight, and every way to be authorized or not.
AllMessages ==
  { api,
    Msg("options", "raw", None, None),
    Msg("shutdown", "bearer", secret, None),
    Msg("shutdown", "raw", None, secret),
    Msg("shutdown", "raw", wrong, secret) }

\* The two requests whose interleavings matter for liveness.
TwoMessages == { api, Msg("shutdown", "bearer", secret, None) }

\* Requests are interchangeable, so what holds of one of them holds of all
\* (EveryRequestAnswered): a connection that was accepted is taken up and a
\* request that was read is answered, shutdown or not.
OneRequestAnswered == Answered(CHOOSE r \in Requests : TRUE)

Symmetry == Permutations(Requests)
==============================================================================
