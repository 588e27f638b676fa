--------------------------- MODULE MCChatRequests ---------------------------
(* For TLC: two requests of /v1/responses under one idempotency key: a is  *)
(* a stream for an alias, whose second model has no provider, b asks for   *)
(* its last model and is answered with a JSON body.                        *)
EXTENDS ChatRequests

CONSTANTS a, b, key

MCChain == [r \in Requests |-> IF r = a THEN {1, 2, 3} ELSE {3}]
MCProvidersOf == [m \in Models |-> CASE m = 1 -> {1, 2} [] m = 2 -> {} [] m = 3 -> {1}]
MCIdemKey == [r \in Requests |-> key]
=============================================================================
