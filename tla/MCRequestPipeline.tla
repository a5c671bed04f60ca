-------------------------- MODULE MCRequestPipeline --------------------------
(* One application: a plugin that guards (auth) and decorates (plugins),   *)
(* with hooks of the user around it, an error hook and two observers.      *)
EXTENDS RequestPipeline

OneApp == [request |-> <<"auth">>, beforeHandle |-> <<"check">>, routeBefore |-> <<"local">>,
           routeAfter |-> <<"after">>, afterHandle |-> <<"plugins", "shape">>,
           mapResponse |-> <<"map">>, afterResponse |-> <<"log">>, trace |-> <<>>,
           error |-> <<"onError">>]
=============================================================================
