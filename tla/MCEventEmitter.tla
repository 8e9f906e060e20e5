---------------------------- MODULE MCEventEmitter ----------------------------
(* Emitters for TLC: the identities of two of them read the same once joined.  *)
EXTENDS EventEmitter

CONSTANTS e1, e2, e3

MCComponent == e1 :> <<"worker", "-", "a">> @@ e2 :> <<"worker">> @@ e3 :> <<"worker">>
MCInstance  == e1 :> <<"1">> @@ e2 :> <<"a", "-", "1">> @@ e3 :> <<"a", "-", "2">>
MCKinds     == {<<"started">>}
=============================================================================
