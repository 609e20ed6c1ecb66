------------------------------- MODULE MCBoot -------------------------------
(* Two builds that share routes, two passwords of one user and a renamed one. *)
EXTENDS Boot

CONSTANTS i1, i2

MCInstance == {i1, i2}

route(c, v) == [controller |-> c, verb |-> v]

MCRoutesOf ==
  [i \in MCInstance |->
    IF i = i1
    THEN {route("esign", "create"), route("ktak", "get")}
    ELSE {route("esign", "create"), route("interpol", "wisdmcreaterecord")}]

MCEnvironments ==
  {[username |-> "admin", password |-> "old"],
   [username |-> "admin", password |-> "new"],
   [username |-> "client", password |-> "new"]}

=============================================================================
