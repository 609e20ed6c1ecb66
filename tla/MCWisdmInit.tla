----------------------------- MODULE MCWisdmInit -----------------------------
(***************************************************************************)
(* Two requests, INTERPOL holds one record at the start.  The lists are    *)
(* long enough for a failure at the first or the last record, or both; the *)
(* second operator's request is one that changes what all records are.  In *)
(* one environment the default timeout is not set, in the other it is      *)
(* switched off.                                                           *)
(***************************************************************************)
EXTENDS WisdmInit

CONSTANTS old, new, r1, r2

asks(kind, records, stopOnError, finalize, confirm) ==
  [kind |-> kind, records |-> records, stopOnError |-> stopOnError,
   finalize |-> finalize, confirm |-> confirm]

MCRequest == {r1, r2}

MCBodiesOf == [r \in MCRequest |->
  IF r = r1
  THEN {asks("initialize", <<new, old>>, TRUE, TRUE, TRUE),
        asks("initialize", <<new>>, FALSE, TRUE, FALSE),
        asks("update", <<old>>, FALSE, FALSE, FALSE),
        asks("delete", <<old>>, FALSE, FALSE, FALSE),
        asks("extend", <<old>>, FALSE, FALSE, FALSE),
        asks("create", <<new>>, FALSE, FALSE, FALSE),
        asks("bulk", <<new, old>>, FALSE, FALSE, FALSE)}
  ELSE {asks("initialize", <<new>>, FALSE, FALSE, TRUE),
        asks("clear", <<>>, FALSE, FALSE, TRUE),
        asks("finalize", <<>>, FALSE, FALSE, TRUE)}]

\* Two operators who both initialize and finalize, with different lists.
TwoInitializations == [r \in MCRequest |->
  {asks("initialize", IF r = r1 THEN <<old>> ELSE <<new>>, FALSE, TRUE, TRUE)}]

MCEnvironments == {[mode |-> "unset", retryAttempts |-> 1, defaultTimeoutMs |-> -1],
                   [mode |-> "never", retryAttempts |-> 1, defaultTimeoutMs |-> 0]}
=============================================================================
