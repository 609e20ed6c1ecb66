--------------------------- MODULE MCEsignProfile ---------------------------
(* Two calls about one citizen, in every mode with at most one retry. *)
EXTENDS EsignProfile

CONSTANTS c1, c2, citizen

MCCall == {c1, c2}
MCSsn == {citizen}

setting(mode, attempts, url) == [mode |-> mode, retryAttempts |-> attempts, baseUrl |-> url]

MCSettings ==
  {setting("connection-errors-only", 0, FALSE),
   setting("never", 1, TRUE),
   setting("connection-errors-only", 1, TRUE),
   setting("always", 1, TRUE)}
=============================================================================
