----------------------------- MODULE SoapAnswer -----------------------------
(***************************************************************************)
(* An XML answer of INTERPOL, as what the regular expressions of both      *)
(* integrations find in it, and the result codes they share.               *)
(*                                                                         *)
(* `tags` maps the tags of the SOAP body to their text; `inner` those of   *)
(* its xmlData, which comes in a form: none, plain, escaped, or broken.    *)
(* `record`, `documentId` and `items` are what the payload holds.          *)
(***************************************************************************)
EXTENDS Integers, Sequences

NoText == ""

NoRecord == [theft |-> <<>>, document |-> <<>>]

Xml(status, resultCode) ==
  [status |-> status, tags |-> [resultCode |-> resultCode], form |-> "none",
   inner |-> <<>>, record |-> NoRecord, documentId |-> NoText, items |-> <<>>]

textOf(tags, tag) == IF tag \in DOMAIN tags THEN tags[tag] ELSE NoText

orElse(left, right) == IF left # NoText THEN left ELSE right

-----------------------------------------------------------------------------
(* resultCode.helper *)

RESULT_CODE_VALUES ==
  {"NO_ERROR", "NO_ANSWER", "INVALID_SEARCH_ERROR", "UNEXPECTED_ERROR", "TOO_MANY_ANSWER",
   "ACCESS_DENIED", "OTHER_ERROR_CODE", "TIME_OUT"}

\* NoText for what is no number of a code.
RESULT_CODE_KEYS(code) ==
  CASE code = "0" -> "NO_ERROR" [] code = "1" -> "NO_ANSWER"
    [] code = "2" -> "INVALID_SEARCH_ERROR" [] code = "3" -> "UNEXPECTED_ERROR"
    [] code = "4" -> "TOO_MANY_ANSWER" [] code = "5" -> "ACCESS_DENIED"
    [] code = "6" -> "OTHER_ERROR_CODE" [] code = "7" -> "TIME_OUT"
    [] OTHER -> NoText

DESCRIPTIONS(key) ==
  [key |-> key, retryable |-> key \in {"UNEXPECTED_ERROR", "TIME_OUT"},
   requiresQueryRefinement |-> key \in {"INVALID_SEARCH_ERROR", "TOO_MANY_ANSWER"},
   accessDenied |-> key = "ACCESS_DENIED"]

\* Mutant of evaluateResultCode: a code that is not known counts as no error.
evaluateResultCodeLenient(code) ==
  DESCRIPTIONS(IF code \in {"1", "NO_ANSWER"} THEN "NO_ANSWER" ELSE "NO_ERROR")

\* By number or by name, and the plural WISDM uses for one of them.
evaluateResultCode(code) ==
  LET normalized == IF code = "TOO_MANY_ANSWERS" THEN "TOO_MANY_ANSWER" ELSE code
  IN DESCRIPTIONS(orElse(RESULT_CODE_KEYS(normalized),
                         IF normalized \in RESULT_CODE_VALUES THEN normalized ELSE "UNKNOWN"))
=============================================================================
