----------------------------- MODULE WisdmRules -----------------------------
(***************************************************************************)
(* What a WISDM request may contain: the DTOs with their validators, run   *)
(* after the transforms by the global ValidationPipe, and the rules and    *)
(* normalizations WisdmService applies to what has passed.                 *)
(***************************************************************************)
EXTENDS Integers, FiniteSets

-----------------------------------------------------------------------------
(* Values of a field of the JSON body.                                      *)

\* Kinds of values: no such key, null, "", blanks, not a string, a text of some
\* length, one that holds characters XML reserves (an ampersand, less-than signs, or one
\* before a letter, as a tag has it), a real date as the number of days from today, a
\* month, three digits.
absent == [kind |-> "absent"]
null == [kind |-> "null"]
empty == [kind |-> "empty"]
blank == [kind |-> "blank"]
notAString == [kind |-> "other"]
text(n) == [kind |-> "text", length |-> n]
special(n, holds) == [kind |-> "special", length |-> n, holds |-> holds]
day(d) == [kind |-> "day", day |-> d]
month(m) == [kind |-> "month", month |-> m]
countryId == [kind |-> "code"]

TODAY == 0

isNil(v) == v.kind \in {"absent", "null"}
isString(v) == v.kind \notin {"absent", "null", "other"}
isNotEmpty(v) == ~isNil(v) /\ v.kind # "empty"

lengthOf(v) ==
  CASE v.kind \in {"text", "special"} -> v.length
    [] v.kind = "day" -> 8
    [] v.kind = "month" -> 6
    [] v.kind = "code" -> 3
    [] OTHER -> 0

\* @trim() and @upper(); letter case makes no difference to any rule.
trim(v) == IF v = blank THEN empty ELSE v

\* A DIN is the document it identifies and, as written, how many characters
\* cleaning keeps and how many it drops.
din(document, kept, dropped) == [document |-> document, kept |-> kept, dropped |-> dropped]

cleanDin(d) == [d EXCEPT !.dropped = 0]

WISDM_DIN_MIN_LENGTH == 5
WISDM_DIN_MAX_LENGTH == 25

isValidDin(d) ==
  cleanDin(d).kept >= WISDM_DIN_MIN_LENGTH /\ cleanDin(d).kept <= WISDM_DIN_MAX_LENGTH

-----------------------------------------------------------------------------
(* wisdm.helpers. *)

\* Only a real calendar date parses; the day is its distance from today.
isValidWisdmDate(v) == v.kind = "day"
parseWisdmDate(v) == v.day

isPastWisdmDate(v) == isValidWisdmDate(v) /\ parseWisdmDate(v) <= TODAY
isFutureWisdmDate(v) == isValidWisdmDate(v) /\ parseWisdmDate(v) > TODAY

\* Mutant of compareWisdmDates: the operands are swapped.
compareWisdmDatesSwapped(left, right) == parseWisdmDate(right) - parseWisdmDate(left)

\* compareWisdmDates gives null when either is no date: then no order is broken.
comparable(left, right) == isValidWisdmDate(left) /\ isValidWisdmDate(right)
compareWisdmDates(left, right) == parseWisdmDate(left) - parseWisdmDate(right)

isValidWisdmMonth(v) == v.kind = "month"

normalizeOptional(v) == IF isNil(v) \/ trim(v) = empty THEN absent ELSE v
normalizeUpdatable(v) == IF isNil(v) THEN absent ELSE trim(v)
normalizeCountryCode(v) == normalizeOptional(v)

-----------------------------------------------------------------------------
(* The constraints of Wisdm.validator, on a transformed value. *)

IsWisdmDin(d) == isValidDin(d)
IsWisdmDate(v) == isString(v) /\ isValidWisdmDate(v)
IsPastWisdmDate(v) == isString(v) /\ isPastWisdmDate(v)
IsFutureWisdmDate(v) == isString(v) /\ isFutureWisdmDate(v)

IsAfterWisdmDate(v, related) ==
  comparable(v, related) => compareWisdmDates(v, related) > 0

IsNotBeforeWisdmDate(v, related) ==
  comparable(v, related) => compareWisdmDates(v, related) >= 0

IsIcpoCountryCode(v) == isString(v) /\ v.kind = "code"
IsWisdmMonth(v) == isString(v) /\ isValidWisdmMonth(v)

-----------------------------------------------------------------------------
(* The DTOs. *)

RecordFields ==
  {"stolenBatchIdentifier", "countryOfTheft", "dateOfTheft", "documentIssuanceDate",
   "documentExpiryDate", "nationalReferenceNumber", "ncbReferenceNumber",
   "additionalInformation", "recordRetentionDate"}

MaxLength ==
  [stolenBatchIdentifier |-> 25, nationalReferenceNumber |-> 25,
   ncbReferenceNumber |-> 25, additionalInformation |-> 40]

\* @IsOptional alone, and with @ValidateIf, which lets "" through as well.
optional(v, rule) == isNil(v) \/ rule
optionalOrEmpty(v, rule) == isNil(v) \/ v = empty \/ rule

WisdmRecordIdentifierDto(body) ==
  /\ IsWisdmDin(body.din)
  /\ isString(trim(body.typeOfDocument)) /\ isNotEmpty(trim(body.typeOfDocument))

\* f is the body after the transforms: validators see trimmed values only.
WisdmRecordBaseDto(body, f) ==
  /\ WisdmRecordIdentifierDto(body)
  /\ \A name \in DOMAIN MaxLength :
       optionalOrEmpty(f[name], isString(f[name]) /\ lengthOf(f[name]) <= MaxLength[name])
  /\ optionalOrEmpty(f.dateOfTheft,
       /\ IsWisdmDate(f.dateOfTheft) /\ IsPastWisdmDate(f.dateOfTheft)
       /\ IsNotBeforeWisdmDate(f.dateOfTheft, f.documentIssuanceDate))
  /\ optionalOrEmpty(f.documentIssuanceDate,
       IsWisdmDate(f.documentIssuanceDate) /\ IsPastWisdmDate(f.documentIssuanceDate))
  /\ optionalOrEmpty(f.documentExpiryDate,
       /\ IsWisdmDate(f.documentExpiryDate)
       /\ IsAfterWisdmDate(f.documentExpiryDate, f.documentIssuanceDate))
  /\ optional(f.recordRetentionDate,
       IsWisdmDate(f.recordRetentionDate) /\ IsFutureWisdmDate(f.recordRetentionDate))

transformed(body) == [name \in DOMAIN body.fields |-> trim(body.fields[name])]

WisdmCreateRecordDto(body) ==
  LET f == transformed(body)
  IN /\ WisdmRecordBaseDto(body, f)
     /\ isString(f.fraudType) /\ isNotEmpty(f.fraudType)
     /\ optionalOrEmpty(f.countryOfTheft, IsIcpoCountryCode(f.countryOfTheft))

WisdmUpdateRecordDto(body) ==
  LET f == transformed(body)
  IN /\ WisdmRecordBaseDto(body, f)
     /\ optionalOrEmpty(f.countryOfTheft, IsIcpoCountryCode(f.countryOfTheft))
     /\ optional(f.extensionReason, isString(f.extensionReason) /\ isNotEmpty(f.extensionReason))

WisdmExtendRetentionDto(body) ==
  LET f == transformed(body)
  IN /\ WisdmRecordIdentifierDto(body)
     /\ IsWisdmDate(f.recordRetentionDate) /\ IsFutureWisdmDate(f.recordRetentionDate)
     /\ isString(f.extensionReason) /\ isNotEmpty(f.extensionReason)

WisdmRecordQueryDto(body) == WisdmRecordIdentifierDto(body)

WisdmCountQueryDto(q) == isString(trim(q.typeOfDocument)) /\ isNotEmpty(trim(q.typeOfDocument))

WisdmActivityQueryDto(q) ==
  /\ optional(q.typeOfDocument, isString(q.typeOfDocument))
  /\ optional(q.from, IsWisdmMonth(trim(q.from)))
  /\ optional(q.to, IsWisdmMonth(trim(q.to)))

WisdmExpiryAlertsQueryDto(q) ==
  /\ isString(trim(q.movementId)) /\ isNotEmpty(trim(q.movementId))
  /\ lengthOf(q.movementId) <= 128

WisdmReferenceTable ==
  {"IPSGT_Document_Type", "IPSGT_Theft_Type", "IPSGT_ICPO_Countries", "IPSGT_Extension_Reason"}

WisdmReferenceTableQueryDto(q) == q.table \in WisdmReferenceTable

WisdmInfosDocumentedSchemaOperation ==
  {"GetSLTDSearchSchema", "GetSLTDSearchResultSchema", "GetSLTDRecordSchema",
   "GetSLTDReviewDateSchema", "GetSLTDStatisticsSchema", "GetSLTDActionsSchema"}

\* A boolean is true, false, missing, or something else.
WisdmInfosDocumentedSchemaQueryDto(q) ==
  /\ q.operation \in WisdmInfosDocumentedSchemaOperation
  /\ q.documentation \in {"missing", "true", "false"}

WisdmInfosSchemaByKeyQueryDto(q) ==
  optional(q.key, isString(q.key)) /\ q.format \in {"missing", "xml", "xml2", "html"}

-----------------------------------------------------------------------------
(* WisdmService: what is left of a valid body, and when it is refused still. *)

requireTypeOfDocument(v) == normalizeOptional(v) # absent

assertDateOrdering(p) ==
  /\ comparable(p.dateOfTheft, p.documentIssuanceDate)
       => compareWisdmDates(p.dateOfTheft, p.documentIssuanceDate) >= 0
  /\ comparable(p.documentExpiryDate, p.documentIssuanceDate)
       => compareWisdmDates(p.documentExpiryDate, p.documentIssuanceDate) > 0

\* The params handed to the integration.  An update keeps "", which clears the
\* field at INTERPOL; a creation drops it.
toRecordParams(body, mode) ==
  LET f == body.fields
      normalizeField(v) == IF mode = "update" THEN normalizeUpdatable(v) ELSE normalizeOptional(v)
  IN [name \in RecordFields \cup {"fraudType", "extensionReason"} |->
        CASE name = "fraudType" ->
               IF mode = "create" THEN normalizeOptional(f.fraudType) ELSE absent
          [] name = "extensionReason" ->
               IF mode = "update" THEN normalizeOptional(f.extensionReason) ELSE absent
          [] name = "countryOfTheft" ->
               IF mode = "update" THEN normalizeUpdatable(f.countryOfTheft)
                                  ELSE normalizeCountryCode(f.countryOfTheft)
          [] name = "recordRetentionDate" -> normalizeOptional(f.recordRetentionDate)
          [] OTHER -> normalizeField(f[name])]

\* Some key must be there; null counts.
assertHasUpdatableField(body) == \E name \in RecordFields : body.fields[name] # absent

\* updateRecord's own conditions on the params.
retentionHasReason(p) == p.recordRetentionDate # absent => p.extensionReason # absent
=============================================================================
