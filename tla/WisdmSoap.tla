----------------------------- MODULE WisdmSoap ------------------------------
(***************************************************************************)
(* WisdmIntegration: what each operation sends to INTERPOL WISDM, how many *)
(* calls it takes, and what it makes of the SOAP answers.                  *)
(*                                                                         *)
(* A record that is read back holds no text that reads like an error       *)
(* message: matchFunctionalError searches the whole of xmlData.            *)
(***************************************************************************)
EXTENDS Flow, SoapAnswer, WisdmRules

\* The first occurrence decides, also when it is empty.  Unescaped xmlData is
\* part of the text that is searched.
firstTagValue(xml, tag) ==
  IF tag \in DOMAIN xml.tags \/ xml.form # "plain" THEN textOf(xml.tags, tag)
  ELSE textOf(xml.inner, tag)

\* A text with reserved characters is written with entities, and one with entities
\* with theirs; decoding takes one layer away.
xmlEscape(v) == IF v.kind \in {"special", "escaped"} THEN [kind |-> "escaped", of |-> v] ELSE v
decodeXmlEntities(v) == IF v.kind = "escaped" THEN v.of ELSE v

extractSoapFault(xml) == firstTagValue(xml, "faultstring")

\* The tags of the xmlData, unescaped.
extractXmlDataRaw(xml) == IF xml.form = "none" THEN <<>> ELSE xml.inner

\* The xmlData as JSON; null where there is none or it does not parse.
parseXmlDataToJson(xml) == IF xml.form \in {"plain", "escaped"} THEN xml.inner ELSE null

-----------------------------------------------------------------------------
(* Functional errors, and the verdict on an answer. *)

\* In the order of the matchers: the first that finds its pattern wins.
FUNCTIONAL_ERROR_MATCHERS ==
  <<"DIN_ALREADY_PRESENT", "DIN_FORMAT_INVALID", "DOCUMENT_TYPE_INVALID",
    "FRAUD_TYPE_INVALID", "COUNTRY_OF_THEFT_MISSING", "COUNTRY_OF_THEFT_INVALID",
    "STOLEN_BATCH_IDENTIFIER_NOT_ALLOWED", "DATE_OF_THEFT_NOT_IN_PAST",
    "ISSUANCE_DATE_NOT_IN_PAST", "RETENTION_DATE_EXCEEDS_PERIOD",
    "RETENTION_DATE_NOT_IN_FUTURE", "EXTENSION_REASON_INVALID", "DATE_FORMAT_INVALID",
    "FIELD_TOO_LONG", "RECORD_NOT_FOUND">>

WISDM_FUNCTIONAL_ERRORS ==
  {FUNCTIONAL_ERROR_MATCHERS[i] : i \in DOMAIN FUNCTIONAL_ERROR_MATCHERS}

\* A text is named after the one pattern it matches, but for this one.
retentionTooLong == "retention date exceeds the period and must be in the future"

matches(key, txt) ==
  \/ txt = key
  \/ txt = retentionTooLong
     /\ key \in {"RETENTION_DATE_EXCEEDS_PERIOD", "RETENTION_DATE_NOT_IN_FUTURE"}

matchFunctionalError(texts) ==
  LET found == {i \in DOMAIN FUNCTIONAL_ERROR_MATCHERS :
                  \E txt \in texts : matches(FUNCTIONAL_ERROR_MATCHERS[i], txt)}
  IN IF found = {} THEN NoText
     ELSE FUNCTIONAL_ERROR_MATCHERS[CHOOSE i \in found : \A j \in found : i <= j]

upstreamMessageOf(xml) ==
  LET data == extractXmlDataRaw(xml)
  IN orElse(firstTagValue(xml, "ErrorMessage"),
     orElse(firstTagValue(xml, "Reason"),
     orElse(textOf(data, "ErrorMessage"),
     orElse(textOf(data, "Message"), textOf(data, "Reason")))))

\* Mutant of mapBaseResponse: the SOAP fault is not looked at.
mapBaseResponseIgnoringFault(xml, allowNoAnswer) ==
  LET key == evaluateResultCode(firstTagValue(xml, "resultCode")).key
  IN [ok |-> xml.status < 400 /\ (key = "NO_ERROR" \/ (allowNoAnswer /\ key = "NO_ANSWER")),
      httpStatus |-> xml.status, fault |-> NoText, resultCode |-> key,
      upstreamMessage |-> NoText, functionalError |-> NoText]

mapBaseResponse(xml, allowNoAnswer) ==
  LET fault == extractSoapFault(xml)
      key == evaluateResultCode(firstTagValue(xml, "resultCode")).key
      message == upstreamMessageOf(xml)
      data == extractXmlDataRaw(xml)
      error == matchFunctionalError({fault, firstTagValue(xml, "resultOtherCode"), message}
                                      \cup {data[tag] : tag \in DOMAIN data})
  IN [ok |-> /\ xml.status < 400 /\ fault = NoText /\ error = NoText
             /\ key = "NO_ERROR" \/ (allowNoAnswer /\ key = "NO_ANSWER"),
      httpStatus |-> xml.status, fault |-> fault, resultCode |-> key,
      upstreamMessage |-> message, functionalError |-> error]

-----------------------------------------------------------------------------
(* The configuration, read anew for every call. *)

\* sltd and infos are the endpoints of their own; the user's name in
\* UserInformation has a default and may be at most 20 characters long.
getSltdEndpoint(env) ==
  CASE env.sltd = "infos.asmx" -> NoText
    [] env.sltd # NoText -> env.sltd
    [] OTHER -> IF env.baseUrl THEN "sltd.asmx" ELSE NoText

getInfosEndpoint(env) ==
  IF env.infos # NoText THEN env.infos ELSE IF env.baseUrl THEN "infos.asmx" ELSE NoText

credentials(env) == env.username /\ env.password

buildEnvelope(env) == credentials(env) /\ ~env.longUserInfo

\* An operation that needs `endpoint` and an envelope that can be built.
callService(endpoint, envelope, operation, body, answers, n) ==
  IF endpoint = NoText \/ ~envelope THEN Throw(500)
  ELSE Await([to |-> endpoint, operation |-> operation, body |-> body],
             answers, n, Throw(503))

call(env, operation, body, answers, n) ==
  callService(getSltdEndpoint(env), buildEnvelope(env), operation, body, answers, n)

\* The Infos header carries the credentials only.
callInfos(env, operation, body, answers, n) ==
  callService(getInfosEndpoint(env), credentials(env), operation, body, answers, n)

-----------------------------------------------------------------------------
(* Records. *)

\* Elements of a record: names that occur twice (type_id) are told apart by
\* whether they are inside <theft>.  Absent values leave no element, "" leaves
\* an empty one.  Of what is sent, a record alone is modelled as it is written, with
\* its entities; other bodies by what they say.
TheftElements ==
  [additionalInformation |-> "value", countryOfTheft |-> "country_id",
   dateOfTheft |-> "date", fraudType |-> "type_id"]

DocumentElements ==
  [documentIssuanceDate |-> "date_of_issuance", documentExpiryDate |-> "expiry_date",
   stolenBatchIdentifier |-> "batch_id"]

\* One after the other, where the first decides (TLC's @@, which the provers do not know).
both(f, g) ==
  [e \in DOMAIN f \cup DOMAIN g |-> IF e \in DOMAIN f THEN f[e] ELSE g[e]]

elements(names, params) ==
  LET present == {f \in DOMAIN names : params[f] # absent}
  IN [e \in {names[f] : f \in present} |->
        xmlEscape(params[CHOOSE f \in present : names[f] = e])]

\* Mutant of buildRecordElements: the theft is not kept in an element of its own.
buildRecordElementsFlat(id, params, includeFraudType) ==
  [theft |-> <<>>,
   document |-> both(both(elements(DocumentElements, params), elements(TheftElements, params)),
                     [nr |-> id.din, type_id |-> xmlEscape(id.typeOfDocument)])]

buildRecordElements(id, params, includeFraudType) ==
  [theft |-> elements(TheftElements,
                      IF includeFraudType THEN params ELSE [params EXCEPT !.fraudType = absent]),
   document |-> both([nr |-> id.din, type_id |-> xmlEscape(id.typeOfDocument)],
                     elements(DocumentElements, params))]

\* The id of a request, as requireCleanDin and requireTypeOfDocument leave it.
identifier(body) == [din |-> cleanDin(body.din), typeOfDocument |-> body.typeOfDocument]

mapMutationResponse(id, xml) ==
  Return([base |-> mapBaseResponse(xml, FALSE), id |-> id, itemId |-> xml.documentId,
          recordRetentionDate |-> orElse(firstTagValue(xml, "db_review_date"),
                                         firstTagValue(xml, "RetentionDate")),
          xmlData |-> parseXmlDataToJson(xml)])

createRecord(env, body, answers) ==
  LET params == toRecordParams(body, "create")
  IN IF ~requireTypeOfDocument(body.typeOfDocument) \/ ~assertDateOrdering(params)
     THEN Throw(400)
     ELSE AndThen(call(env, "CreateOrUpdateSLTDRecord",
                       buildRecordElements(identifier(body), params, TRUE), answers, 1),
                  LAMBDA xml : mapMutationResponse(identifier(body), xml))

updateRecord(env, body, answers) ==
  LET params == toRecordParams(body, "update")
  IN IF \/ ~requireTypeOfDocument(body.typeOfDocument)
        \/ ~assertDateOrdering(params)
        \/ ~retentionHasReason(params)
        \/ ~assertHasUpdatableField(body)
     THEN Throw(400)
     ELSE AndThen(call(env, "CreateOrUpdateSLTDRecord",
                       buildRecordElements(identifier(body), params, FALSE), answers, 1),
                  LAMBDA xml : mapMutationResponse(identifier(body), xml))

\* Mutant of resolveDocumentId: any answer with an identifier will do.
resolveDocumentIdUnchecked(env, id, answers) ==
  AndThen(call(env, "SearchDocument", id, answers, 1), LAMBDA xml :
    IF xml.documentId = NoText THEN Throw(502) ELSE Return(xml.documentId))

\* SearchDocument, then the operation proper on the identifier it found.
resolveDocumentId(env, id, answers) ==
  AndThen(call(env, "SearchDocument", id, answers, 1), LAMBDA xml :
    LET base == mapBaseResponse(xml, TRUE)
    IN IF base.resultCode = "NO_ANSWER" THEN Throw(404)
       ELSE IF ~base.ok \/ xml.documentId = NoText THEN Throw(502)
       ELSE Return(xml.documentId))

deleteRecord(env, body, answers) ==
  LET id == identifier(body)
  IN AndThen(resolveDocumentId(env, id, answers), LAMBDA documentId :
       AndThen(call(env, "DeleteSLTDRecord", [DocumentId |-> documentId], answers, 2),
               LAMBDA xml : mapMutationResponse(id, xml)))

extendRetention(env, body, answers) ==
  LET id == identifier(body)
  IN AndThen(resolveDocumentId(env, id, answers), LAMBDA documentId :
       AndThen(call(env, "ChangeRetentionDate",
                    [DocumentId |-> documentId,
                     NewRetentionDate |-> body.fields.recordRetentionDate,
                     Reason |-> body.fields.extensionReason], answers, 2),
               LAMBDA xml : mapMutationResponse(id, xml)))

\* An entity before a letter makes the whole of xmlData be taken for escaped XML.
looksEscapedXml(record) ==
  \E part \in {record.theft, record.document} : \E e \in DOMAIN part \ {"nr"} :
    \E v \in {decodeXmlEntities(part[e])} : v # part[e] /\ v.kind = "special" /\ v.holds = "tag"

\* What is read back from the elements of a record; null without a number.  The text of
\* an element is taken as it stands, entities and all, and there is none if it has "<".
\* Escaped xmlData has been decoded to the record that was written; plain xmlData that
\* looks escaped is decoded too.
parseDocumentProperties(xml) ==
  LET shown(v) ==
        LET found == IF xml.form = "plain" /\ looksEscapedXml(xml.record)
                     THEN decodeXmlEntities(v) ELSE v
        IN IF found.kind = "special" /\ found.holds # "ampersand" THEN empty ELSE found
      read(names, from) ==
        [f \in DOMAIN names |-> IF names[f] \in DOMAIN from THEN shown(from[names[f]]) ELSE empty]
  IN IF "nr" \notin DOMAIN xml.record.document THEN null
     ELSE both(both([din |-> xml.record.document["nr"]],
                    read([typeOfDocument |-> "type_id", recordRetentionDate |-> "db_review_date"],
                         xml.record.document)),
               both(read(DocumentElements, xml.record.document),
                    read(TheftElements, xml.record.theft)))

getDocument(env, body, answers) ==
  AndThen(resolveDocumentId(env, identifier(body), answers), LAMBDA documentId :
    AndThen(call(env, "RetrieveSLTDRecord", [DocumentId |-> documentId], answers, 2), LAMBDA xml :
      LET base == mapBaseResponse(xml, FALSE)
      IN Return([base |-> base,
                 document |-> IF base.ok THEN parseDocumentProperties(xml) ELSE null,
                 xmlData |-> parseXmlDataToJson(xml)])))

-----------------------------------------------------------------------------
(* Statistics, alerts, reference tables and schemas. *)

\* An indicator counts the documents of a type, or one action on them (ADD, UPD,
\* DEL, ERD) in a period; its value is {} where it is no number.
documentIndicator(i, type) == i.action = NoText /\ i.document = type

getDocumentCount(env, query, answers) ==
  AndThen(call(env, "GetStatistics", <<>>, answers, 1), LAMBDA xml :
    LET found == SelectSeq(xml.items, LAMBDA i : documentIndicator(i, query.typeOfDocument))
    IN Return([base |-> mapBaseResponse(xml, TRUE),
               total |-> IF found = <<>> THEN {} ELSE found[1].value]))

toActivityEntry(i) ==
  [period |-> i.period, typeOfDocument |-> i.document, action |-> i.action,
   total |-> IF i.value = {} THEN 0 ELSE CHOOSE n \in i.value : TRUE]

\* Mutant of isAskedFor: the last month is not asked for any more.
isAskedForUntil(entry, type, from, to) ==
  /\ type = absent \/ entry.typeOfDocument = type
  /\ from = absent \/ entry.period >= from.month
  /\ to = absent \/ entry.period < to.month

isAskedFor(entry, type, from, to) ==
  /\ type = absent \/ entry.typeOfDocument = type
  /\ from = absent \/ entry.period >= from.month
  /\ to = absent \/ entry.period <= to.month

getActivity(env, query, answers) ==
  LET type == normalizeOptional(query.typeOfDocument)
      from == normalizeOptional(query.from)
      to == normalizeOptional(query.to)
      shown(i) == i.action # NoText /\ isAskedFor(toActivityEntry(i), type, from, to)
  IN IF from # absent /\ to # absent /\ from.month > to.month THEN Throw(400)
     ELSE AndThen(call(env, "GetStatistics", <<>>, answers, 1), LAMBDA xml :
            LET base == mapBaseResponse(xml, TRUE)
                actions == keep(xml.items, {i \in Range(xml.items) : shown(i)})
                entries == [k \in DOMAIN actions |-> toActivityEntry(actions[k])]
            IN Return([base |-> base, entries |-> IF base.ok THEN entries ELSE <<>>]))

\* Enumerations of a schema; rows of a table only where there are none.
parseReferenceEntries(items) ==
  LET coded(form) == SelectSeq(items, LAMBDA i : i.form = form /\ i.code # NoText)
      rows == coded("Row") \o coded("Entry") \o coded("Item")
  IN IF coded("enumeration") # <<>> THEN coded("enumeration") ELSE rows

getReferenceTable(env, table, answers) ==
  AndThen(callInfos(env, "GetSchema", [sKey |-> table], answers, 1), LAMBDA xml :
    LET base == mapBaseResponse(xml, TRUE)
    IN Return([base |-> base, table |-> table,
               entries |-> IF base.ok THEN parseReferenceEntries(xml.items) ELSE <<>>]))

\* The flag comes as an element or as an attribute, in any of these words.
parseExpiringRecords(items) ==
  LET blocks == SelectSeq(items, LAMBDA i : i.din # NoText)
  IN [k \in DOMAIN blocks |->
        [din |-> blocks[k].din, recordRetentionDate |-> blocks[k].retentionDate,
         alreadyDeleted |-> blocks[k].flag \in {"true", "1", "y", "delete", "deleted"}]]

getExpiryAlerts(env, query, answers) ==
  AndThen(call(env, "Actions", [MovementId |-> query.movementId], answers, 1), LAMBDA xml :
    LET base == mapBaseResponse(xml, TRUE)
    IN Return([base |-> base,
               records |-> IF base.ok THEN parseExpiringRecords(xml.items) ELSE <<>>,
               alarmMessage |-> orElse(firstTagValue(xml, "AlarmMessage"),
                                       firstTagValue(xml, "Alarm")),
               xmlData |-> parseXmlDataToJson(xml)]))

getSchemaOperationForFormat(format) ==
  CASE format = "html" -> "GetHtmlSchema"
    [] format = "xml2" -> "GetSchema2"
    [] OTHER -> "GetSchema"

\* Unlike the other operations, no result code at all is well here.
callAndMapInfos(env, operation, body, answers) ==
  AndThen(callInfos(env, operation, body, answers, 1), LAMBDA xml :
    LET fault == extractSoapFault(xml)
        code == firstTagValue(xml, "resultCode")
    IN Return([base |->
         [ok |-> /\ xml.status < 400 /\ fault = NoText
                 /\ code = NoText \/ evaluateResultCode(code).key \in {"NO_ERROR", "NO_ANSWER"},
          httpStatus |-> xml.status, fault |-> fault, resultCode |-> code],
         schemas |-> xml.items, payload |-> parseXmlDataToJson(xml)]))

getDocumentedSchema(env, query, answers) ==
  callAndMapInfos(env, query.operation,
                  [Documentation |-> query.documentation # "false"], answers)

listSchemas(env, answers) == callAndMapInfos(env, "ListOfSchema", <<>>, answers)

getSchemaByKey(env, query, answers) ==
  callAndMapInfos(env, getSchemaOperationForFormat(query.format),
                  [sKey |-> normalizeOptional(query.key)], answers)

-----------------------------------------------------------------------------
(* The handlers: the DTO, then the operation. *)

wisdmHandler(r, answers) ==
  CASE r.op = "create" ->
         Validated(WisdmCreateRecordDto(r.body), createRecord(r.env, r.body, answers))
    [] r.op = "update" ->
         Validated(WisdmUpdateRecordDto(r.body), updateRecord(r.env, r.body, answers))
    [] r.op = "extend" ->
         Validated(WisdmExtendRetentionDto(r.body), extendRetention(r.env, r.body, answers))
    [] r.op = "delete" ->
         Validated(WisdmRecordQueryDto(r.body), deleteRecord(r.env, r.body, answers))
    [] r.op = "get" ->
         Validated(WisdmRecordQueryDto(r.body), getDocument(r.env, r.body, answers))
    [] r.op = "count" ->
         Validated(WisdmCountQueryDto(r.query), getDocumentCount(r.env, r.query, answers))
    [] r.op = "activity" ->
         Validated(WisdmActivityQueryDto(r.query), getActivity(r.env, r.query, answers))
    [] r.op = "referenceTable" ->
         Validated(WisdmReferenceTableQueryDto(r.query),
                   getReferenceTable(r.env, r.query.table, answers))
    [] r.op = "alerts" ->
         Validated(WisdmExpiryAlertsQueryDto(r.query), getExpiryAlerts(r.env, r.query, answers))
    [] r.op = "schema" ->
         Validated(WisdmInfosDocumentedSchemaQueryDto(r.query),
                   getDocumentedSchema(r.env, r.query, answers))
    [] r.op = "schemas" -> listSchemas(r.env, answers)
    [] r.op = "schemaByKey" ->
         Validated(WisdmInfosSchemaByKeyQueryDto(r.query),
                   getSchemaByKey(r.env, r.query, answers))
=============================================================================
