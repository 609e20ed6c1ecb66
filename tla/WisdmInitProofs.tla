--------------------------- MODULE WisdmInitProofs ---------------------------
(***************************************************************************)
(* Proofs about WisdmInit, for any number of operators, any lists of       *)
(* records and any settings: its types, that an initialization finalizes   *)
(* only when INTERPOL has inserted its whole list, and that the report of  *)
(* a bulk insert is true.                                                  *)
(***************************************************************************)
EXTENDS WisdmInit, SequenceTheorems, TLAPS

-----------------------------------------------------------------------------
(* The inductive invariant. *)

\* The attempts on the wire are about records that exist.
WireOK ==
  \A a \in wire :
    a.operation = "Create" => a.record \in 1 .. Len(body[a.request].records)

\* Which request can be where.
StepOK(r) ==
  /\ step[r] # "done" => reply[r] = "none"
  /\ step[r] = "StartInit" => body[r].kind = "initialize"
  /\ step[r] = "Create" => /\ body[r].kind \in {"initialize", "bulk", "create", "update"}
                           /\ next[r] \in 1 .. Len(body[r].records)

\* What bulkCreate has counted so far was done so far: while it works on a
\* record, the ones before it are counted, and an answer `ok` it has not looked
\* at yet is already an inserted record.
CountOK(r) ==
  /\ succeeded[r] \subseteq accepted[r]
  /\ accepted[r] \subseteq 1 .. Len(body[r].records)
  /\ step[r] \in {"new", "StartInit"}
       => next[r] = 1 /\ succeeded[r] = {} /\ failures[r] = {}
  /\ step[r] = "Create" /\ body[r].kind \notin {"create", "update"}
       => succeeded[r] \cup failures[r] = 1 .. next[r] - 1
  /\ step[r] = "Create" /\ answer[r] = "ok" => next[r] \in accepted[r]

\* The step of one request that deletes what others have inserted.
FinalizeOK(r) ==
  body[r].kind = "initialize"
    /\ (step[r] = "FinalizeInit" \/ reply[r] \in {"finalized", "notFinalized"})
    => accepted[r] = 1 .. Len(body[r].records)

\* The report of bulkCreate on r, as ReportIsTrue demands it of one given out.
Reported(r) ==
  LET counted == succeeded[r] \cup failures[r]
      total == Len(body[r].records)
  IN /\ succeeded[r] \cap failures[r] = {}
     /\ \/ counted = 1 .. total
        \/ /\ body[r].stopOnError
           /\ \E i \in 1 .. total : failures[r] = {i} /\ counted = 1 .. i

\* No record is counted twice, and the loop goes on after a failure only if it may.
ReportOK(r) ==
  /\ step[r] = "Create" /\ body[r].kind \notin {"create", "update"}
       => /\ succeeded[r] \cap failures[r] = {}
          /\ body[r].stopOnError => failures[r] = {}
  /\ step[r] = "FinalizeInit" /\ body[r].kind = "initialize" => Reported(r)
  /\ reply[r] \in {"inserted", "incomplete", "prepared", "finalized", "notFinalized"}
       => Reported(r)

IInv ==
  /\ TypeOK
  /\ WireOK
  /\ \A r \in Request : StepOK(r) /\ CountOK(r) /\ FinalizeOK(r) /\ ReportOK(r)

-----------------------------------------------------------------------------
(* Typing lemmas. *)

WireTyped == wire \subseteq [request : Request, operation : Operations,
                             record : Nat, attempt : 1 .. MaxRetryAttempts + 1]

\* The part of TypeOK about where requests are and what they wait for.
ControlTyped ==
  /\ step \in [Request -> Operations \cup {"new", "done"}]
  /\ reply \in [Request -> Replies]
  /\ attempt \in [Request -> 0 .. MaxRetryAttempts + 1]
  /\ answer \in [Request -> Answers \cup {"none"}]
  /\ WireTyped

\* Going on to another call keeps the control variables typed.
LEMMA CallTyped ==
  ASSUME ControlTyped, NEW r \in Request, NEW operation \in Operations, NEW i \in Nat,
         call(r, operation, i)
  PROVE  ControlTyped'
  BY WisdmAssumption DEF ControlTyped, WireTyped, call, send

\* So does answering the request.
LEMMA EndTyped ==
  ASSUME ControlTyped, NEW r \in Request, NEW told \in Replies, end(r, told)
  PROVE  ControlTyped'
  BY WisdmAssumption DEF ControlTyped, WireTyped, end

\* A body has the shape its kind promises.
LEMMA BodyTyped ==
  ASSUME TypeOK, NEW r \in Request
  PROVE  /\ body[r] \in Body
         /\ Len(body[r].records) \in Nat
         /\ body[r].kind \notin NoRecords => Len(body[r].records) >= 1
<1>1. body[r] \in Body /\ body[r] \in BodiesOf[r]
  BY DEF TypeOK
<1>2. body[r].records \in Seq(Key)
  BY <1>1 DEF Body
<1>3. body[r].kind \notin NoRecords => body[r].records # <<>>
  BY <1>1, WisdmAssumption
<1> QED BY <1>1, <1>2, <1>3, EmptySeq, LenProperties

\* What a handler passes on is one of the answers a client can get, and none of
\* those that report on inserts.
LEMMA PassOnTyped ==
  ASSUME NEW outcome
  PROVE  /\ passOn(outcome) \in Replies
         /\ passOn(outcome) \notin {"inserted", "incomplete", "prepared",
                                   "finalized", "notFinalized"}
  BY DEF passOn, mapBaseResponse, Replies

-----------------------------------------------------------------------------
(* The pieces handlers are made of preserve the invariant. *)

\* What a step does not touch of a request stays as it was.
LEMMA Untouched ==
  ASSUME NEW q \in Request, StepOK(q), CountOK(q), FinalizeOK(q), ReportOK(q),
         body' = body, step'[q] = step[q], reply'[q] = reply[q], answer'[q] = answer[q],
         next'[q] = next[q], succeeded'[q] = succeeded[q], failures'[q] = failures[q],
         accepted'[q] = accepted[q]
  PROVE  StepOK(q)' /\ CountOK(q)' /\ FinalizeOK(q)' /\ ReportOK(q)'
<1>1. StepOK(q)'
  BY DEF StepOK
<1>2. CountOK(q)'
  BY DEF CountOK
<1>3. FinalizeOK(q)'
  BY DEF FinalizeOK
<1>4. Reported(q)' <=> Reported(q)
  BY DEF Reported
<1>5. ReportOK(q)'
  BY <1>4 DEF ReportOK
<1> QED BY <1>1, <1>2, <1>3, <1>5

\* A handler calls INTERPOL without having counted anything.
LEMMA CallPreserves ==
  ASSUME IInv, NEW r \in Request, NEW operation \in Operations, call(r, operation, 1),
         UNCHANGED <<runVars, store, accepted>>,
         step[r] # "done",
         operation = "StartInit" => body[r].kind = "initialize" /\ step[r] = "new",
         operation = "Create" => /\ body[r].kind \in {"initialize", "bulk", "create", "update"}
                                 /\ step[r] \in {"new", "StartInit"},
         operation = "FinalizeInit" => body[r].kind # "initialize"
  PROVE  IInv'
<1>1. TypeOK /\ ControlTyped /\ WireOK
  BY DEF IInv, TypeOK, ControlTyped, WireTyped
<1>2. TypeOK'
  <2>1. ControlTyped'
    BY <1>1, CallTyped
  <2> QED BY <1>1, <2>1 DEF TypeOK, ControlTyped, WireTyped, runVars
<1>3. Len(body[r].records) \in Nat /\ (operation = "Create" => Len(body[r].records) >= 1)
  BY <1>1, BodyTyped DEF NoRecords
<1>4. WireOK'
  BY <1>1, <1>3 DEF WireOK, call, send, runVars
<1>5. /\ step'[r] = operation /\ answer'[r] = "none" /\ reply' = reply
      /\ \A q \in Request \ {r} : step'[q] = step[q] /\ answer'[q] = answer[q]
      /\ UNCHANGED <<body, next, succeeded, failures, accepted>>
  BY <1>1 DEF ControlTyped, call, send, runVars
<1>6. \A q \in Request \ {r} : (StepOK(q) /\ CountOK(q) /\ FinalizeOK(q) /\ ReportOK(q))'
  BY <1>5 DEF IInv, StepOK, CountOK, FinalizeOK, ReportOK, Reported
<1>7. StepOK(r)' /\ CountOK(r)' /\ FinalizeOK(r)' /\ ReportOK(r)'
  <2>1. StepOK(r) /\ CountOK(r) /\ FinalizeOK(r) /\ ReportOK(r)
    BY DEF IInv
  <2>2. StepOK(r)'
    BY <1>3, <1>5, <2>1 DEF StepOK, CountOK
  <2>3. CountOK(r)'
    <3>1. operation \in {"StartInit", "Create"}
            => next[r] = 1 /\ succeeded[r] = {} /\ failures[r] = {}
      BY <2>1 DEF CountOK
    <3>2. operation # "new" /\ 1 .. 1 - 1 = {}
      BY DEF Operations
    <3> QED BY <1>5, <2>1, <3>1, <3>2 DEF CountOK
  <2>4. FinalizeOK(r)'
    BY <1>5, <2>1 DEF FinalizeOK, StepOK
  <2>5. ReportOK(r)'
    BY <1>5, <2>1 DEF ReportOK, StepOK, CountOK
  <2> QED BY <2>2, <2>3, <2>4, <2>5
<1> QED BY <1>2, <1>4, <1>6, <1>7 DEF IInv

\* A request ends; if it says anything about finalizing, the list is complete.
LEMMA EndPreserves ==
  ASSUME IInv, NEW r \in Request, NEW told \in Replies, end(r, told),
         UNCHANGED <<runVars, store, accepted>>,
         told \notin {"inserted", "incomplete", "prepared"},
         told \in {"finalized", "notFinalized"}
           => step[r] = "FinalizeInit" /\ body[r].kind = "initialize"
  PROVE  IInv'
<1>1. TypeOK /\ ControlTyped /\ WireOK
  BY DEF IInv, TypeOK, ControlTyped, WireTyped
<1>2. TypeOK'
  <2>1. ControlTyped'
    BY <1>1, EndTyped
  <2> QED BY <1>1, <2>1 DEF TypeOK, ControlTyped, WireTyped, runVars
<1>3. WireOK'
  BY <1>1 DEF WireOK, end, runVars
<1>4. /\ step'[r] = "done" /\ reply'[r] = told
      /\ \A q \in Request \ {r} : /\ step'[q] = step[q] /\ answer'[q] = answer[q]
                                  /\ reply'[q] = reply[q]
      /\ UNCHANGED <<body, next, succeeded, failures, accepted>>
  BY <1>1 DEF ControlTyped, end, runVars
<1>5. \A q \in Request \ {r} : (StepOK(q) /\ CountOK(q) /\ FinalizeOK(q) /\ ReportOK(q))'
  BY <1>4 DEF IInv, StepOK, CountOK, FinalizeOK, ReportOK, Reported
<1>6. StepOK(r)' /\ CountOK(r)' /\ FinalizeOK(r)' /\ ReportOK(r)'
  <2>1. StepOK(r) /\ CountOK(r) /\ FinalizeOK(r) /\ ReportOK(r)
    BY DEF IInv
  <2>2. StepOK(r)' /\ CountOK(r)' /\ FinalizeOK(r)'
    BY <1>4, <2>1 DEF StepOK, CountOK, FinalizeOK
  <2>3. Reported(r)' <=> Reported(r)
    BY <1>4 DEF Reported
  <2>4. ReportOK(r)'
    BY <1>4, <2>1, <2>3 DEF ReportOK
  <2> QED BY <2>2, <2>4
<1> QED BY <1>2, <1>3, <1>5, <1>6 DEF IInv

\* The turn of the loop: the record worked on is counted, as inserted only if
\* INTERPOL said so, and the last step of it is the only way to FinalizeInit.
LEMMA InsertPreserves ==
  ASSUME IInv, NEW r \in Request, NEW outcome, step[r] = "Create",
         body[r].kind \in {"initialize", "bulk"},
         outcome = "ok" => answer[r] = "ok",
         afterInsert(r, outcome), UNCHANGED <<options, body, store, accepted>>
  PROVE  IInv'
<1> DEFINE ok == outcome = "ok"
           n == next[r]
           total == Len(body[r].records)
           anyFailed == ~ok \/ failures[r] # {}
           stop == isLast(r) \/ (~ok /\ body[r].stopOnError)
<1>1. TypeOK /\ ControlTyped /\ WireOK /\ StepOK(r) /\ CountOK(r) /\ FinalizeOK(r) /\ ReportOK(r)
  BY DEF IInv, TypeOK, ControlTyped, WireTyped
<1>2. total \in Nat /\ n \in 1 .. total
  BY <1>1, BodyTyped DEF StepOK
<1>3. /\ succeeded' = IF ok THEN [succeeded EXCEPT ![r] = @ \cup {n}] ELSE succeeded
      /\ failures' = IF ok THEN failures ELSE [failures EXCEPT ![r] = @ \cup {n}]
      /\ \/ stop /\ afterInserts(r, anyFailed) /\ UNCHANGED next
         \/ ~stop /\ next' = [next EXCEPT ![r] = @ + 1] /\ call(r, "Create", n + 1)
  BY DEF afterInsert, mapBaseResponse
<1>4. /\ succeeded \in [Request -> SUBSET Nat] /\ failures \in [Request -> SUBSET Nat]
      /\ next \in [Request -> Nat \ {0}]
  BY <1>1 DEF TypeOK
<1>5. /\ succeeded' \in [Request -> SUBSET Nat] /\ failures' \in [Request -> SUBSET Nat]
      /\ \A q \in Request \ {r} : succeeded'[q] = succeeded[q] /\ failures'[q] = failures[q]
  BY <1>2, <1>3, <1>4
<1>6. /\ succeeded'[r] = IF ok THEN succeeded[r] \cup {n} ELSE succeeded[r]
      /\ failures'[r] = IF ok THEN failures[r] ELSE failures[r] \cup {n}
  BY <1>3, <1>4
<1>7. /\ succeeded'[r] \subseteq accepted[r]
      /\ succeeded'[r] \cup failures'[r] = 1 .. n
  <2>1. succeeded[r] \cup failures[r] = 1 .. n - 1 /\ succeeded[r] \subseteq accepted[r]
    BY <1>1 DEF CountOK
  <2>2. ok => n \in accepted[r]
    BY <1>1 DEF CountOK
  <2>3. 1 .. n = (1 .. n - 1) \cup {n}
    BY <1>2
  <2> QED BY <1>6, <2>1, <2>2, <2>3
<1>8. /\ succeeded'[r] \cap failures'[r] = {}
      /\ body[r].stopOnError => failures'[r] = IF ok THEN {} ELSE {n}
  <2>1. /\ succeeded[r] \cap failures[r] = {}
        /\ body[r].stopOnError => failures[r] = {}
    BY <1>1 DEF ReportOK
  <2>2. n \notin succeeded[r] \cup failures[r]
    BY <1>1, <1>2 DEF CountOK
  <2> QED BY <1>6, <2>1, <2>2
<1>9. CASE stop
  <2>1. afterInserts(r, anyFailed) /\ next' = next
    BY <1>3, <1>9
  <2>2. \/ \E told \in {"inserted", "incomplete", "prepared"} : end(r, told)
        \/ ~anyFailed /\ call(r, "FinalizeInit", 1)
    BY <2>1, Zenon DEF afterInserts
  <2>3. ~anyFailed => accepted[r] = 1 .. total
    <3>1. SUFFICES ASSUME ~anyFailed PROVE accepted[r] = 1 .. total
      OBVIOUS
    <3>2. n = total
      BY <1>9, <3>1 DEF isLast
    <3>3. failures'[r] = {}
      BY <1>6, <3>1
    <3>4. accepted[r] \subseteq 1 .. total
      BY <1>1 DEF CountOK
    <3> QED BY <1>7, <3>2, <3>3, <3>4
  <2>4. Reported(r)'
    <3>1. CASE n = total
      BY <1>7, <1>8, <3>1 DEF Reported
    <3>2. CASE n # total
      <4>1. ~ok /\ body[r].stopOnError
        BY <1>9, <3>2 DEF isLast
      <4>2. failures'[r] = {n} /\ succeeded'[r] \cup failures'[r] = 1 .. n
        BY <1>7, <1>8, <4>1
      <4> QED BY <1>2, <1>8, <4>1, <4>2 DEF Reported
    <3> QED BY <3>1, <3>2
  <2>5. CASE \E told \in {"inserted", "incomplete", "prepared"} : end(r, told)
    <3>1. PICK told \in {"inserted", "incomplete", "prepared"} : end(r, told)
      BY <2>5
    <3>2. told \in Replies
      BY DEF Replies
    <3>3. ControlTyped'
      BY <1>1, <3>1, <3>2, EndTyped
    <3>4. TypeOK'
      BY <1>1, <1>5, <2>1, <3>3 DEF TypeOK, ControlTyped, WireTyped
    <3>5. WireOK'
      BY <1>1, <3>1 DEF WireOK, end
    <3>6. /\ step'[r] = "done" /\ reply'[r] = told
          /\ \A q \in Request \ {r} : /\ step'[q] = step[q] /\ answer'[q] = answer[q]
                                      /\ reply'[q] = reply[q]
      BY <1>1, <3>1 DEF ControlTyped, end
    <3>7. \A q \in Request \ {r} : (StepOK(q) /\ CountOK(q) /\ FinalizeOK(q) /\ ReportOK(q))'
      BY <1>5, <2>1, <3>6, Untouched DEF IInv
    <3>8. StepOK(r)' /\ CountOK(r)' /\ FinalizeOK(r)' /\ ReportOK(r)'
      BY <1>1, <1>7, <2>4, <3>6 DEF StepOK, CountOK, FinalizeOK, ReportOK
    <3> QED BY <3>4, <3>5, <3>7, <3>8 DEF IInv
  <2>6. CASE ~anyFailed /\ call(r, "FinalizeInit", 1)
    <3>1. ControlTyped'
      <4>1. "FinalizeInit" \in Operations /\ 1 \in Nat
        BY DEF Operations
      <4> QED BY <1>1, <2>6, <4>1, CallTyped
    <3>2. TypeOK'
      BY <1>1, <1>5, <2>1, <3>1 DEF TypeOK, ControlTyped, WireTyped
    <3>3. WireOK'
      BY <1>1, <2>6 DEF WireOK, call, send
    <3>4. /\ step'[r] = "FinalizeInit" /\ reply' = reply
          /\ \A q \in Request \ {r} : step'[q] = step[q] /\ answer'[q] = answer[q]
      BY <1>1, <2>6 DEF ControlTyped, call, send
    <3>5. \A q \in Request \ {r} : (StepOK(q) /\ CountOK(q) /\ FinalizeOK(q) /\ ReportOK(q))'
      BY <1>5, <2>1, <3>4, Untouched DEF IInv
    <3>6. StepOK(r)' /\ CountOK(r)' /\ FinalizeOK(r)' /\ ReportOK(r)'
      BY <1>1, <1>7, <2>3, <2>4, <2>6, <3>4 DEF StepOK, CountOK, FinalizeOK, ReportOK
    <3> QED BY <3>2, <3>3, <3>5, <3>6 DEF IInv
  <2> QED BY <2>2, <2>5, <2>6
<1>10. CASE ~stop
  <2>1. next' = [next EXCEPT ![r] = @ + 1] /\ call(r, "Create", n + 1)
    BY <1>3, <1>10
  <2>2. n + 1 \in 1 .. total
    BY <1>2, <1>10 DEF isLast
  <2>3. ControlTyped'
    <3>1. "Create" \in Operations /\ n + 1 \in Nat
      BY <2>2 DEF Operations
    <3> QED BY <1>1, <2>1, <3>1, CallTyped
  <2>4. next' \in [Request -> Nat \ {0}] /\ next'[r] = n + 1
        /\ \A q \in Request \ {r} : next'[q] = next[q]
    BY <1>2, <1>4, <2>1
  <2>5. TypeOK'
    <3>1. \A q \in Request : next'[q] > 1 => next'[q] <= Len(body[q].records)
      <4>1. next'[r] <= Len(body[r].records)
        BY <2>2, <2>4
      <4>2. \A q \in Request : next[q] > 1 => next[q] <= Len(body[q].records)
        BY <1>1 DEF TypeOK
      <4> QED BY <2>4, <4>1, <4>2
    <3> QED BY <1>1, <1>5, <2>3, <2>4, <3>1 DEF TypeOK, ControlTyped, WireTyped
  <2>6. WireOK'
    BY <1>1, <2>1, <2>2 DEF WireOK, call, send
  <2>7. /\ step'[r] = "Create" /\ reply' = reply /\ answer'[r] = "none"
        /\ \A q \in Request \ {r} : step'[q] = step[q] /\ answer'[q] = answer[q]
    BY <1>1, <2>1 DEF ControlTyped, call, send
  <2>8. \A q \in Request \ {r} : (StepOK(q) /\ CountOK(q) /\ FinalizeOK(q) /\ ReportOK(q))'
    <3> SUFFICES ASSUME NEW q \in Request \ {r} PROVE (StepOK(q) /\ CountOK(q) /\ FinalizeOK(q) /\ ReportOK(q))'
      OBVIOUS
    <3>1. /\ UNCHANGED <<body, accepted, reply>> /\ step'[q] = step[q] /\ answer'[q] = answer[q]
          /\ next'[q] = next[q] /\ succeeded'[q] = succeeded[q] /\ failures'[q] = failures[q]
      BY <1>5, <2>4, <2>7
    <3>2. StepOK(q) /\ CountOK(q) /\ FinalizeOK(q) /\ ReportOK(q)
      BY DEF IInv
    <3> QED BY <3>1, <3>2, Untouched
  <2>9. StepOK(r)' /\ FinalizeOK(r)'
    BY <1>1, <2>2, <2>4, <2>7 DEF StepOK, FinalizeOK
  <2>10. CountOK(r)'
    <3>1. succeeded'[r] \cup failures'[r] = 1 .. next'[r] - 1
      BY <1>2, <1>7, <2>4
    <3>2. /\ succeeded'[r] \subseteq accepted'[r]
          /\ accepted'[r] \subseteq 1 .. Len(body'[r].records)
      BY <1>1, <1>7 DEF CountOK
    <3> QED BY <2>7, <3>1, <3>2 DEF CountOK
  <2>11. ReportOK(r)'
    <3>1. reply'[r] = "none"
      BY <1>1, <2>7 DEF StepOK
    <3>2. body[r].stopOnError => failures'[r] = {}
      BY <1>8, <1>10
    <3> QED BY <1>8, <2>7, <3>1, <3>2 DEF ReportOK
  <2> QED BY <2>5, <2>6, <2>8, <2>9, <2>10, <2>11 DEF IInv
<1> QED BY <1>9, <1>10

\* Sending the current call once more changes nothing but the attempt.
LEMMA ResendPreserves ==
  ASSUME IInv, NEW r \in Request, running(r), NEW n \in 1 .. MaxRetryAttempts + 1,
         send(r, step[r], IF step[r] = "Create" THEN next[r] ELSE 1, n),
         UNCHANGED <<runVars, step, reply, store, accepted>>
  PROVE  IInv'
<1>1. TypeOK /\ ControlTyped /\ WireOK /\ StepOK(r)
  BY DEF IInv, TypeOK, ControlTyped, WireTyped
<1>2. next[r] \in Nat /\ step[r] \in Operations
  BY <1>1 DEF TypeOK, running
<1>3. TypeOK'
  <2>1. attempt' \in [Request -> 0 .. MaxRetryAttempts + 1]
    BY <1>1, WisdmAssumption DEF ControlTyped, send
  <2>2. answer' \in [Request -> Answers \cup {"none"}]
    BY <1>1 DEF ControlTyped, send
  <2>3. WireTyped'
    BY <1>1, <1>2 DEF ControlTyped, WireTyped, send
  <2> QED BY <1>1, <2>1, <2>2, <2>3 DEF TypeOK, WireTyped, runVars
<1>4. WireOK'
  BY <1>1 DEF WireOK, StepOK, send, runVars
<1>5. \A q \in Request : (StepOK(q) /\ CountOK(q) /\ FinalizeOK(q) /\ ReportOK(q))'
  <2>1. /\ answer'[r] = "none"
        /\ \A q \in Request \ {r} : answer'[q] = answer[q]
        /\ UNCHANGED <<body, next, succeeded, failures, step, reply, accepted>>
    BY <1>1 DEF ControlTyped, send, runVars
  <2> QED BY <2>1 DEF IInv, StepOK, CountOK, FinalizeOK, ReportOK, Reported
<1> QED BY <1>3, <1>4, <1>5 DEF IInv

\* Whatever a call comes back with, the handler goes on correctly.
LEMMA ResumePreserves ==
  ASSUME IInv, NEW r \in Request, running(r), NEW outcome,
         outcome = "ok" => answer[r] = "ok", resume(r, outcome)
  PROVE  IInv'
<1>1. TypeOK /\ StepOK(r) /\ step[r] # "done" /\ step[r] # "new"
  BY DEF IInv, running, Operations
<1>2. UNCHANGED <<options, body, store, accepted>>
  BY DEF resume
<1>3. CASE step[r] = "StartInit" /\ afterStartInit(r, outcome)
  <2>1. UNCHANGED <<runVars, store, accepted>>
    BY <1>2, <1>3 DEF afterStartInit, keepCounts, runVars
  <2>2. CASE call(r, "Create", 1)
    <3>1. "Create" \in Operations /\ body[r].kind = "initialize"
      BY <1>1, <1>3 DEF Operations, StepOK
    <3> QED BY <1>1, <1>3, <2>1, <2>2, <3>1, CallPreserves
  <2>3. CASE \E told \in {"unavailable", "rejected"} : end(r, told)
    BY <2>1, <2>3, EndPreserves DEF Replies
  <2> QED BY <1>3, <2>2, <2>3, Zenon DEF afterStartInit
<1>4. CASE step[r] = "Create" /\ afterCreate(r, outcome)
  <2>1. CASE body[r].kind \in {"create", "update"} /\ end(r, passOn(outcome)) /\ keepCounts
    <3>1. UNCHANGED <<runVars, store, accepted>>
      BY <1>2, <2>1 DEF keepCounts, runVars
    <3> QED BY <2>1, <3>1, PassOnTyped, EndPreserves
  <2>2. CASE body[r].kind \notin {"create", "update"} /\ afterInsert(r, outcome)
    <3>1. body[r].kind \in {"initialize", "bulk"}
      BY <1>1, <1>4, <2>2 DEF StepOK
    <3> QED BY <1>2, <1>4, <2>2, <3>1, InsertPreserves
  <2> QED BY <1>4, <2>1, <2>2 DEF afterCreate
<1>5. CASE step[r] = "FinalizeInit" /\ afterFinalizeInit(r, outcome)
  <2>1. UNCHANGED <<runVars, store, accepted>>
    BY <1>2, <1>5 DEF afterFinalizeInit, keepCounts, runVars
  <2>2. CASE end(r, passOn(outcome))
    BY <2>1, <2>2, PassOnTyped, EndPreserves
  <2>3. CASE /\ body[r].kind = "initialize"
             /\ \E told \in {"unavailable", "finalized", "notFinalized"} : end(r, told)
    <3>1. PICK told \in {"unavailable", "finalized", "notFinalized"} : end(r, told)
      BY <2>3
    <3>2. told \in Replies
      BY DEF Replies
    <3> QED BY <1>5, <2>1, <2>3, <3>1, <3>2, EndPreserves
  <2> QED BY <1>5, <2>2, <2>3, Zenon DEF afterFinalizeInit
<1>6. CASE step[r] = "Search" /\ afterSearch(r, outcome)
  <2>1. UNCHANGED <<runVars, store, accepted>>
    BY <1>2, <1>6 DEF afterSearch, keepCounts, runVars
  <2>2. CASE \E operation \in {"Delete", "ChangeRetentionDate"} : call(r, operation, 1)
    <3>1. \A operation \in {"Delete", "ChangeRetentionDate"} : operation \in Operations
      BY DEF Operations
    <3> QED BY <1>1, <2>1, <2>2, <3>1, CallPreserves
  <2>3. CASE \E told \in {"unavailable", "notFound", "badGateway"} : end(r, told)
    BY <2>1, <2>3, EndPreserves DEF Replies
  <2> QED BY <1>6, <2>2, <2>3, Zenon DEF afterSearch
<1>7. CASE /\ step[r] \in {"Clear", "Delete", "ChangeRetentionDate"}
             /\ end(r, passOn(outcome))
             /\ keepCounts
  <2>1. UNCHANGED <<runVars, store, accepted>>
    BY <1>2, <1>7 DEF keepCounts, runVars
  <2> QED BY <1>7, <2>1, PassOnTyped, EndPreserves
<1> QED BY <1>3, <1>4, <1>5, <1>6, <1>7 DEF resume

\* INTERPOL carries out or refuses an attempt, awaited or late.
LEMMA ExecutePreserves ==
  ASSUME IInv, NEW a \in wire, Execute(a)
  PROVE  IInv'
<1> DEFINE r == a.request
           key == body[r].records[a.record]
           awaited == /\ a.operation = step[r]
                      /\ a.operation = "Create" => a.record = next[r]
                      /\ a.attempt = attempt[r]
<1>1. TypeOK /\ ControlTyped /\ WireOK
  BY DEF IInv, TypeOK, ControlTyped, WireTyped
<1>2. r \in Request /\ a.operation \in Operations /\ a.record \in Nat
  BY <1>1 DEF TypeOK
<1>3. UNCHANGED <<options, body, next, succeeded, failures, step, reply, attempt>>
      /\ wire' = wire \ {a}
  BY DEF Execute, runVars
<1>4. PICK given \in Answers :
        /\ answer' = IF awaited THEN [answer EXCEPT ![r] = given] ELSE answer
        /\ \/ UNCHANGED <<store, accepted>> /\ (awaited => given # "ok" \/ a.operation # "Create")
           \/ /\ store' = effect(a.operation, key)
              /\ accepted' = IF a.operation = "Create"
                             THEN [accepted EXCEPT ![r] = @ \cup {a.record}] ELSE accepted
  BY DEF Execute, Answers
<1>5. accepted' \in [Request -> SUBSET Nat]
      /\ \A q \in Request : \/ accepted'[q] = accepted[q]
                            \/ /\ q = r /\ a.operation = "Create"
                               /\ accepted'[q] = accepted[q] \cup {a.record}
  <2>1. accepted \in [Request -> SUBSET Nat]
    BY <1>1 DEF TypeOK
  <2> QED BY <1>2, <1>4, <2>1
<1>6. TypeOK'
  <2>1. store' \in [Key -> RecordStates]
    <3>1. store \in [Key -> RecordStates]
      BY <1>1 DEF TypeOK
    <3>2. effect(a.operation, key) \in [Key -> RecordStates]
      BY <3>1 DEF effect, RecordStates
    <3> QED BY <1>4, <3>1, <3>2
  <2>2. answer' \in [Request -> Answers \cup {"none"}]
    BY <1>1, <1>4 DEF ControlTyped
  <2>3. WireTyped'
    BY <1>1, <1>3 DEF ControlTyped, WireTyped
  <2> QED BY <1>1, <1>3, <1>5, <2>1, <2>2, <2>3 DEF TypeOK, WireTyped
<1>7. WireOK'
  BY <1>1, <1>3 DEF WireOK
<1>8. ASSUME NEW q \in Request PROVE (StepOK(q) /\ CountOK(q) /\ FinalizeOK(q) /\ ReportOK(q))'
  <2>1. StepOK(q) /\ CountOK(q) /\ FinalizeOK(q) /\ ReportOK(q)
    BY DEF IInv
  <2>2. StepOK(q)'
    BY <1>3, <2>1 DEF StepOK
  <2>3. a.operation = "Create" => a.record \in 1 .. Len(body[r].records)
    BY <1>1 DEF WireOK
  <2>4. accepted[q] \subseteq accepted'[q] /\ accepted'[q] \subseteq 1 .. Len(body[q].records)
    BY <1>5, <2>1, <2>3 DEF CountOK
  <2>5. step[q] = "Create" /\ answer'[q] = "ok" => next[q] \in accepted'[q]
    <3>1. CASE answer'[q] = answer[q]
      BY <2>1, <2>4, <3>1 DEF CountOK
    <3>2. CASE answer'[q] # answer[q]
      <4>1. q = r /\ awaited /\ answer'[q] = given
        BY <1>1, <1>4, <3>2 DEF ControlTyped
      <4>2. accepted \in [Request -> SUBSET Nat]
        BY <1>1 DEF TypeOK
      <4> QED BY <1>4, <4>1, <4>2
    <3> QED BY <3>1, <3>2
  <2>6. CountOK(q)'
    BY <1>3, <2>1, <2>4, <2>5 DEF CountOK
  <2>7. FinalizeOK(q)'
    BY <1>3, <2>1, <2>4 DEF FinalizeOK
  <2>8. Reported(q)' <=> Reported(q)
    BY <1>3 DEF Reported
  <2>9. ReportOK(q)'
    BY <1>3, <2>1, <2>8 DEF ReportOK
  <2> QED BY <2>2, <2>6, <2>7, <2>9
<1> QED BY <1>6, <1>7, <1>8 DEF IInv

\* The process restarts.
LEMMA RestartPreserves ==
  ASSUME IInv, Restart
  PROVE  IInv'
<1>1. TypeOK
  BY DEF IInv
<1>2. /\ step' = [r \in Request |-> IF running(r) THEN "done" ELSE step[r]]
      /\ reply' = [r \in Request |-> IF running(r) THEN "lost" ELSE reply[r]]
      /\ attempt' = [r \in Request |-> 0]
      /\ answer' = [r \in Request |-> "none"]
      /\ UNCHANGED <<options, body, next, succeeded, failures, wire, store, accepted>>
  BY DEF Restart, runVars
<1>3. TypeOK'
  BY <1>1, <1>2, WisdmAssumption DEF TypeOK, Replies
<1>4. WireOK'
  BY <1>2 DEF IInv, WireOK
<1>5. \A r \in Request : (StepOK(r) /\ CountOK(r) /\ FinalizeOK(r) /\ ReportOK(r))'
  BY <1>2 DEF IInv, StepOK, CountOK, FinalizeOK, ReportOK, Reported, running, Operations
<1> QED BY <1>3, <1>4, <1>5 DEF IInv

\* A call fails without a response: it is sent again within its budget, or the
\* handler goes on with the exception.
LEMMA FailPreserves ==
  ASSUME IInv, NEW r \in Request, NEW code, fail(r, code)
  PROVE  IInv'
<1> DEFINE error == [code |-> code, status |-> NoStatus]
           again == shouldRetry("post", options.unsafeRetryMode,
                                options.retryAttempts, error, attempt[r])
<1>1. running(r)
  BY DEF fail
<1>2. CASE again /\ send(r, step[r], IF step[r] = "Create" THEN next[r] ELSE 1, attempt[r] + 1)
             /\ UNCHANGED <<runVars, step, reply, store, accepted>>
  <2>1. attempt[r] <= options.retryAttempts
    BY <1>2 DEF shouldRetry
  <2>2. attempt[r] \in Nat /\ options.retryAttempts \in 0 .. MaxRetryAttempts
    BY WisdmAssumption DEF IInv, TypeOK
  <2>3. attempt[r] + 1 \in 1 .. MaxRetryAttempts + 1
    BY <2>1, <2>2, WisdmAssumption
  <2> QED BY <1>1, <1>2, <2>3, ResendPreserves
<1>3. CASE resume(r, "thrown")
  BY <1>1, <1>3, ResumePreserves
<1> QED BY <1>2, <1>3, Zenon DEF fail

\* The first call of a handler, or its refusal to do anything unconfirmed.
LEMMA StartPreserves ==
  ASSUME IInv, NEW r \in Request, Start(r)
  PROVE  IInv'
<1>1. step[r] = "new"
  BY DEF Start, initializeRecords, finalizeInit, clearAllRecords, bulkCreate,
         createRecord, updateRecord, deleteRecord, extendRetention, begins
<1>2. UNCHANGED <<runVars, store, accepted>>
  BY DEF Start, initializeRecords, finalizeInit, clearAllRecords, bulkCreate,
         createRecord, updateRecord, deleteRecord, extendRetention
<1>3. \/ end(r, "badRequest")
      \/ \E operation \in Operations :
           /\ call(r, operation, 1)
           /\ operation = "StartInit" => body[r].kind = "initialize"
           /\ operation = "Create" => body[r].kind \in {"bulk", "create", "update"}
           /\ operation = "FinalizeInit" => body[r].kind = "finalize"
  BY Zenon DEF Start, initializeRecords, finalizeInit, clearAllRecords, bulkCreate,
         createRecord, updateRecord, deleteRecord, extendRetention, begins, confirmed, Operations
<1>4. CASE end(r, "badRequest")
  BY <1>2, <1>4, EndPreserves DEF Replies
<1>5. ASSUME NEW operation \in Operations, call(r, operation, 1),
             operation = "StartInit" => body[r].kind = "initialize",
             operation = "Create" => body[r].kind \in {"bulk", "create", "update"},
             operation = "FinalizeInit" => body[r].kind = "finalize"
      PROVE  IInv'
  BY <1>1, <1>2, <1>5, CallPreserves
<1> QED BY <1>3, <1>4, <1>5

-----------------------------------------------------------------------------
(* The theorems. *)

\* A process that has just started satisfies the invariant.
LEMMA InvariantInitially == Init => IInv
<1> SUFFICES ASSUME Init PROVE IInv
  OBVIOUS
<1>1. body \in [Request -> Body] /\ \A r \in Request : body[r] \in BodiesOf[r]
  BY WisdmAssumption DEF Init
<1>2. options \in [unsafeRetryMode : UnsafeRetryMode,
                    retryAttempts : 0 .. MaxRetryAttempts, defaultTimeoutMs : Nat]
  <2>1. PICK env \in Environments :
          options = [unsafeRetryMode |-> toUnsafeRetryMode(env.mode),
                     retryAttempts |-> toNumber(env.retryAttempts, 2),
                     defaultTimeoutMs |-> toNumber(env.defaultTimeoutMs, 15000)]
    BY DEF Init
  <2>2. /\ toNumber(env.retryAttempts, 2) \in 0 .. MaxRetryAttempts
        /\ toNumber(env.defaultTimeoutMs, 15000) \in Nat
    <3>1. /\ env.retryAttempts \in Int /\ env.defaultTimeoutMs \in Int
          /\ toNumber(env.retryAttempts, 2) <= MaxRetryAttempts
      BY WisdmAssumption
    <3> QED BY <3>1 DEF toNumber
  <2>3. toUnsafeRetryMode(env.mode) \in UnsafeRetryMode
    BY DEF toUnsafeRetryMode, UnsafeRetryMode
  <2> QED BY <2>1, <2>2, <2>3
<1>3. TypeOK
  <2>1. store \in [Key -> RecordStates]
    BY DEF Init, RecordStates
  <2> QED BY <1>1, <1>2, <2>1, WisdmAssumption DEF Init, TypeOK, Replies
<1>4. WireOK
  BY DEF Init, WireOK
<1>5. ASSUME NEW r \in Request PROVE StepOK(r) /\ CountOK(r) /\ FinalizeOK(r) /\ ReportOK(r)
  BY DEF Init, StepOK, CountOK, FinalizeOK, ReportOK, Reported
<1> QED BY <1>3, <1>4, <1>5 DEF IInv

\* Every step of every operator, of INTERPOL and of the network preserves it.
LEMMA InvariantStep == IInv /\ [Next]_vars => IInv'
<1> SUFFICES ASSUME IInv, [Next]_vars PROVE IInv'
  OBVIOUS
<1>1. ASSUME NEW r \in Request, Start(r) PROVE IInv'
  BY <1>1, StartPreserves
<1>2. ASSUME NEW r \in Request, Respond(r) PROVE IInv'
  BY <1>2, ResumePreserves DEF Respond
<1>3. ASSUME NEW r \in Request, GatewayError(r) PROVE IInv'
  BY <1>3, ResumePreserves DEF GatewayError
<1>4. ASSUME NEW r \in Request, Broken(r) PROVE IInv'
  BY <1>4, FailPreserves DEF Broken
<1>5. ASSUME NEW r \in Request, TimeOut(r) PROVE IInv'
  BY <1>5, FailPreserves DEF TimeOut
<1>6. ASSUME NEW a \in wire, Execute(a) PROVE IInv'
  BY <1>6, ExecutePreserves
<1>7. CASE Restart
  BY <1>7, RestartPreserves
<1>8. CASE UNCHANGED vars
  <2>1. UNCHANGED <<options, body, next, succeeded, failures, step, reply, attempt,
                    answer, wire, store, accepted>>
    BY <1>8 DEF vars, runVars, callVars
  <2>2. TypeOK' /\ WireOK'
    BY <2>1 DEF IInv, TypeOK, WireOK
  <2>3. \A r \in Request : (StepOK(r) /\ CountOK(r) /\ FinalizeOK(r) /\ ReportOK(r))'
    BY <2>1 DEF IInv, StepOK, CountOK, FinalizeOK, ReportOK, Reported
  <2> QED BY <2>2, <2>3 DEF IInv
<1> QED BY <1>1, <1>2, <1>3, <1>4, <1>5, <1>6, <1>7, <1>8 DEF Next

\* The invariant holds in every reachable state, whatever the fairness.
THEOREM Invariance == Spec => []IInv
BY InvariantInitially, InvariantStep, PTL DEF Spec

\* Wisdm.service.ts and Wisdm.integration.ts keep every variable in its type: the
\* loop index never leaves the list, and no call exceeds its retry budget.
THEOREM TypesCorrect == Spec => []TypeOK
<1>1. IInv => TypeOK
  BY DEF IInv
<1> QED BY <1>1, Invariance, PTL

\* initializeRecords sends FinalizeInit, and reports on it, only after INTERPOL has
\* inserted every record of the list, for any number of concurrent operators,
\* lists, settings, failures, late executions and restarts.
THEOREM FinalizesOnlyWhenComplete == Spec => []FinalizeOnlyWhenComplete
<1>1. IInv => FinalizeOnlyWhenComplete
  BY DEF IInv, FinalizeOK, FinalizeOnlyWhenComplete
<1> QED BY <1>1, Invariance, PTL

\* What bulkCreate tells the operator is true: INTERPOL has inserted what it counts
\* as inserted, and every record is counted once, up to the failure it stops at.
THEOREM ReportsAreTrue == Spec => []ReportIsTrue
<1>1. IInv => ReportIsTrue
  <2>1. SUFFICES ASSUME IInv, NEW r \in Request
        PROVE  /\ succeeded[r] \subseteq accepted[r]
               /\ reply[r] \in {"inserted", "incomplete", "prepared", "finalized",
                               "notFinalized"} => Reported(r)
    BY Zenon DEF ReportIsTrue, Reported
  <2>2. CountOK(r) /\ ReportOK(r)
    BY <2>1, Zenon DEF IInv
  <2> QED BY <2>2 DEF CountOK, ReportOK
<1> QED BY <1>1, Invariance, PTL
=============================================================================
