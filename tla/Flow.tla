-------------------------------- MODULE Flow --------------------------------
(***************************************************************************)
(* Handlers between their awaits.  A handler is an operator of its inputs  *)
(* and of the answers it has received so far; it asks for a further call,  *)
(* returns, or throws an exception with an HTTP status.                    *)
(***************************************************************************)
EXTENDS Integers, Sequences, Functions

AskAll(calls) == [kind |-> "ask", calls |-> calls]
Ask(call) == AskAll(<<call>>)
Return(value) == [kind |-> "return", value |-> value]
Throw(status) == [kind |-> "throw", status |-> status]

\* An answer that never came: an error without a response.
NoAnswer == [status |-> 0]

\* The statuses axios lets through when a call sets no validateStatus.
validStatus(status) == status \in 200 .. 299

\* The answer to the n-th call; `failed` is what an error of the call itself ends in.
Await(call, answers, n, failed) ==
  IF Len(answers) < n THEN Ask(call)
  ELSE IF answers[n] = NoAnswer THEN failed
  ELSE Return(answers[n])

\* The same under axios' own validateStatus, where an error status fails too.
AwaitValid(call, answers, n, failed) ==
  IF Len(answers) >= n /\ ~validStatus(answers[n].status) THEN failed
  ELSE Await(call, answers, n, failed)

\* The answers to calls made at once (Promise.all), none before them; one that fails
\* decides.
AwaitAll(calls, answers, failed) ==
  IF answers = <<>> THEN AskAll(calls)
  ELSE IF \E k \in DOMAIN calls : ~validStatus(answers[k].status) THEN failed
  ELSE Return(answers)

\* Go on with the value of an inner step, unless it asks or throws itself.
AndThen(step, then(_)) == IF step.kind = "return" THEN then(step.value) ELSE step

\* filter() of an array: the elements that belong to a set, in their order.  It is a
\* function of the length, which SelectSeq is not, so that proofs can expand it.
keep(s, wanted) ==
  LET kept[n \in 0 .. Len(s)] ==
        IF n = 0 THEN <<>>
        ELSE IF s[n] \in wanted THEN Append(kept[n - 1], s[n]) ELSE kept[n - 1]
  IN kept[Len(s)]

\* The global ValidationPipe: a body its DTO refuses never reaches the handler.
Validated(valid, step) == IF valid THEN step ELSE Throw(400)
=============================================================================
