------------------------------ MODULE ChatProxy ------------------------------
(***************************************************************************)
(* The AI chat: the chat view of the extension (chat/view.ts, send and     *)
(* streamChat) and the proxy that streams the model's answer and bills it  *)
(* (server/vibe/llm_proxy.py, budget.py, auth.get_session).                *)
(*                                                                         *)
(* A request goes through the proxy as: the session is read, the budget is *)
(* read, the answer is streamed, and once the stream is over the exchange  *)
(* is recorded by two statements, UPDATE sessions and INSERT               *)
(* chat_exchanges.  The stream tells what it cost only in its last chunk,  *)
(* so a stream that ends before it is not recorded at all.  The view waits *)
(* for one answer at a time, but it stops waiting after a silence of       *)
(* STREAM_TIMEOUT_MS, and a reload of the window forgets the conversation: *)
(* the proxy may then have several requests of one session in hand.        *)
(*                                                                         *)
(* Texts are counted in tokens: what the candidate sends, attached files   *)
(* and all, is one token, a chunk of the answer is one.  The provider of   *)
(* the models is external.                                                 *)
(***************************************************************************)
EXTENDS SumOfSeq, FiniteSetsExt

CONSTANTS
  MaxRequests,     \* bound: requests of the session
  MaxAnswer,       \* bound: chunks of one answer
  MaxReloads,      \* bound: reloads of the window
  ChatModels,      \* settings.candidate_chat_models
  Rates,           \* MODEL_PRICING: [ChatModels -> [input, cached_input, output]]
  LlmBudget,       \* sessions.llm_budget_usd
  BasePrompt,      \* tokens of BASE_INSTRUCTIONS and _REPO_PREFIX
  RepoPrompt,      \* tokens of the repository
  ClientPrompt,    \* tokens of the extension's own SYSTEM_PROMPT
  AiAssistance,    \* sessions.ai_assistance
  ApiMayDie        \* whether the API process may be killed

ASSUME ChatAssumption ==
  /\ {MaxRequests, MaxAnswer, MaxReloads, LlmBudget, BasePrompt, RepoPrompt, ClientPrompt} \subseteq Nat
  /\ Rates \in [ChatModels -> [input : Nat, cached_input : Nat, output : Nat]]
  /\ {AiAssistance, ApiMayDie} \subseteq BOOLEAN

VARIABLES
  open,       \* whether sessions.status is 'active'
  spent,      \* sessions.llm_spent_usd
  exchanges,  \* the table chat_exchanges, in order of ts
  gen,        \* where each request is in the proxy
  view        \* the chat view

chatVars == <<open, spent, exchanges, gen, view>>

Requests == 1..MaxRequests
Nobody == 0
ServerPrompt == BasePrompt + RepoPrompt
\* Where a request is: not sent; at get_session; at the budget; streaming; to
\* be recorded; its candidate tokens known; paid; through; answered, and dead
\* with the process before its row was inserted.
Prompts == {n \in Nat : n >= ServerPrompt}
RequestStates ==
       [stage : {"none", "over"}]
  \union [stage : {"sent", "authed"}, model : ChatModels, prompt : Prompts]
  \union [stage : {"streaming"}, model : ChatModels, prompt : Prompts,
        remaining : Nat, counted : Nat, out : Nat]
  \union [stage : {"closing"}, model : ChatModels, prompt : Prompts, cached : Nat, completion : Nat]
  \union [stage : {"differed", "paid"}, model : ChatModels, prompt : Prompts, cached : Nat,
        completion : Nat, candidate : Nat, unmeasured : BOOLEAN]
  \union [stage : {"lost"}, paid : Nat]
Idle == [stage |-> "none"]
Over == [stage |-> "over"]
At(r, stage) == gen[r].stage = stage
Step(r, stage) == gen' = [gen EXCEPT ![r].stage = stage]
End(r) == gen' = [gen EXCEPT ![r] = Over]

ViewInit(reloads) ==
  [messages |-> << >>, waiting |-> Nobody, ended |-> FALSE, exhausted |-> FALSE, reloads |-> reloads]

ChatInit ==
  /\ open = TRUE
  /\ spent = 0
  /\ exchanges = << >>
  /\ gen = [r \in Requests |-> Idle]
  /\ view = ViewInit(0)

NonNegative(n) == IF n > 0 THEN n ELSE 0

ComputeCost(m, prompt, cached, completion) ==
  NonNegative(prompt - cached) * Rates[m].input + cached * Rates[m].cached_input
    + completion * Rates[m].output

----------------------------------------------------------------------------
(* The view *)

Size(messages) == SumOf([i \in DOMAIN messages |-> messages[i].size])
Said(role, r, size) == [role |-> role, request |-> r, size |-> size]

\* send() gives up on the answer: the candidate's own message is taken back.
TakeBack == Front(view.messages)

(* The view learns of an error, unless it no longer waits for this request.  *)
Fail(r, flag) ==
  view' = IF view.waiting # r THEN view
          ELSE [view EXCEPT !.messages = TakeBack, !.waiting = Nobody,
                            !.ended = @ \/ flag = "ended", !.exhausted = @ \/ flag = "exhausted"]

(* The candidate sends a message: the conversation so far goes with it.      *)
Send ==
  \E r \in Requests, m \in ChatModels :
    /\ view.waiting = Nobody /\ ~view.ended /\ ~view.exhausted
    /\ At(r, "none") /\ \A q \in 1..(r - 1) : ~At(q, "none")
    /\ view' = [view EXCEPT !.messages = Append(@, Said("user", r, 1)), !.waiting = r]
    /\ gen' = [gen EXCEPT ![r] =
         [stage |-> "sent", model |-> m,
          prompt |-> ServerPrompt + ClientPrompt + Size(view.messages) + 1]]
    /\ UNCHANGED <<open, spent, exchanges>>

(* Another model is picked: the note that the budget is used up goes away.   *)
ChangeModel ==
  /\ view.exhausted
  /\ view' = [view EXCEPT !.exhausted = FALSE]
  /\ UNCHANGED <<open, spent, exchanges, gen>>

\* Mutant: no timeout on the request.
StreamNeverTimesOut == FALSE /\ UNCHANGED chatVars
(* Nothing arrived for STREAM_TIMEOUT_MS.                                    *)
StreamTimeout ==
  /\ view.waiting # Nobody
  /\ Fail(view.waiting, "none")
  /\ UNCHANGED <<open, spent, exchanges, gen>>

Reload ==
  /\ view.reloads < MaxReloads
  /\ view' = ViewInit(view.reloads + 1)
  /\ UNCHANGED <<open, spent, exchanges, gen>>

(* The interview is submitted: by the extension, whose view is then locked,  *)
(* or by the sweep, of which the view is not told.                           *)
EndInterview ==
  /\ open
  /\ open' = FALSE
  /\ \E told \in BOOLEAN : view' = [view EXCEPT !.ended = @ \/ told]
  /\ UNCHANGED <<spent, exchanges, gen>>

----------------------------------------------------------------------------
(* The proxy: admission and stream *)

(* get_session read the row before the handler runs; only an active          *)
(* interview with the assistant may chat.  A refusal locks the view.         *)
CheckStatus(r) ==
  /\ At(r, "sent")
  /\ IF open /\ AiAssistance
     THEN Step(r, "authed") /\ UNCHANGED view
     ELSE End(r) /\ Fail(r, "ended")
  /\ UNCHANGED <<open, spent, exchanges>>

(* What is left of the budget is read once, here.  A 402 is an error like    *)
(* any other to the view.                                                    *)
CheckBudget(r) ==
  /\ At(r, "authed")
  /\ IF spent >= LlmBudget
     THEN End(r) /\ Fail(r, "none")
     ELSE /\ gen' = [gen EXCEPT ![r] = [stage |-> "streaming", model |-> @.model,
                prompt |-> @.prompt, remaining |-> LlmBudget - spent, counted |-> 0, out |-> 0]]
          /\ UNCHANGED view
  /\ UNCHANGED <<open, spent, exchanges>>

(* A chunk of the answer is passed on and counted: four characters are a     *)
(* token, and a chunk of fewer counts for nothing.  When the count costs     *)
(* more than two thirds of what was left, the stream is cut.                 *)
StreamChunk(r) ==
  /\ At(r, "streaming") /\ gen[r].out < MaxAnswer
  /\ \E token \in 0..1 :
       LET counted == gen[r].counted + token IN
       IF 3 * counted * Rates[gen[r].model].output > 2 * gen[r].remaining
       THEN End(r) /\ Fail(r, "exhausted")
       ELSE gen' = [gen EXCEPT ![r].counted = counted, ![r].out = @ + 1] /\ UNCHANGED view
  /\ UNCHANGED <<open, spent, exchanges>>

(* The provider refuses or breaks off: told in-band, nothing is recorded.    *)
UpstreamError(r) ==
  /\ At(r, "streaming")
  /\ End(r) /\ Fail(r, "none")
  /\ UNCHANGED <<open, spent, exchanges>>

(* The proxy notices that nobody listens any more, and stops the stream.     *)
ClientGone(r) ==
  /\ At(r, "streaming") /\ view.waiting # r
  /\ End(r)
  /\ UNCHANGED <<open, spent, exchanges, view>>

(* The last chunk carries the usage, then [DONE]: the view keeps the answer. *)
StreamEnds(r) ==
  /\ At(r, "streaming")
  /\ \E cached \in {0, ServerPrompt} :
       gen' = [gen EXCEPT ![r] = [stage |-> "closing", model |-> @.model,
                                  prompt |-> @.prompt, cached |-> cached, completion |-> @.out]]
  /\ view' = IF view.waiting # r THEN view
             ELSE [view EXCEPT !.messages = Append(@, Said("assistant", r, gen[r].out)), !.waiting = Nobody]
  /\ UNCHANGED <<open, spent, exchanges>>

----------------------------------------------------------------------------
(* The proxy: recording *)

Bill(g) == ComputeCost(g.model, g.prompt, g.cached, g.completion)

(* What the prompt has beyond the latest row; less than nothing after a      *)
(* reload of the view, and without a row.                                    *)
Difference(prompt) ==
  IF exchanges = << >> THEN -1
  ELSE prompt - Last(exchanges).prompt - Last(exchanges).completion

(* What the server put in front, as far as it is known: each of its two      *)
(* parts is counted by a call of the model, and counts 0 if that fails.      *)
Probes == {base + repo : base \in {0, BasePrompt}, repo \in {0, RepoPrompt}}

(* _compute_candidate_prompt_tokens.                                         *)
CandidateTokens(prompt, probed) ==
  IF Difference(prompt) >= 0 THEN Difference(prompt) ELSE NonNegative(prompt - probed)

\* `unmeasured` is history: the count rests on a probe that failed.
ReadPrior(r) ==
  /\ At(r, "closing")
  /\ \E probed \in Probes :
       gen' = [gen EXCEPT ![r] = [stage |-> "differed", model |-> @.model,
         prompt |-> @.prompt, cached |-> @.cached, completion |-> @.completion,
         candidate |-> CandidateTokens(@.prompt, probed),
         unmeasured |-> Difference(@.prompt) < 0 /\ probed # ServerPrompt]]
  /\ UNCHANGED <<open, spent, exchanges, view>>

RowsCost == SumOf([i \in DOMAIN exchanges |-> exchanges[i].cost])

\* Mutant: the sum is written back from the value the admission saw.
PayFromAdmission(r) ==
  /\ At(r, "differed")
  /\ spent' = RowsCost + Bill(gen[r])
  /\ Step(r, "paid")
  /\ UNCHANGED <<open, exchanges, view>>
Pay(r) ==
  /\ At(r, "differed")
  /\ spent' = spent + Bill(gen[r])
  /\ Step(r, "paid")
  /\ UNCHANGED <<open, exchanges, view>>

Insert(r) ==
  /\ At(r, "paid")
  /\ exchanges' = Append(exchanges,
       [request |-> r, prompt |-> gen[r].prompt, completion |-> gen[r].completion,
        cost |-> Bill(gen[r]), candidate |-> gen[r].candidate,
        unmeasured |-> gen[r].unmeasured])
  /\ End(r)
  /\ UNCHANGED <<open, spent, view>>

Live == {r \in Requests : gen[r].stage \notin {"none", "over", "lost"}}
Answered(r) == gen[r].stage \in {"closing", "differed", "paid"}

\* What a request has paid for without a row to show for it.
Paid(r) ==
  CASE At(r, "paid") -> Bill(gen[r])
    [] At(r, "lost") -> gen[r].paid
    [] OTHER -> 0

(* The process dies with every request it has in hand; the view is told by   *)
(* the broken connection.  An exchange that was paid loses its row.          *)
ApiDies ==
  /\ ApiMayDie /\ Live # {}
  /\ gen' = [r \in Requests |->
       IF r \notin Live THEN gen[r]
       ELSE IF Answered(r) THEN [stage |-> "lost", paid |-> Paid(r)] ELSE Over]
  /\ IF view.waiting # Nobody THEN Fail(view.waiting, "none") ELSE UNCHANGED view
  /\ UNCHANGED <<open, spent, exchanges>>

----------------------------------------------------------------------------
Proxy(r) ==
  \/ CheckStatus(r) \/ CheckBudget(r) \/ StreamChunk(r) \/ UpstreamError(r) \/ ClientGone(r)
  \/ StreamEnds(r) \/ ReadPrior(r) \/ Pay(r) \/ Insert(r)

ChatNext ==
  \/ Send \/ ChangeModel \/ StreamTimeout \/ Reload \/ EndInterview \/ ApiDies
  \/ \E r \in Requests : Proxy(r)

ChatSpec == ChatInit /\ [][ChatNext]_chatVars

\* The timer of the request, and the statements after a stream, do run; the
\* provider owes nobody an answer.
ChatFairness ==
  /\ WF_chatVars(StreamTimeout)
  /\ \A r \in Requests : WF_chatVars(ReadPrior(r)) /\ WF_chatVars(Pay(r)) /\ WF_chatVars(Insert(r))

----------------------------------------------------------------------------
(* Properties *)

Message == [role : {"user", "assistant"}, request : Requests, size : Nat]
ViewStates ==
  [messages : Seq(Message), waiting : Requests \union {Nobody}, ended : BOOLEAN,
   exhausted : BOOLEAN, reloads : Nat]
Exchange == [request : Requests, prompt : Prompts, completion : Nat, cost : Nat, candidate : Nat,
             unmeasured : BOOLEAN]

ChatTypeOK ==
  /\ open \in BOOLEAN
  /\ spent \in Nat
  /\ exchanges \in Seq(Exchange)
  /\ gen \in [Requests -> RequestStates]
  /\ view \in ViewStates

(* What a row counts for the candidate is never more than the prompt without *)
(* what the server itself put in front of it, unless a probe failed that the *)
(* count rests on (llm_proxy.py:98-120, 377-414).                            *)
ServerPromptIsNotCharged ==
  \A i \in DOMAIN exchanges :
    exchanges[i].unmeasured \/ exchanges[i].candidate <= exchanges[i].prompt - ServerPrompt

Recorded == {exchanges[i].request : i \in DOMAIN exchanges}
\* An answer that was given is recorded, or about to be, or died with the process.
IsBilled(r) == r \in Recorded \/ Answered(r) \/ At(r, "lost")

(* What the session has spent is what its rows cost, whatever order the two  *)
(* statements of several exchanges run in: the rest is exactly the rows that *)
(* are still to be inserted and those that died before they were.  And every *)
(* answer the candidate was given is among them.                             *)
LedgerAgrees ==
  /\ spent = RowsCost + SumOf([r \in Requests |-> Paid(r)])
  /\ \A i \in DOMAIN view.messages :
       view.messages[i].role = "assistant" => IsBilled(view.messages[i].request)

(* No message leaves the composer locked for ever.                           *)
ComposerIsFreed == view.waiting # Nobody ~> view.waiting = Nobody
============================================================================
