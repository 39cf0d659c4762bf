----------------------------- MODULE ModelChat -----------------------------
(***************************************************************************)
(* Calls of a chat endpoint: chat_completion_with_retry_inner around       *)
(* chat_completion_inner (src/api.rs).  A call makes a few attempts under  *)
(* one deadline.  An attempt is a conversation: the host elides what the   *)
(* model has read, fits the request into the input budget, posts it, and   *)
(* either runs the tools the model asks for, or asks again in another way, *)
(* or returns the answer.  The calls of a process run concurrently and     *)
(* share the switch that turns prompt caching off.  A message is its role, *)
(* its size in tokens, and for tool calls and results which is which.      *)
(* Subprocess backends, which make one step of a call, are in AgentCli.    *)
(***************************************************************************)
EXTENDS Integers, SequencesExt

CONSTANTS
  Chats,
  Calls,           \* what calls there may be: functions from sets of Chats to Kind
  ContextLimits,   \* what a provider may say its context window is
  MaxAttempts,     \* STAGE_RETRY_MAX_ATTEMPTS
  MaxPosts,        \* CHAT_COMPLETION_MAX_ATTEMPTS
  MaxShrinks,      \* CONTEXT_BUDGET_RETRY_MAX
  MaxRounds,       \* max_tool_iterations
  MaxToolCalls,    \* bound: tool calls in one answer
  MaxMessages,     \* bound: length at which a disobedient model repeats itself
  ResultSizes,     \* sizes a tool result may have
  SystemSize, UserSize, ReminderSize, StubSize,
  SafetyReserve,   \* INPUT_TOKEN_SAFETY_RESERVE
  Unlimited        \* max_input_tokens is None

(* What the caller asks for, and whether the model obeys tool_choice none. *)
Kind == [tools: BOOLEAN, verified: BOOLEAN, deadline: BOOLEAN,
         structured: BOOLEAN, caching: BOOLEAN, obedient: BOOLEAN,
         budget: Nat \cup {Unlimited}]

ASSUME ChatAssumption ==
  /\ \A calls \in Calls :
       DOMAIN calls \subseteq Chats /\ \A c \in DOMAIN calls : calls[c] \in Kind
  /\ ContextLimits \subseteq Nat
  /\ {MaxAttempts, MaxPosts, MaxToolCalls} \subseteq Nat \ {0}
  /\ {MaxShrinks, MaxRounds, MaxMessages} \subseteq Nat
  /\ ResultSizes \cup {SystemSize, UserSize, ReminderSize, StubSize, SafetyReserve}
       \subseteq Nat
  /\ Unlimited \notin Nat

VARIABLES
  kind,           \* the calls of the process, which never change
  call,           \* locals of chat_completion_with_retry_inner, and its deadline
  chat,           \* locals of chat_completion_inner
  messages,       \* its conversation
  cacheDisabled,  \* PROMPT_CACHE_DISABLED_AT_RUNTIME
  noticed,        \* notices printed about it
  rejected        \* history: refusals of cache markers each call has had

shared == <<cacheDisabled, noticed, rejected>>
vars == <<kind, call, chat, messages, shared>>

Text(role, size) == [role |-> role, size |-> size, calls |-> 0, id |-> 0, elided |-> FALSE]
Asking(n) == [Text("assistant", 1) EXCEPT !.calls = n]
Reply(id, size) == [Text("tool", size) EXCEPT !.id = id]

UserOf(c) == Text("user", UserSize + (IF call[c].augmented THEN ReminderSize ELSE 0))
Opening(c) == <<Text("system", SystemSize), UserOf(c)>>

NoChat == [cache |-> FALSE, stream |-> TRUE, budget |-> Unlimited, shrinks |-> 0,
           rounds |-> 0, disabled |-> FALSE, proven |-> FALSE, reminded |-> FALSE,
           posts |-> 0, pending |-> 0]

Init ==
  /\ kind \in Calls
  /\ call = [c \in DOMAIN kind |-> [pc |-> "start", attempt |-> 1, augmented |-> FALSE,
                              expired |-> FALSE, outcome |-> "none"]]
  /\ chat = [c \in DOMAIN kind |-> NoChat]
  /\ messages = [c \in DOMAIN kind |-> <<>>]
  /\ cacheDisabled = FALSE
  /\ noticed = 0
  /\ rejected = [c \in DOMAIN kind |-> 0]

-----------------------------------------------------------------------------
(* Eliding and fitting a request. *)

SizeOf(msgs, S) == MapThenSumSet(LAMBDA i : msgs[i].size, S)
Total(msgs) == SizeOf(msgs, DOMAIN msgs)

LastAssistant(msgs) == Max({0} \cup {i \in DOMAIN msgs : msgs[i].role = "assistant"})

\* Mutation: the newest results are elided too.
ElideAll(msgs) ==
  [i \in DOMAIN msgs |->
     IF msgs[i].role = "tool" THEN [msgs[i] EXCEPT !.size = StubSize, !.elided = TRUE]
     ELSE msgs[i]]

Elide(msgs) ==
  LET last == LastAssistant(msgs)
  IN  [i \in DOMAIN msgs |->
         IF msgs[i].role = "tool" /\ i < last
         THEN [msgs[i] EXCEPT !.size = StubSize, !.elided = TRUE]
         ELSE msgs[i]]

Target(budget) ==
  IF budget > SafetyReserve + 1 THEN budget - SafetyReserve ELSE Max({1, (budget * 9) \div 10})

LowerBudget(budget, limit) ==
  LET base == IF budget = Unlimited THEN limit ELSE Min({budget, limit})
  IN  Max({1, (Max({1, base}) * 85) \div 100})

(* What of a request may be cut, and what is cut before message i: the user  *)
(* message, then tool results from the newest to the oldest, then the        *)
(* system message; nothing but tool results where the input is structured.   *)
Cuttable(structured, msgs) ==
  {i \in DOMAIN msgs : msgs[i].role = "tool"} \cup (IF structured THEN {} ELSE {1, 2})

CutEarlier(j, i) == IF i = 2 THEN FALSE ELSE IF i = 1 THEN j # 1 ELSE j = 2 \/ j > i

(* From each as much as the request is still too large by, in that order.    *)
Trim(structured, msgs, target) ==
  LET cuttable == Cuttable(structured, msgs)
      excess == Total(msgs) - target
      Excess(i) == excess - SizeOf(msgs, {j \in cuttable : CutEarlier(j, i)})
  IN  [i \in DOMAIN msgs |->
         IF i \in cuttable THEN [msgs[i] EXCEPT !.size = @ - Min({@, Max({0, Excess(i)})})]
         ELSE msgs[i]]

Fits(c, msgs) == chat[c].budget = Unlimited \/ Total(msgs) <= Target(chat[c].budget)

Fit(c, msgs) ==
  IF Fits(c, msgs) THEN msgs
  ELSE Trim(kind[c].structured, msgs, Target(chat[c].budget))

-----------------------------------------------------------------------------
(* How an attempt goes on, and how it ends. *)

Continue(c, where, msgs, locals) ==
  /\ call' = [call EXCEPT ![c].pc = where]
  /\ messages' = [messages EXCEPT ![c] = msgs]
  /\ chat' = [chat EXCEPT ![c] = locals]

EndAttempt(c, rec) ==
  /\ call' = [call EXCEPT ![c] = rec]
  /\ messages' = [messages EXCEPT ![c] = <<>>]
  /\ chat' = [chat EXCEPT ![c] = NoChat]

Retry(c, outcome, augmented) ==
  IF call[c].attempt < MaxAttempts
  THEN EndAttempt(c, [call[c] EXCEPT !.pc = "start", !.attempt = @ + 1,
                                     !.augmented = augmented])
  ELSE EndAttempt(c, [call[c] EXCEPT !.pc = "done", !.outcome = outcome])

Finish(c, outcome) == EndAttempt(c, [call[c] EXCEPT !.pc = "done", !.outcome = outcome])

Fail(c) == Retry(c, "error", call[c].augmented)

\* Mutation: only the wait itself is bounded.
AwaitUnchecked(c, where, msgs, locals) == Continue(c, where, msgs, locals)

(* await_with_stage_deadline asks what remains before it waits. *)
Await(c, where, msgs, locals) ==
  IF call[c].expired THEN Finish(c, "timeout") ELSE Continue(c, where, msgs, locals)

StartChat(c) ==
  /\ call[c].pc = "start"
  /\ Continue(c, "prepare", Opening(c),
              [NoChat EXCEPT !.cache = kind[c].caching /\ ~cacheDisabled,
                             !.budget = kind[c].budget])
  /\ UNCHANGED <<kind, shared>>

SendRequest(c) ==
  /\ call[c].pc = "prepare"
  /\ \E request \in {Fit(c, elided) : elided \in {Elide(messages[c])}} :
         IF Fits(c, request) THEN Await(c, "post", request, [chat[c] EXCEPT !.posts = 1])
         ELSE Fail(c)
  /\ UNCHANGED <<kind, shared>>

TimeOut(c) ==
  /\ call[c].pc \in {"post", "read", "tool"}
  /\ call[c].expired
  /\ Finish(c, "timeout")
  /\ UNCHANGED <<kind, shared>>

Expire(c) ==
  /\ kind[c].deadline
  /\ call[c].pc # "done"
  /\ ~call[c].expired
  /\ call' = [call EXCEPT ![c].expired = TRUE]
  /\ UNCHANGED <<kind, chat, messages, shared>>

-----------------------------------------------------------------------------
(* What comes back for a request. *)

Accept(c) ==
  /\ call[c].pc = "post"
  /\ Await(c, "read", messages[c], chat[c])
  /\ UNCHANGED <<kind, shared>>

(* A transient failure is retried inside post_json_with_retries; another one *)
(* or the last ends the attempt.                                            *)
TransportError(c) ==
  /\ call[c].pc = "post"
  /\ \/ /\ chat[c].posts < MaxPosts
        /\ Continue(c, "post", messages[c], [chat[c] EXCEPT !.posts = @ + 1])
     \/ Fail(c)
  /\ UNCHANGED <<kind, shared>>

(* The body of a refusal is read in a second await. *)
Refused(c) == call[c].pc = "post" /\ ~call[c].expired

\* Mutation: the request is posted again as it was before it was fitted.
RefuseMarkersResend(c) ==
  /\ Refused(c)
  /\ chat[c].cache
  /\ Continue(c, "post", Opening(c) \o SubSeq(messages[c], 3, Len(messages[c])),
              [chat[c] EXCEPT !.cache = FALSE])
  /\ cacheDisabled' = TRUE
  /\ noticed' = IF cacheDisabled THEN noticed ELSE noticed + 1
  /\ rejected' = [rejected EXCEPT ![c] = @ + 1]
  /\ UNCHANGED kind

\* Mutation: the other attempts are not told.
RefuseMarkersAlone(c) ==
  /\ Refused(c)
  /\ chat[c].cache
  /\ Continue(c, "prepare", Opening(c) \o SubSeq(messages[c], 3, Len(messages[c])),
              [chat[c] EXCEPT !.cache = FALSE])
  /\ noticed' = noticed + 1
  /\ rejected' = [rejected EXCEPT ![c] = @ + 1]
  /\ UNCHANGED <<kind, cacheDisabled>>

RefuseMarkers(c) ==
  /\ Refused(c)
  /\ chat[c].cache
  /\ Continue(c, "prepare", Opening(c) \o SubSeq(messages[c], 3, Len(messages[c])),
              [chat[c] EXCEPT !.cache = FALSE])
  /\ cacheDisabled' = TRUE
  /\ noticed' = IF cacheDisabled THEN noticed ELSE noticed + 1
  /\ rejected' = [rejected EXCEPT ![c] = @ + 1]
  /\ UNCHANGED kind

RefuseStreamOptions(c) ==
  /\ Refused(c)
  /\ chat[c].stream
  /\ Continue(c, "prepare", messages[c], [chat[c] EXCEPT !.stream = FALSE])
  /\ UNCHANGED <<kind, shared>>

RefuseLength(c) ==
  /\ Refused(c)
  /\ chat[c].shrinks < MaxShrinks
  /\ \E limit \in ContextLimits :
       Continue(c, "prepare", messages[c],
                [chat[c] EXCEPT !.shrinks = @ + 1, !.budget = LowerBudget(@, limit)])
  /\ UNCHANGED <<kind, shared>>

ApiError(c) ==
  /\ Refused(c)
  /\ Fail(c)
  /\ UNCHANGED <<kind, shared>>

-----------------------------------------------------------------------------
(* What the answer asks for.  An answer whose stream breaks, or whose tool  *)
(* calls have no id, ends the attempt.                                      *)

BrokenAnswer(c) ==
  /\ \/ call[c].pc = "read"
     \/ call[c].pc = "tool" /\ chat[c].pending > 1
  /\ Fail(c)
  /\ UNCHANGED <<kind, shared>>

RunTools(c) ==
  /\ call[c].pc = "read"
  /\ kind[c].tools
  /\ ~chat[c].disabled
  /\ chat[c].rounds < MaxRounds
  /\ \E n \in 1..MaxToolCalls :
       Await(c, "tool", Append(messages[c], Asking(n)),
             [chat[c] EXCEPT !.rounds = @ + 1, !.pending = n])
  /\ UNCHANGED <<kind, shared>>

\* Mutation: the host does not answer the calls it refuses.
RefuseToolsSilently(c) ==
  /\ call[c].pc = "read"
  /\ kind[c].tools
  /\ chat[c].rounds >= MaxRounds
  /\ chat[c].disabled => ~kind[c].obedient
  /\ \E n \in 1..MaxToolCalls :
       LET asked == Append(messages[c], Asking(n))
       IN  Continue(c, "prepare",
                    IF Len(asked) <= MaxMessages THEN asked ELSE messages[c],
                    [chat[c] EXCEPT !.disabled = TRUE])
  /\ UNCHANGED <<kind, shared>>

(* Past the cap every call is answered by the host, and no tool runs.  The  *)
(* first time, tool_choice becomes none; a model may go on asking.          *)
RefuseTools(c) ==
  /\ call[c].pc = "read"
  /\ kind[c].tools
  /\ chat[c].rounds >= MaxRounds
  /\ chat[c].disabled => ~kind[c].obedient
  /\ \E n \in 1..MaxToolCalls :
       LET asked == Append(messages[c], Asking(n)) \o [id \in 1..n |-> Reply(id, StubSize)]
       IN  Continue(c, "prepare",
                    IF Len(asked) <= MaxMessages THEN asked ELSE messages[c],
                    [chat[c] EXCEPT !.disabled = TRUE])
  /\ UNCHANGED <<kind, shared>>

EndTool(c) ==
  /\ call[c].pc = "tool"
  /\ LET asked == messages[c][LastAssistant(messages[c])].calls
         id == asked + 1 - chat[c].pending
     IN  \E size \in ResultSizes, ok \in BOOLEAN :
           LET told == Append(messages[c], Reply(id, size))
               locals == [chat[c] EXCEPT !.pending = @ - 1, !.proven = @ \/ ok]
           IN  IF locals.pending > 0 THEN Await(c, "tool", told, locals)
               ELSE Continue(c, "prepare", told, locals)
  /\ UNCHANGED <<kind, shared>>

(* An answer in words: fine, in need of verification, or not in the schema. *)
AnswerFine(c) ==
  /\ call[c].pc = "read"
  /\ Finish(c, "answer")
  /\ UNCHANGED <<kind, shared>>

AnswerSensitive(c) ==
  /\ call[c].pc = "read"
  /\ kind[c].tools /\ kind[c].verified
  /\ IF chat[c].proven THEN Finish(c, "verified")
     ELSE IF chat[c].reminded THEN Finish(c, "unverified")
     ELSE Continue(c, "prepare",
                   messages[c] \o <<Text("assistant", 1), Text("user", ReminderSize)>>,
                   [chat[c] EXCEPT !.reminded = TRUE])
  /\ UNCHANGED <<kind, shared>>

AnswerMalformed(c) ==
  /\ call[c].pc = "read"
  /\ Retry(c, "malformed", TRUE)
  /\ UNCHANGED <<kind, shared>>

-----------------------------------------------------------------------------
Host(c) == StartChat(c) \/ SendRequest(c) \/ TimeOut(c)

World(c) ==
  \/ Accept(c) \/ TransportError(c)
  \/ RefuseMarkers(c) \/ RefuseStreamOptions(c) \/ RefuseLength(c) \/ ApiError(c)
  \/ BrokenAnswer(c) \/ RunTools(c) \/ RefuseTools(c) \/ EndTool(c)
  \/ AnswerFine(c) \/ AnswerSensitive(c) \/ AnswerMalformed(c)

Next == \E c \in DOMAIN kind : Host(c) \/ World(c) \/ Expire(c)

(* The clock goes on.  Where a call has no deadline, the client's own        *)
(* timeout ends each request, so that something comes back; where it has    *)
(* one, provider and tools may stay silent.                                 *)
Fairness ==
  \A c \in Chats :
    /\ WF_vars(c \in DOMAIN kind /\ Host(c))
    /\ WF_vars(c \in DOMAIN kind /\ Expire(c))
    /\ WF_vars(c \in DOMAIN kind /\ ~kind[c].deadline /\ World(c))

Spec == Init /\ [][Next]_vars /\ Fairness

-----------------------------------------------------------------------------
(* Properties *)

TypeOK ==
  /\ kind \in Calls
  /\ \A c \in DOMAIN kind :
       /\ call[c].pc \in {"start", "prepare", "post", "read", "tool", "done"}
       /\ call[c].attempt \in 1..MaxAttempts
       /\ call[c].outcome \in {"none", "answer", "verified", "unverified", "malformed",
                               "error", "timeout"}
       /\ call[c].pc = "done" <=> call[c].outcome # "none"
       /\ call[c].expired => kind[c].deadline
       /\ chat[c].posts \in 0..MaxPosts
       /\ chat[c].shrinks \in 0..MaxShrinks
       /\ chat[c].pending \in 0..MaxToolCalls
       /\ chat[c].budget \in Nat \cup {Unlimited}
       /\ call[c].pc \in {"start", "done"} <=> messages[c] = <<>>
       /\ \A i \in DOMAIN messages[c] : messages[c][i].size \in Nat

InFlight(c) == call[c].pc \in {"post", "read"}

(* Providers refuse a conversation in which a tool call has no result: in     *)
(* every request each call of each answer is followed by its result, in the  *)
(* order of the calls, whether tools ran, failed or were refused, and after  *)
(* every fall-back that sends the request again.                             *)
ToolCallsAnswered ==
  \A c \in DOMAIN kind : InFlight(c) =>
    LET msgs == messages[c]
        Asked(i) == \E j \in 1..(i - 1) : msgs[i].id = i - j /\ msgs[j].calls >= msgs[i].id
    IN  \A i \in DOMAIN msgs :
          /\ \A id \in 1..msgs[i].calls :
               i + id \in DOMAIN msgs /\ msgs[i + id].role = "tool" /\ msgs[i + id].id = id
          /\ msgs[i].role = "tool" => Asked(i)

(* "The most recent tool-result batch is left intact" by the elision: no       *)
(* result that the model has not read is replaced by a stub, also when the    *)
(* request is sent again, and all that it has read are.  It is not said that  *)
(* an unread result is sent in full: Trim may cut it, even to nothing.       *)
FreshResultsSent ==
  \A c \in DOMAIN kind : InFlight(c) =>
    \A i \in DOMAIN messages[c] : messages[c][i].role = "tool" =>
      messages[c][i].elided = (i < LastAssistant(messages[c]))

(* No request exceeds the budget, which a provider may lower while the        *)
(* conversation grows, and to make it fit the JSON of a structured request   *)
(* is never cut.                                                             *)
RequestFits ==
  \A c \in DOMAIN kind : InFlight(c) =>
    /\ chat[c].budget # Unlimited => Total(messages[c]) <= Target(chat[c].budget)
    /\ kind[c].structured => messages[c][2] = UserOf(c)

(* Discovering that a provider refuses cache markers costs a call one request *)
(* at most, over all its attempts, whatever the other calls discover at the  *)
(* same time; and the user is told once.                                     *)
ProbedOnce ==
  /\ \A c \in DOMAIN kind : rejected[c] <= 1
  /\ noticed = IF \E c \in DOMAIN kind : rejected[c] > 0 THEN 1 ELSE 0

(* Retries within retries end: by the deadline, which all attempts share, or *)
(* by their own counts where a call has none.                                *)
ChatEnds == \A c \in Chats : <>(c \in DOMAIN kind => call[c].pc = "done")
=============================================================================
