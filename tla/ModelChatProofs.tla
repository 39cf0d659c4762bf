-------------------------- MODULE ModelChatProofs --------------------------
(* Theorems about calls of a chat endpoint, for any number of calls at a    *)
(* time, of any kinds, and all sizes, budgets and limits.                   *)
EXTENDS ModelChat, SequenceTheorems, WellFoundedInduction, TLAPS

CallFields == {"pc", "attempt", "augmented", "expired", "outcome"}

ChatFields == {"cache", "stream", "budget", "shrinks", "rounds", "disabled", "proven",
               "reminded", "posts", "pending"}

Shape ==
  /\ DOMAIN call = DOMAIN kind
  /\ DOMAIN chat = DOMAIN kind
  /\ DOMAIN messages = DOMAIN kind
  /\ DOMAIN rejected = DOMAIN kind
  /\ \A c \in DOMAIN kind : DOMAIN call[c] = CallFields /\ DOMAIN chat[c] = ChatFields

\* A call that was refused has told the process, and sends no markers again.
ProbeInv ==
  /\ \A c \in DOMAIN kind : rejected[c] \in {0, 1}
  /\ \A c \in DOMAIN kind : rejected[c] = 1 => cacheDisabled /\ ~chat[c].cache
  /\ cacheDisabled => \E c \in DOMAIN kind : rejected[c] = 1
  /\ noticed = IF cacheDisabled THEN 1 ELSE 0

FitsInv == \A c \in DOMAIN kind : InFlight(c) => Fits(c, messages[c])

\* A conversation whose second message is u.
Opens(msgs, u) ==
  \E S : msgs \in Seq(S) /\ Len(msgs) >= 2 /\ msgs[2] = u

\* In a structured call that message is whole all along, not only when sent.
WholeInv ==
  \A c \in DOMAIN kind :
    kind[c].structured /\ call[c].pc \notin {"start", "done"} => Opens(messages[c], UserOf(c))

RequestInv == Shape /\ FitsInv /\ WholeInv

-----------------------------------------------------------------------------
(* Conversations keep their second message when they grow or are cut. *)

\* A conversation that grows keeps its second message,
LEMMA OpensConcat ==
  ASSUME NEW m, NEW u, Opens(m, u), NEW T, NEW t \in Seq(T)
  PROVE  Opens(m \o t, u)
<1>1. PICK S : m \in Seq(S) /\ Len(m) >= 2 /\ m[2] = u
  BY DEF Opens
<1>2. m \in Seq(S \cup T) /\ t \in Seq(S \cup T)
  BY <1>1
<1>3. m \o t \in Seq(S \cup T) /\ Len(m \o t) >= 2 /\ (m \o t)[2] = u
  BY <1>1, <1>2
<1> QED
  BY <1>3 DEF Opens

\* by one message,
LEMMA OpensAppend ==
  ASSUME NEW m, NEW u, Opens(m, u), NEW e
  PROVE  Opens(Append(m, e), u)
<1>1. PICK S : m \in Seq(S) /\ Len(m) >= 2 /\ m[2] = u
  BY DEF Opens
<1>2. m \in Seq(S \cup {e})
  BY <1>1
<1>3. Append(m, e) \in Seq(S \cup {e}) /\ Len(Append(m, e)) >= 2 /\ Append(m, e)[2] = u
  BY <1>1, <1>2
<1> QED
  BY <1>3 DEF Opens

\* and begins with it;
LEMMA OpensOpening ==
  ASSUME NEW c
  PROVE  Opens(Opening(c), UserOf(c))
<1> DEFINE S == {Text("system", SystemSize), UserOf(c)}
<1>1. Opening(c) \in Seq(S) /\ Len(Opening(c)) = 2 /\ Opening(c)[2] = UserOf(c)
  BY DEF Opening
<1> QED
  BY <1>1 DEF Opens

\* results of tools that become stubs are not that message,
LEMMA OpensElide ==
  ASSUME NEW m, NEW u, Opens(m, u), u.role = "user"
  PROVE  Opens(Elide(m), u)
<1>1. PICK S : m \in Seq(S) /\ Len(m) >= 2 /\ m[2] = u
  BY DEF Opens
<1> DEFINE r == Elide(m)
           R == {r[i] : i \in DOMAIN m}
<1>2. Len(m) \in Nat /\ DOMAIN m = 1..Len(m)
  BY <1>1
<1>3. r \in [1..Len(m) -> R] /\ r[2] = u
  <2>1. r[2] = u
    BY <1>1, <1>2 DEF Elide
  <2>2. DOMAIN r = DOMAIN m /\ r = [i \in DOMAIN m |-> r[i]]
    BY DEF Elide
  <2>3. \A i \in DOMAIN m : r[i] \in R
    OBVIOUS
  <2> HIDE DEF r, R
  <2> QED
    BY <2>1, <2>2, <2>3, <1>2
<1>4. r \in Seq(R) /\ Len(r) = Len(m)
  <2> HIDE DEF r, R
  <2> QED
    BY <1>2, <1>3
<1> QED
  BY <1>1, <1>3, <1>4 DEF Opens

\* and trimming a structured call leaves it whole.
LEMMA OpensTrim ==
  ASSUME NEW m, NEW u, Opens(m, u), u.role = "user", NEW target
  PROVE  Opens(Trim(TRUE, m, target), u)
<1>1. PICK S : m \in Seq(S) /\ Len(m) >= 2 /\ m[2] = u
  BY DEF Opens
<1> DEFINE r == Trim(TRUE, m, target)
           R == {r[i] : i \in DOMAIN m}
<1>2. Len(m) \in Nat /\ DOMAIN m = 1..Len(m)
  BY <1>1
<1>3. r \in [1..Len(m) -> R] /\ r[2] = u
  <2>1. 2 \notin Cuttable(TRUE, m)
    BY <1>1 DEF Cuttable
  <2>2. r[2] = u
    BY <1>1, <1>2, <2>1 DEF Trim
  <2>3. DOMAIN r = DOMAIN m /\ r = [i \in DOMAIN m |-> r[i]]
    BY DEF Trim
  <2>4. \A i \in DOMAIN m : r[i] \in R
    OBVIOUS
  <2> HIDE DEF r, R
  <2> QED
    BY <2>2, <2>3, <2>4, <1>2
<1>4. r \in Seq(R) /\ Len(r) = Len(m)
  <2> HIDE DEF r, R
  <2> QED
    BY <1>2, <1>3
<1> QED
  BY <1>1, <1>3, <1>4 DEF Opens

-----------------------------------------------------------------------------
(* How an attempt goes on, and how it ends. *)

\* A call that goes on keeps the invariant if it posts what fits.
LEMMA ContinueStep ==
  ASSUME RequestInv, NEW c \in DOMAIN kind, NEW where, NEW msgs, NEW locals,
         Continue(c, where, msgs, locals), UNCHANGED kind, DOMAIN rejected' = DOMAIN kind,
         DOMAIN locals = ChatFields,
         where \in {"post", "read"} /\ locals.budget # Unlimited =>
           Total(msgs) <= Target(locals.budget),
         kind[c].structured => Opens(msgs, UserOf(c))
  PROVE  RequestInv'
<1> USE DEF RequestInv, Continue
<1>1. Shape'
  BY DEF Shape, CallFields
<1>2. \A d \in DOMAIN kind : d # c =>
        call'[d] = call[d] /\ chat'[d] = chat[d] /\ messages'[d] = messages[d]
  BY DEF Shape
<1>3. /\ call'[c].pc = where /\ call'[c].augmented = call[c].augmented
      /\ chat'[c] = locals /\ messages'[c] = msgs
  BY DEF Shape, CallFields
<1>4. FitsInv'
  <2> SUFFICES ASSUME NEW d \in DOMAIN kind, InFlight(d)'
               PROVE  Fits(d, messages[d])'
    BY DEF FitsInv
  <2>1. CASE d = c
    BY <2>1, <1>3 DEF InFlight, Fits
  <2>2. CASE d # c
    BY <2>2, <1>2 DEF InFlight, Fits, FitsInv
  <2> QED
    BY <2>1, <2>2
<1>5. WholeInv'
  <2> SUFFICES ASSUME NEW d \in DOMAIN kind, kind[d].structured,
                      call'[d].pc \notin {"start", "done"}
               PROVE  Opens(messages'[d], UserOf(d)')
    BY DEF WholeInv
  <2>1. CASE d = c
    BY <2>1, <1>3 DEF UserOf
  <2>2. CASE d # c
    BY <2>2, <1>2 DEF UserOf, WholeInv
  <2> QED
    BY <2>1, <2>2
<1> QED
  BY <1>1, <1>4, <1>5

\* An attempt that ends leaves a call without a request or markers.
LEMMA EndStep ==
  ASSUME RequestInv, NEW c \in DOMAIN kind, NEW rec,
         EndAttempt(c, rec), UNCHANGED kind, DOMAIN rejected' = DOMAIN kind,
         DOMAIN rec = CallFields, rec.pc \in {"start", "done"}
  PROVE  RequestInv' /\ ~chat'[c].cache
<1> USE DEF RequestInv, EndAttempt
<1>1. Shape'
  BY DEF Shape, NoChat, ChatFields
<1>2. \A d \in DOMAIN kind : d # c =>
        call'[d] = call[d] /\ chat'[d] = chat[d] /\ messages'[d] = messages[d]
  BY DEF Shape
<1>3. call'[c].pc \in {"start", "done"}
  BY DEF Shape
<1>4. FitsInv'
  BY <1>2, <1>3 DEF FitsInv, InFlight, Fits
<1>5. WholeInv'
  BY <1>2, <1>3 DEF WholeInv, UserOf
<1>6. ~chat'[c].cache
  BY DEF Shape, NoChat
<1> QED
  BY <1>1, <1>4, <1>5, <1>6

\* The other calls keep their markers switched as they are.
Quiet(c) == \A d \in DOMAIN kind \ {c} : chat'[d] = chat[d]

\* A step of one call leaves the markers of the others.
LEMMA OthersQuiet ==
  ASSUME Shape, NEW c \in DOMAIN kind,
         \/ \E where, msgs, locals : Continue(c, where, msgs, locals)
         \/ \E rec : EndAttempt(c, rec)
  PROVE  Quiet(c)
<1> QED
  BY DEF Shape, Quiet, Continue, EndAttempt

\* A call that ends sends no markers,
LEMMA FinishStep ==
  ASSUME RequestInv, NEW c \in DOMAIN kind, NEW outcome, Finish(c, outcome),
         UNCHANGED kind, DOMAIN rejected' = DOMAIN kind
  PROVE  RequestInv' /\ ~chat'[c].cache /\ Quiet(c)
<1> DEFINE rec == [call[c] EXCEPT !.pc = "done", !.outcome = outcome]
<1>1. EndAttempt(c, rec)
  BY DEF Finish
<1>2. DOMAIN rec = CallFields /\ rec.pc = "done"
  BY DEF RequestInv, Shape, CallFields
<1>3. Quiet(c)
  BY <1>1, OthersQuiet DEF RequestInv
<1> QED
  BY <1>1, <1>2, <1>3, EndStep

\* nor does one that begins anew, until it has asked whether it may.
LEMMA RetryStep ==
  ASSUME RequestInv, NEW c \in DOMAIN kind, NEW outcome, NEW augmented,
         Retry(c, outcome, augmented), UNCHANGED kind, DOMAIN rejected' = DOMAIN kind
  PROVE  RequestInv' /\ ~chat'[c].cache /\ Quiet(c)
<1> DEFINE again == [call[c] EXCEPT !.pc = "start", !.attempt = @ + 1,
                                    !.augmented = augmented]
           last == [call[c] EXCEPT !.pc = "done", !.outcome = outcome]
<1>1. EndAttempt(c, again) \/ EndAttempt(c, last)
  BY DEF Retry
<1>2. /\ DOMAIN again = CallFields /\ again.pc = "start"
      /\ DOMAIN last = CallFields /\ last.pc = "done"
  BY DEF RequestInv, Shape, CallFields
<1>3. Quiet(c)
  BY <1>1, OthersQuiet DEF RequestInv
<1> HIDE DEF again, last
<1>4. RequestInv' /\ ~chat'[c].cache
  BY <1>1, <1>2, EndStep
<1> QED
  BY <1>3, <1>4

\* ContinueStep, with what it leaves of the markers.
LEMMA GoOnStep ==
  ASSUME RequestInv, NEW c \in DOMAIN kind, NEW where, NEW msgs, NEW locals,
         Continue(c, where, msgs, locals), UNCHANGED kind, DOMAIN rejected' = DOMAIN kind,
         DOMAIN locals = ChatFields,
         where \in {"post", "read"} /\ locals.budget # Unlimited =>
           Total(msgs) <= Target(locals.budget),
         kind[c].structured => Opens(msgs, UserOf(c))
  PROVE  RequestInv' /\ chat'[c] = locals /\ Quiet(c)
<1>1. chat'[c] = locals
  BY DEF Continue, RequestInv, Shape
<1>2. Quiet(c)
  BY OthersQuiet DEF RequestInv
<1> QED
  BY <1>1, <1>2, ContinueStep

\* So does an await, which the deadline may refuse.
LEMMA AwaitStep ==
  ASSUME RequestInv, NEW c \in DOMAIN kind, NEW where, NEW msgs, NEW locals,
         Await(c, where, msgs, locals), UNCHANGED kind, DOMAIN rejected' = DOMAIN kind,
         DOMAIN locals = ChatFields,
         where \in {"post", "read"} /\ locals.budget # Unlimited =>
           Total(msgs) <= Target(locals.budget),
         kind[c].structured => Opens(msgs, UserOf(c))
  PROVE  RequestInv' /\ (chat'[c].cache => locals.cache) /\ Quiet(c)
<1>1. CASE call[c].expired
  BY <1>1, FinishStep DEF Await
<1>2. CASE ~call[c].expired
  BY <1>2, GoOnStep DEF Await
<1> QED
  BY <1>1, <1>2

\* What holds of a conversation that is under way.
LEMMA UnderWay ==
  ASSUME RequestInv, NEW c \in DOMAIN kind, call[c].pc \in {"prepare", "post", "read", "tool"}
  PROVE  /\ DOMAIN chat[c] = ChatFields
         /\ kind[c].structured => Opens(messages[c], UserOf(c))
         /\ InFlight(c) /\ chat[c].budget # Unlimited =>
              Total(messages[c]) <= Target(chat[c].budget)
         /\ UserOf(c).role = "user"
<1> QED
  BY DEF RequestInv, Shape, WholeInv, FitsInv, Fits, UserOf, Text

-----------------------------------------------------------------------------
(* The actions.  Each keeps RequestInv and switches no markers on, but for  *)
(* the start of a conversation.                                             *)

NoNewMarkers(c) == Quiet(c) /\ (chat'[c].cache => chat[c].cache)

\* Markers are used only while the process allows them.
LEMMA StartChatStep ==
  ASSUME RequestInv, NEW c \in DOMAIN kind, StartChat(c)
  PROVE  RequestInv' /\ Quiet(c) /\ (chat'[c].cache => ~cacheDisabled)
<1> DEFINE locals == [NoChat EXCEPT !.cache = kind[c].caching /\ ~cacheDisabled,
                                    !.budget = kind[c].budget]
<1>1. Continue(c, "prepare", Opening(c), locals) /\ UNCHANGED <<kind, rejected>>
  BY DEF StartChat, shared
<1>2. DOMAIN locals = ChatFields /\ (locals.cache => ~cacheDisabled)
  BY DEF NoChat, ChatFields
<1>3. Opens(Opening(c), UserOf(c))
  BY OpensOpening
<1> HIDE DEF locals
<1>4. DOMAIN rejected' = DOMAIN kind
  BY <1>1 DEF RequestInv, Shape
<1> QED
  BY <1>1, <1>2, <1>3, <1>4, GoOnStep

\* The request is sent if it fits.
LEMMA SendRequestStep ==
  ASSUME RequestInv, NEW c \in DOMAIN kind, SendRequest(c)
  PROVE  RequestInv' /\ NoNewMarkers(c)
<1> DEFINE request == Fit(c, Elide(messages[c]))
           locals == [chat[c] EXCEPT !.posts = 1]
<1>1. /\ call[c].pc = "prepare"
      /\ IF Fits(c, request) THEN Await(c, "post", request, locals) ELSE Fail(c)
      /\ UNCHANGED <<kind, rejected>>
  BY DEF SendRequest, shared
<1>2. DOMAIN rejected' = DOMAIN kind
  BY <1>1 DEF RequestInv, Shape
<1>3. CASE ~Fits(c, request)
  BY <1>1, <1>2, <1>3, RetryStep DEF Fail, NoNewMarkers
<1>4. CASE Fits(c, request)
  <2>1. DOMAIN locals = ChatFields /\ locals.budget = chat[c].budget /\ locals.cache = chat[c].cache
    BY <1>1, UnderWay DEF ChatFields
  <2>2. ASSUME kind[c].structured PROVE Opens(request, UserOf(c))
    <3>1. Opens(Elide(messages[c]), UserOf(c)) /\ UserOf(c).role = "user"
      BY <1>1, <2>2, UnderWay, OpensElide
    <3> QED
      BY <2>2, <3>1, OpensTrim DEF Fit
  <2>3. locals.budget # Unlimited => Total(request) <= Target(locals.budget)
    BY <1>4, <2>1 DEF Fits
  <2> HIDE DEF request, locals
  <2> QED
    BY <1>1, <1>2, <1>4, <2>1, <2>2, <2>3, AwaitStep DEF NoNewMarkers
<1> QED
  BY <1>3, <1>4

\* A deadline that has passed ends the call;
LEMMA TimeOutStep ==
  ASSUME RequestInv, NEW c \in DOMAIN kind, TimeOut(c)
  PROVE  RequestInv' /\ NoNewMarkers(c)
<1> QED
  BY FinishStep DEF TimeOut, NoNewMarkers, shared, RequestInv, Shape

\* that it passes changes nothing else.
LEMMA ExpireStep ==
  ASSUME RequestInv, NEW c \in DOMAIN kind, Expire(c)
  PROVE  RequestInv' /\ NoNewMarkers(c)
<1> USE DEF Expire, shared
<1>1. \A d \in DOMAIN kind :
        call'[d].pc = call[d].pc /\ call'[d].augmented = call[d].augmented
  BY DEF RequestInv, Shape, CallFields
<1>2. Shape'
  BY DEF RequestInv, Shape, CallFields
<1>3. FitsInv' /\ WholeInv'
  BY <1>1 DEF RequestInv, FitsInv, WholeInv, InFlight, Fits, UserOf
<1> QED
  BY <1>2, <1>3 DEF RequestInv, NoNewMarkers, Quiet

\* So does an answer, a broken one or an error, or it begins the next attempt.
LEMMA AnswerSteps ==
  ASSUME RequestInv, NEW c \in DOMAIN kind,
         \/ ApiError(c) \/ BrokenAnswer(c) \/ AnswerFine(c) \/ AnswerMalformed(c)
  PROVE  RequestInv' /\ NoNewMarkers(c)
<1>1. DOMAIN rejected' = DOMAIN kind /\ UNCHANGED kind
  BY DEF ApiError, BrokenAnswer, AnswerFine, AnswerMalformed, shared, RequestInv, Shape
<1>2. Fail(c) \/ Finish(c, "answer") \/ Retry(c, "malformed", TRUE)
  BY DEF ApiError, BrokenAnswer, AnswerFine, AnswerMalformed
<1> QED
  BY <1>1, <1>2, FinishStep, RetryStep DEF Fail, NoNewMarkers

\* What may become of a request that is posted, markers apart.
LEMMA PostSteps ==
  ASSUME RequestInv, NEW c \in DOMAIN kind,
         \/ Accept(c) \/ TransportError(c) \/ RefuseStreamOptions(c) \/ RefuseLength(c)
  PROVE  RequestInv' /\ NoNewMarkers(c)
<1>1. DOMAIN rejected' = DOMAIN kind /\ UNCHANGED kind /\ call[c].pc = "post"
  BY DEF Accept, TransportError, RefuseStreamOptions, RefuseLength, Refused, shared,
         RequestInv, Shape
<1>2. /\ DOMAIN chat[c] = ChatFields
      /\ kind[c].structured => Opens(messages[c], UserOf(c))
      /\ chat[c].budget # Unlimited => Total(messages[c]) <= Target(chat[c].budget)
  BY <1>1, UnderWay DEF InFlight
<1>3. CASE Accept(c)
  BY <1>1, <1>2, <1>3, AwaitStep DEF Accept, NoNewMarkers
<1>4. CASE TransportError(c)
  <2> DEFINE locals == [chat[c] EXCEPT !.posts = @ + 1]
  <2>1. DOMAIN locals = ChatFields /\ locals.budget = chat[c].budget /\ locals.cache = chat[c].cache
    BY <1>2 DEF ChatFields
  <2>2. Continue(c, "post", messages[c], locals) \/ Fail(c)
    BY <1>4 DEF TransportError
  <2> HIDE DEF locals
  <2>3. CASE Continue(c, "post", messages[c], locals)
    BY <1>1, <1>2, <2>1, <2>3, GoOnStep DEF NoNewMarkers
  <2>4. CASE Fail(c)
    BY <1>1, <2>4, RetryStep DEF Fail, NoNewMarkers
  <2> QED
    BY <2>2, <2>3, <2>4
<1>5. CASE RefuseStreamOptions(c)
  <2> DEFINE locals == [chat[c] EXCEPT !.stream = FALSE]
  <2>1. DOMAIN locals = ChatFields /\ locals.cache = chat[c].cache
    BY <1>2 DEF ChatFields
  <2>2. Continue(c, "prepare", messages[c], locals)
    BY <1>5 DEF RefuseStreamOptions
  <2> HIDE DEF locals
  <2> QED
    BY <1>1, <1>2, <2>1, <2>2, GoOnStep DEF NoNewMarkers
<1>6. CASE RefuseLength(c)
  <2> DEFINE locals(limit) == [chat[c] EXCEPT !.shrinks = @ + 1,
                                              !.budget = LowerBudget(@, limit)]
  <2>1. PICK limit \in ContextLimits : Continue(c, "prepare", messages[c], locals(limit))
    BY <1>6 DEF RefuseLength
  <2>2. DOMAIN locals(limit) = ChatFields /\ locals(limit).cache = chat[c].cache
    BY <1>2 DEF ChatFields
  <2> HIDE DEF locals
  <2> QED
    BY <1>1, <1>2, <2>1, <2>2, GoOnStep DEF NoNewMarkers
<1> QED
  BY <1>3, <1>4, <1>5, <1>6

\* A refusal of the markers takes them off for the process.
LEMMA RefuseMarkersStep ==
  ASSUME RequestInv, NEW c \in DOMAIN kind, RefuseMarkers(c)
  PROVE  RequestInv' /\ ~chat'[c].cache /\ Quiet(c)
<1> DEFINE locals == [chat[c] EXCEPT !.cache = FALSE]
           rest == SubSeq(messages[c], 3, Len(messages[c]))
<1>1. /\ call[c].pc = "post"
      /\ Continue(c, "prepare", Opening(c) \o rest, locals)
      /\ UNCHANGED kind
  BY DEF RefuseMarkers, Refused
<1>2. DOMAIN rejected' = DOMAIN kind
  BY DEF RefuseMarkers, RequestInv, Shape
<1>3. DOMAIN locals = ChatFields /\ ~locals.cache
  BY <1>1, UnderWay DEF ChatFields
<1>4. ASSUME kind[c].structured PROVE Opens(Opening(c) \o rest, UserOf(c))
  <2>1. PICK S : messages[c] \in Seq(S)
    BY <1>1, <1>4, UnderWay DEF Opens
  <2>2. rest \in Seq(S)
    BY <2>1, SubSeqProperties, LenProperties, ElementOfSeq
  <2> HIDE DEF rest
  <2> QED
    BY <2>2, OpensOpening, OpensConcat
<1> HIDE DEF locals, rest
<1> QED
  BY <1>1, <1>2, <1>3, <1>4, GoOnStep

\* Calls of tools are appended and wait for their results,
LEMMA RunToolsStep ==
  ASSUME RequestInv, NEW c \in DOMAIN kind, RunTools(c)
  PROVE  RequestInv' /\ NoNewMarkers(c)
<1> DEFINE locals(n) == [chat[c] EXCEPT !.rounds = @ + 1, !.pending = n]
<1>1. PICK n \in 1..MaxToolCalls : Await(c, "tool", Append(messages[c], Asking(n)), locals(n))
  BY DEF RunTools
<1>2. DOMAIN rejected' = DOMAIN kind /\ UNCHANGED kind /\ call[c].pc = "read"
  BY DEF RunTools, shared, RequestInv, Shape
<1>3. DOMAIN locals(n) = ChatFields /\ locals(n).cache = chat[c].cache
  BY <1>2, UnderWay DEF ChatFields
<1>4. kind[c].structured => Opens(Append(messages[c], Asking(n)), UserOf(c))
  BY <1>2, UnderWay, OpensAppend
<1> HIDE DEF locals
<1> QED
  BY <1>1, <1>2, <1>3, <1>4, AwaitStep DEF NoNewMarkers

\* or have them at once, past the cap;
LEMMA RefuseToolsStep ==
  ASSUME RequestInv, NEW c \in DOMAIN kind, RefuseTools(c)
  PROVE  RequestInv' /\ NoNewMarkers(c)
<1> DEFINE locals == [chat[c] EXCEPT !.disabled = TRUE]
           replies(n) == [id \in 1..n |-> Reply(id, StubSize)]
           asked(n) == Append(messages[c], Asking(n)) \o replies(n)
           msgs(n) == IF Len(asked(n)) <= MaxMessages THEN asked(n) ELSE messages[c]
<1>1. PICK n \in 1..MaxToolCalls : Continue(c, "prepare", msgs(n), locals)
  BY DEF RefuseTools
<1>2. DOMAIN rejected' = DOMAIN kind /\ UNCHANGED kind /\ call[c].pc = "read"
  BY DEF RefuseTools, shared, RequestInv, Shape
<1>3. DOMAIN locals = ChatFields /\ locals.cache = chat[c].cache
  BY <1>2, UnderWay DEF ChatFields
<1>4. ASSUME kind[c].structured PROVE Opens(msgs(n), UserOf(c))
  <2>1. n \in Nat
    BY ChatAssumption
  <2>2. replies(n) \in Seq({Reply(id, StubSize) : id \in 1..n})
    BY <2>1
  <2>3. Opens(messages[c], UserOf(c))
    BY <1>2, <1>4, UnderWay
  <2> HIDE DEF replies
  <2>4. Opens(asked(n), UserOf(c))
    BY <2>2, <2>3, OpensAppend, OpensConcat
  <2> QED
    BY <2>3, <2>4
<1> HIDE DEF locals, msgs
<1> QED
  BY <1>1, <1>2, <1>3, <1>4, GoOnStep DEF NoNewMarkers

\* results come one after another.
LEMMA EndToolStep ==
  ASSUME RequestInv, NEW c \in DOMAIN kind, EndTool(c)
  PROVE  RequestInv' /\ NoNewMarkers(c)
<1> DEFINE locals(ok) == [chat[c] EXCEPT !.pending = @ - 1, !.proven = @ \/ ok]
           told(size) == Append(messages[c],
             Reply(messages[c][LastAssistant(messages[c])].calls + 1 - chat[c].pending, size))
<1>1. PICK size \in ResultSizes, ok \in BOOLEAN :
        IF locals(ok).pending > 0 THEN Await(c, "tool", told(size), locals(ok))
        ELSE Continue(c, "prepare", told(size), locals(ok))
  BY DEF EndTool
<1>2. DOMAIN rejected' = DOMAIN kind /\ UNCHANGED kind /\ call[c].pc = "tool"
  BY DEF EndTool, shared, RequestInv, Shape
<1>3. DOMAIN locals(ok) = ChatFields /\ locals(ok).cache = chat[c].cache
  BY <1>2, UnderWay DEF ChatFields
<1>4. kind[c].structured => Opens(told(size), UserOf(c))
  BY <1>2, UnderWay, OpensAppend
<1> HIDE DEF locals, told
<1>5. CASE locals(ok).pending > 0
  BY <1>1, <1>2, <1>3, <1>4, <1>5, AwaitStep DEF NoNewMarkers
<1>6. CASE ~(locals(ok).pending > 0)
  BY <1>1, <1>2, <1>3, <1>4, <1>6, GoOnStep DEF NoNewMarkers
<1> QED
  BY <1>5, <1>6

\* An answer that needs a tool call is reminded of it, or ends the attempt.
LEMMA AnswerSensitiveStep ==
  ASSUME RequestInv, NEW c \in DOMAIN kind, AnswerSensitive(c)
  PROVE  RequestInv' /\ NoNewMarkers(c)
<1> DEFINE locals == [chat[c] EXCEPT !.reminded = TRUE]
           reminder == <<Text("assistant", 1), Text("user", ReminderSize)>>
<1>1. \/ Finish(c, "verified") \/ Finish(c, "unverified")
      \/ Continue(c, "prepare", messages[c] \o reminder, locals)
  BY DEF AnswerSensitive
<1>2. DOMAIN rejected' = DOMAIN kind /\ UNCHANGED kind /\ call[c].pc = "read"
  BY DEF AnswerSensitive, shared, RequestInv, Shape
<1>3. DOMAIN locals = ChatFields /\ locals.cache = chat[c].cache
  BY <1>2, UnderWay DEF ChatFields
<1>4. ASSUME kind[c].structured PROVE Opens(messages[c] \o reminder, UserOf(c))
  <2>1. reminder \in Seq({Text("assistant", 1), Text("user", ReminderSize)})
    OBVIOUS
  <2> HIDE DEF reminder
  <2> QED
    BY <1>2, <1>4, <2>1, UnderWay, OpensConcat
<1> HIDE DEF locals, reminder
<1>5. CASE Finish(c, "verified") \/ Finish(c, "unverified")
  BY <1>2, <1>5, FinishStep DEF NoNewMarkers
<1>6. CASE Continue(c, "prepare", messages[c] \o reminder, locals)
  BY <1>2, <1>3, <1>4, <1>6, GoOnStep DEF NoNewMarkers
<1> QED
  BY <1>1, <1>5, <1>6

-----------------------------------------------------------------------------
(* The invariants. *)

\* The actions that leave the switch as it is and open no conversation.
Other(c) ==
  \/ SendRequest(c) \/ TimeOut(c) \/ Expire(c)
  \/ Accept(c) \/ TransportError(c) \/ RefuseStreamOptions(c) \/ RefuseLength(c)
  \/ ApiError(c) \/ BrokenAnswer(c) \/ RunTools(c) \/ RefuseTools(c) \/ EndTool(c)
  \/ AnswerFine(c) \/ AnswerSensitive(c) \/ AnswerMalformed(c)

\* All of these at once.
LEMMA OtherStep ==
  ASSUME RequestInv, NEW c \in DOMAIN kind, Other(c)
  PROVE  RequestInv' /\ NoNewMarkers(c) /\ UNCHANGED <<kind, shared>>
<1>1. RequestInv' /\ NoNewMarkers(c)
  BY SendRequestStep, TimeOutStep, ExpireStep, PostSteps, AnswerSteps, RunToolsStep,
     RefuseToolsStep, EndToolStep, AnswerSensitiveStep DEF Other
<1>2. UNCHANGED <<kind, shared>>
  BY DEF Other, SendRequest, TimeOut, Expire, Accept, TransportError, RefuseStreamOptions,
         RefuseLength, ApiError, BrokenAnswer, RunTools, RefuseTools, EndTool, AnswerFine,
         AnswerSensitive, AnswerMalformed
<1> QED
  BY <1>1, <1>2

\* Every step is of one call.
LEMMA NextCases ==
  ASSUME Next
  PROVE  \E c \in DOMAIN kind : StartChat(c) \/ RefuseMarkers(c) \/ Other(c)
<1> QED
  BY DEF Next, Host, World, Other

\* Before their first request calls send nothing.
LEMMA InitRequest == Init => RequestInv /\ ProbeInv
<1> SUFFICES ASSUME Init PROVE RequestInv /\ ProbeInv
  OBVIOUS
<1> USE DEF Init
<1>1. Shape
  BY DEF Shape, CallFields, ChatFields, NoChat
<1>2. FitsInv /\ WholeInv
  BY DEF FitsInv, WholeInv, InFlight
<1>3. ProbeInv
  BY DEF ProbeInv
<1> QED
  BY <1>1, <1>2, <1>3 DEF RequestInv

\* The inductive step for requests,
LEMMA RequestStep == RequestInv /\ [Next]_vars => RequestInv'
<1> SUFFICES ASSUME RequestInv, [Next]_vars PROVE RequestInv'
  OBVIOUS
<1>1. CASE Next
  BY <1>1, NextCases, StartChatStep, RefuseMarkersStep, OtherStep
<1>2. CASE UNCHANGED vars
  <2> USE <1>2 DEF vars, shared
  <2>1. Shape'
    BY DEF RequestInv, Shape
  <2>2. FitsInv' /\ WholeInv'
    BY DEF RequestInv, FitsInv, WholeInv, InFlight, Fits, UserOf
  <2> QED
    BY <2>1, <2>2 DEF RequestInv
<1> QED
  BY <1>1, <1>2

\* and for markers.
LEMMA ProbeStep == RequestInv /\ ProbeInv /\ [Next]_vars => ProbeInv'
<1> SUFFICES ASSUME RequestInv, ProbeInv, [Next]_vars PROVE ProbeInv'
  OBVIOUS
<1> USE DEF ProbeInv
<1>1. ASSUME NEW c \in DOMAIN kind, StartChat(c) PROVE ProbeInv'
  <2>1. UNCHANGED <<kind, shared>>
    BY <1>1 DEF StartChat
  <2> QED
    BY <1>1, <2>1, StartChatStep DEF Quiet, shared
<1>2. ASSUME NEW c \in DOMAIN kind, RefuseMarkers(c) PROVE ProbeInv'
  <2>1. /\ chat[c].cache
        /\ cacheDisabled' /\ UNCHANGED kind
        /\ noticed' = IF cacheDisabled THEN noticed ELSE noticed + 1
        /\ rejected' = [rejected EXCEPT ![c] = @ + 1]
    BY <1>2 DEF RefuseMarkers
  <2>2. ~chat'[c].cache /\ Quiet(c)
    BY <1>2, RefuseMarkersStep
  <2>3. DOMAIN rejected = DOMAIN kind /\ rejected[c] = 0
    BY <2>1 DEF RequestInv, Shape
  <2>4. rejected'[c] = 1 /\ \A d \in DOMAIN kind \ {c} : rejected'[d] = rejected[d]
    BY <2>1, <2>3
  <2>5. noticed' = 1
    BY <2>1
  <2> QED
    BY <2>1, <2>2, <2>4, <2>5 DEF Quiet
<1>3. ASSUME NEW c \in DOMAIN kind, Other(c) PROVE ProbeInv'
  BY <1>3, OtherStep DEF NoNewMarkers, Quiet, shared
<1>4. CASE UNCHANGED vars
  BY <1>4 DEF vars, shared
<1> QED
  BY <1>1, <1>2, <1>3, <1>4, NextCases

\* Every request fits its budget, whatever the provider makes of the budget
\* and however the conversation grows, and the user message of a structured
\* call (enforce_request_input_budget_preserving_initial_user) is sent whole.
THEOREM RequestsFit == Spec => []RequestFits
<1>1. RequestInv => RequestFits
  BY DEF RequestInv, RequestFits, FitsInv, WholeInv, Fits, InFlight, Opens
<1> QED
  BY <1>1, InitRequest, RequestStep, PTL DEF Spec

\* However many calls run at a time, a refusal of cache markers
\* (mark_cache_disabled_first_time) costs each of them one request at most,
\* in all its attempts, and the user sees one notice.
THEOREM ProbingStops == Spec => []ProbedOnce
<1>1. ProbeInv => ProbedOnce
  <2> SUFFICES ASSUME ProbeInv PROVE ProbedOnce
    OBVIOUS
  <2>1. (\E c \in DOMAIN kind : rejected[c] > 0) <=> cacheDisabled
    BY DEF ProbeInv
  <2> QED
    BY <2>1 DEF ProbeInv, ProbedOnce
<1> QED
  BY <1>1, InitRequest, RequestStep, ProbeStep, PTL DEF Spec

-----------------------------------------------------------------------------
(* Conversations in which tool calls have their results.                    *)

MessageFields == {"role", "size", "calls", "id", "elided"}

IsMessage(m) ==
  /\ DOMAIN m = MessageFields
  /\ m.calls \in Nat /\ m.id \in Nat /\ m.elided \in BOOLEAN
  /\ m.role = "tool" => m.calls = 0

\* A list of messages, of which the first two ask for no tool and are no result.
Conversation(msgs) ==
  /\ \E S : msgs \in Seq(S)
  /\ Len(msgs) >= 2
  /\ \A i \in 1..Len(msgs) : IsMessage(msgs[i])
  /\ msgs[1].role = "system" /\ msgs[2].role = "user"
  /\ \A i \in 1..2 : msgs[i].calls = 0 /\ msgs[i].id = 0 /\ ~msgs[i].elided

\* In the first n messages each call is followed by its result.
Whole(msgs, n) ==
  \A i \in 1..n :
    /\ \A id \in 1..msgs[i].calls :
         i + id \in 1..n /\ msgs[i + id].role = "tool" /\ msgs[i + id].id = id
    /\ msgs[i].role = "tool" =>
         \E j \in 1..(i - 1) : msgs[i].id = i - j /\ msgs[j].calls >= msgs[i].id

\* The last answer, at p, still waits for the results of its last calls.
Waits(msgs, pending, p) ==
  /\ p \in 1..Len(msgs) /\ Whole(msgs, p - 1)
  /\ msgs[p].role = "assistant"
  /\ pending \in 1..msgs[p].calls
  /\ Len(msgs) = p + msgs[p].calls - pending
  /\ \A id \in 1..(msgs[p].calls - pending) :
       msgs[p + id].role = "tool" /\ msgs[p + id].id = id

\* What is elided the model has read; in a request all that it has read is.
KeptFresh(msgs) ==
  \A i \in 1..Len(msgs) : msgs[i].role = "tool" /\ msgs[i].elided => i < LastAssistant(msgs)

AllElided(msgs) ==
  \A i \in 1..Len(msgs) :
    msgs[i].role = "tool" => msgs[i].elided = (i < LastAssistant(msgs))

Talks(msgs, where, pending) ==
  /\ Conversation(msgs) /\ KeptFresh(msgs)
  /\ where \in {"post", "read"} => AllElided(msgs)
  /\ IF where = "tool" THEN \E p : Waits(msgs, pending, p) ELSE Whole(msgs, Len(msgs))

TalkInv ==
  \A c \in DOMAIN kind :
    call[c].pc \notin {"start", "done"} => Talks(messages[c], call[c].pc, chat[c].pending)

\* A set of naturals has a least element.
LEMMA LeastNat ==
  ASSUME NEW T, T \subseteq Nat, T # {}
  PROVE  \E n \in T : \A m \in T : n <= m
<1>1. IsWellFoundedOn(OpToRel(<, Nat), Nat)
  BY NatLessThanWellFounded
<1>2. PICK n \in T : \A m \in T : <<m, n>> \notin OpToRel(<, Nat)
  BY <1>1, WFMin
<1>3. \A m \in T : ~(m < n)
  BY <1>2 DEF OpToRel
<1> QED
  BY <1>3

\* The last answer of a conversation, if there is one.
LEMMA LastAssistantIs ==
  ASSUME NEW S, NEW m \in Seq(S)
  PROVE  /\ LastAssistant(m) \in 0..Len(m)
         /\ \A i \in 1..Len(m) : m[i].role = "assistant" => i <= LastAssistant(m)
         /\ LastAssistant(m) # 0 => m[LastAssistant(m)].role = "assistant"
<1> DEFINE s == {0} \cup {i \in DOMAIN m : m[i].role = "assistant"}
           n == Len(m)
           D == {k \in Nat : \A i \in s : i <= k}
<1>1. n \in Nat /\ DOMAIN m = 1..n
  OBVIOUS
<1>2. 0 \in s /\ s \subseteq 0..n
  BY <1>1
<1>3. PICK x \in D : \A k \in D : x <= k
  <2>1. D \subseteq Nat /\ n \in D
    BY <1>1, <1>2
  <2> HIDE DEF D
  <2> QED BY <2>1, LeastNat
<1>4. \A k \in D : x <= k
  BY <1>3
<1>5. x \in s
  <2> SUFFICES ASSUME x \notin s PROVE FALSE
    OBVIOUS
  <2>1. x \in Nat /\ x # 0 /\ \A i \in s : i \in Nat /\ i <= x /\ i # x
    BY <1>1, <1>2
  <2>2. x - 1 \in D
    <3> HIDE DEF s
    <3> QED BY <2>1
  <2> QED BY <1>4, <2>1, <2>2
<1>6. \A i \in s : i <= x
  OBVIOUS
<1>7. Max(s) = x
  <2> HIDE DEF s, D
  <2>1. \A y \in s : (\A i \in s : y >= i) <=> y = x
    BY <1>1, <1>2, <1>5, <1>6
  <2> QED BY <1>5, <2>1 DEF Max
<1>8. LastAssistant(m) = x
  BY <1>7 DEF LastAssistant
<1> QED BY <1>1, <1>2, <1>5, <1>6, <1>8

\* The same conversation, but for sizes and what is elided.
Same(m, r) ==
  /\ \E S : r \in Seq(S)
  /\ Len(r) = Len(m)
  /\ \A i \in 1..Len(m) : r[i].role = m[i].role /\ r[i].calls = m[i].calls /\ r[i].id = m[i].id

\* Sizes do not matter to which call a result answers,
LEMMA SameWhole ==
  ASSUME NEW m, NEW r, Same(m, r), NEW n \in Nat, n <= Len(m), Len(m) \in Nat, Whole(m, n)
  PROVE  Whole(r, n)
<1>1. \A i \in 1..n : i \in 1..Len(m)
  OBVIOUS
<1>2. ASSUME NEW i \in 1..n, NEW id \in 1..r[i].calls
      PROVE  i + id \in 1..n /\ r[i + id].role = "tool" /\ r[i + id].id = id
  <2>1. id \in 1..m[i].calls
    BY <1>1, <1>2 DEF Same
  <2>2. i + id \in 1..n /\ m[i + id].role = "tool" /\ m[i + id].id = id
    BY <2>1 DEF Whole
  <2> QED BY <1>1, <2>2 DEF Same
<1>3. ASSUME NEW i \in 1..n, r[i].role = "tool"
      PROVE  \E j \in 1..(i - 1) : r[i].id = i - j /\ r[j].calls >= r[i].id
  <2>1. m[i].role = "tool" /\ r[i].id = m[i].id
    BY <1>1, <1>3 DEF Same
  <2>2. PICK j \in 1..(i - 1) : m[i].id = i - j /\ m[j].calls >= m[i].id
    BY <2>1 DEF Whole
  <2>3. j \in 1..n
    OBVIOUS
  <2>4. r[j].calls = m[j].calls
    BY <1>1, <2>3 DEF Same
  <2> QED BY <2>1, <2>2, <2>4
<1> QED BY <1>2, <1>3 DEF Whole

\* nor to which answer is the last.
LEMMA SameLast ==
  ASSUME NEW S, NEW m \in Seq(S), NEW r, Same(m, r)
  PROVE  LastAssistant(r) = LastAssistant(m)
<1>1. PICK T : r \in Seq(T)
  BY DEF Same
<1>2. DOMAIN r = 1..Len(m) /\ DOMAIN m = 1..Len(m)
  BY <1>1 DEF Same
<1>3. {i \in DOMAIN r : r[i].role = "assistant"} = {i \in DOMAIN m : m[i].role = "assistant"}
  BY <1>2 DEF Same
<1> QED BY <1>3 DEF LastAssistant

\* A conversation may grow: what was whole stays so.
LEMMA WholeGrows ==
  ASSUME NEW m, NEW r, NEW n \in Nat, Whole(m, n), \A i \in 1..n : r[i] = m[i]
  PROVE  Whole(r, n)
<1>1. ASSUME NEW i \in 1..n, NEW id \in 1..r[i].calls
      PROVE  i + id \in 1..n /\ r[i + id].role = "tool" /\ r[i + id].id = id
  <2>1. i + id \in 1..n /\ m[i + id].role = "tool" /\ m[i + id].id = id
    BY <1>1 DEF Whole
  <2> QED BY <2>1
<1>2. ASSUME NEW i \in 1..n, r[i].role = "tool"
      PROVE  \E j \in 1..(i - 1) : r[i].id = i - j /\ r[j].calls >= r[i].id
  <2>1. PICK j \in 1..(i - 1) : m[i].id = i - j /\ m[j].calls >= m[i].id
    BY <1>2 DEF Whole
  <2>2. j \in 1..n
    OBVIOUS
  <2> QED BY <2>1, <2>2
<1> QED BY <1>1, <1>2 DEF Whole

\* A message that is no result and asks for nothing may follow.
LEMMA WholeSpeaks ==
  ASSUME NEW m, NEW n \in Nat, Whole(m, n), m[n + 1].calls = 0, m[n + 1].role # "tool"
  PROVE  Whole(m, n + 1)
<1>1. ASSUME NEW i \in 1..(n + 1), NEW id \in 1..m[i].calls
      PROVE  i + id \in 1..(n + 1) /\ m[i + id].role = "tool" /\ m[i + id].id = id
  <2>1. i # n + 1
    BY <1>1
  <2>2. i \in 1..n
    BY <2>1
  <2>3. i + id \in 1..n /\ m[i + id].role = "tool" /\ m[i + id].id = id
    BY <2>2, <1>1 DEF Whole
  <2> QED BY <2>3
<1>2. ASSUME NEW i \in 1..(n + 1), m[i].role = "tool"
      PROVE  \E j \in 1..(i - 1) : m[i].id = i - j /\ m[j].calls >= m[i].id
  <2>1. i # n + 1
    BY <1>2
  <2>2. i \in 1..n
    BY <2>1
  <2> QED BY <1>2, <2>2 DEF Whole
<1> QED BY <1>1, <1>2 DEF Whole

\* An answer with all its results may follow.
LEMMA WholeAnswers ==
  ASSUME NEW m, NEW p \in Nat \ {0}, Whole(m, p - 1), NEW n \in Nat,
         m[p].calls = n, m[p].role # "tool",
         \A id \in 1..n : m[p + id].role = "tool" /\ m[p + id].id = id /\ m[p + id].calls = 0
  PROVE  Whole(m, p + n)
<1>1. ASSUME NEW i \in 1..(p + n), NEW id \in 1..m[i].calls
      PROVE  i + id \in 1..(p + n) /\ m[i + id].role = "tool" /\ m[i + id].id = id
  <2>1. CASE i \in 1..(p - 1)
    <3>1. i + id \in 1..(p - 1) /\ m[i + id].role = "tool" /\ m[i + id].id = id
      BY <1>1, <2>1 DEF Whole
    <3> QED BY <3>1
  <2>2. CASE i = p
    BY <1>1, <2>2
  <2>3. CASE i > p
    <3>1. i - p \in 1..n /\ p + (i - p) = i
      BY <2>3
    <3>2. m[i].calls = 0
      BY <3>1
    <3> QED BY <1>1, <3>2
  <2> QED BY <2>1, <2>2, <2>3
<1>2. ASSUME NEW i \in 1..(p + n), m[i].role = "tool"
      PROVE  \E j \in 1..(i - 1) : m[i].id = i - j /\ m[j].calls >= m[i].id
  <2>1. CASE i \in 1..(p - 1)
    BY <1>2, <2>1 DEF Whole
  <2>2. CASE i = p
    BY <1>2, <2>2
  <2>3. CASE i > p
    <3>1. i - p \in 1..n /\ p + (i - p) = i /\ p \in 1..(i - 1)
      BY <2>3
    <3>2. m[i].id = i - p
      BY <3>1
    <3> QED BY <3>1, <3>2
  <2> QED BY <2>1, <2>2, <2>3
<1> QED BY <1>1, <1>2 DEF Whole

-----------------------------------------------------------------------------
(* How a step of a call changes its conversation.                           *)

\* A call that goes on keeps the invariant if its conversation is fit for where
\* it goes.
LEMMA TalkContinue ==
  ASSUME Shape, TalkInv, NEW c \in DOMAIN kind, NEW where, NEW msgs, NEW locals,
         Continue(c, where, msgs, locals), UNCHANGED kind,
         Talks(msgs, where, locals.pending)
  PROVE  TalkInv'
<1>1. /\ call'[c].pc = where /\ chat'[c] = locals /\ messages'[c] = msgs
      /\ \A d \in DOMAIN kind : d # c =>
           call'[d] = call[d] /\ chat'[d] = chat[d] /\ messages'[d] = messages[d]
  BY DEF Continue, Shape, CallFields
<1>2. ASSUME NEW d \in DOMAIN kind, call'[d].pc \notin {"start", "done"}
      PROVE  Talks(messages'[d], call'[d].pc, chat'[d].pending)
  <2>1. CASE d = c
    BY <1>1, <2>1
  <2>2. CASE d # c
    BY <1>1, <1>2, <2>2 DEF TalkInv
  <2> QED BY <2>1, <2>2
<1> QED BY <1>2 DEF TalkInv, Talks, Conversation, KeptFresh, AllElided, Whole, Waits, LastAssistant

\* An attempt that ends has no conversation:
LEMMA TalkEnds ==
  ASSUME Shape, TalkInv, NEW c \in DOMAIN kind, NEW rec,
         EndAttempt(c, rec), UNCHANGED kind, rec.pc \in {"start", "done"}
  PROVE  TalkInv'
<1>1. /\ call'[c].pc \in {"start", "done"}
      /\ \A d \in DOMAIN kind : d # c =>
           call'[d] = call[d] /\ chat'[d] = chat[d] /\ messages'[d] = messages[d]
  BY DEF EndAttempt, Shape
<1>2. ASSUME NEW d \in DOMAIN kind, call'[d].pc \notin {"start", "done"}
      PROVE  Talks(messages'[d], call'[d].pc, chat'[d].pending)
  BY <1>1, <1>2 DEF TalkInv
<1> QED BY <1>2 DEF TalkInv, Talks, Conversation, KeptFresh, AllElided, Whole, Waits, LastAssistant

\* neither that of a call that ends
LEMMA TalkFinish ==
  ASSUME Shape, TalkInv, NEW c \in DOMAIN kind, NEW outcome, Finish(c, outcome), UNCHANGED kind
  PROVE  TalkInv'
<1> DEFINE rec == [call[c] EXCEPT !.pc = "done", !.outcome = outcome]
<1>1. EndAttempt(c, rec) /\ rec.pc = "done"
  BY DEF Finish, Shape, CallFields
<1> HIDE DEF rec
<1> QED BY <1>1, TalkEnds

\* nor that of one that begins anew.
LEMMA TalkRetry ==
  ASSUME Shape, TalkInv, NEW c \in DOMAIN kind, NEW outcome, NEW augmented,
         Retry(c, outcome, augmented), UNCHANGED kind
  PROVE  TalkInv'
<1> DEFINE again == [call[c] EXCEPT !.pc = "start", !.attempt = @ + 1,
                                    !.augmented = augmented]
           last == [call[c] EXCEPT !.pc = "done", !.outcome = outcome]
<1>1. EndAttempt(c, again) \/ EndAttempt(c, last)
  BY DEF Retry
<1>2. again.pc = "start" /\ last.pc = "done"
  BY DEF Shape, CallFields
<1> HIDE DEF again, last
<1> QED BY <1>1, <1>2, TalkEnds

\* An await is one or the other.
LEMMA TalkAwait ==
  ASSUME Shape, TalkInv, NEW c \in DOMAIN kind, NEW where, NEW msgs, NEW locals,
         Await(c, where, msgs, locals), UNCHANGED kind,
         Talks(msgs, where, locals.pending)
  PROVE  TalkInv'
  BY TalkFinish, TalkContinue DEF Await

-----------------------------------------------------------------------------
(* Requests are made of conversations by eliding and cutting.               *)

\* The same conversation, but for sizes.
Resized(m, r) ==
  /\ Same(m, r)
  /\ \A i \in 1..Len(m) : IsMessage(r[i]) /\ r[i].elided = m[i].elided

\* Messages cut to size are the same conversation.
LEMMA ResizedTalks ==
  ASSUME NEW m, NEW r, Conversation(m), Resized(m, r)
  PROVE  /\ Conversation(r)
         /\ KeptFresh(m) => KeptFresh(r)
         /\ AllElided(m) => AllElided(r)
         /\ Whole(m, Len(m)) => Whole(r, Len(r))
<1>1. PICK S : m \in Seq(S) /\ Len(m) >= 2
  BY DEF Conversation
<1>2. Len(m) \in Nat /\ Len(r) = Len(m) /\ 1 \in 1..Len(m) /\ 2 \in 1..Len(m)
  BY <1>1 DEF Resized, Same
<1>3. \A i \in 1..Len(m) :
        /\ IsMessage(r[i]) /\ r[i].elided = m[i].elided
        /\ r[i].role = m[i].role /\ r[i].calls = m[i].calls /\ r[i].id = m[i].id
  BY DEF Resized, Same
<1>4. LastAssistant(r) = LastAssistant(m)
  BY <1>1, SameLast DEF Resized
<1>5. Conversation(r)
  BY <1>1, <1>2, <1>3 DEF Conversation, Resized, Same
<1>6. Whole(m, Len(m)) => Whole(r, Len(r))
  BY <1>1, <1>2, SameWhole DEF Resized
<1> QED BY <1>2, <1>3, <1>4, <1>5, <1>6 DEF KeptFresh, AllElided

\* A function of the messages is a list again.
LEMMA IsList ==
  ASSUME NEW S, NEW m \in Seq(S), NEW r, DOMAIN r = DOMAIN m, r = [i \in DOMAIN m |-> r[i]]
  PROVE  /\ \E T : r \in Seq(T)
         /\ Len(r) = Len(m)
<1> DEFINE T == {r[i] : i \in DOMAIN m}
<1>1. Len(m) \in Nat /\ DOMAIN m = 1..Len(m)
  OBVIOUS
<1>2. \A i \in DOMAIN m : r[i] \in T
  OBVIOUS
<1> HIDE DEF T
<1>3. r \in [1..Len(m) -> T]
  BY <1>1, <1>2
<1>4. r \in Seq(T) /\ Len(r) = Len(m)
  BY <1>1, <1>3
<1> QED BY <1>4

\* Trimming only cuts messages to size.
LEMMA TrimResizes ==
  ASSUME NEW m, Conversation(m), NEW structured, NEW target
  PROVE  Resized(m, Trim(structured, m, target))
<1> DEFINE r == Trim(structured, m, target)
<1>1. PICK S : m \in Seq(S)
  BY DEF Conversation
<1>2. DOMAIN r = DOMAIN m /\ r = [i \in DOMAIN m |-> r[i]]
  BY DEF Trim
<1>3. ASSUME NEW i \in 1..Len(m)
      PROVE  IsMessage(r[i]) /\ r[i].role = m[i].role /\ r[i].calls = m[i].calls
             /\ r[i].id = m[i].id /\ r[i].elided = m[i].elided
  <2>1. i \in DOMAIN m /\ IsMessage(m[i])
    BY <1>1 DEF Conversation
  <2>2. r[i] = m[i] \/ \E x : r[i] = [m[i] EXCEPT !.size = x]
    BY <2>1 DEF Trim
  <2> HIDE DEF r
  <2> QED BY <2>1, <2>2 DEF IsMessage, MessageFields
<1> HIDE DEF r
<1>4. (\E T : r \in Seq(T)) /\ Len(r) = Len(m)
  BY <1>1, <1>2, IsList
<1>5. Resized(m, r)
  BY <1>3, <1>4 DEF Resized, Same
<1> QED BY <1>5 DEF r

\* Eliding makes stubs of exactly the results that have been read.
LEMMA ElideTalks ==
  ASSUME NEW m, Conversation(m), KeptFresh(m), Whole(m, Len(m))
  PROVE  LET r == Elide(m)
         IN  Conversation(r) /\ KeptFresh(r) /\ AllElided(r) /\ Whole(r, Len(r))
<1> DEFINE r == Elide(m)
           last == LastAssistant(m)
<1>1. PICK S : m \in Seq(S) /\ Len(m) >= 2
  BY DEF Conversation
<1>2. DOMAIN r = DOMAIN m /\ r = [i \in DOMAIN m |-> r[i]]
  BY DEF Elide
<1>3. ASSUME NEW i \in 1..Len(m)
      PROVE  /\ IsMessage(r[i]) /\ r[i].role = m[i].role /\ r[i].calls = m[i].calls
             /\ r[i].id = m[i].id
             /\ r[i].elided = IF m[i].role = "tool" /\ i < last THEN TRUE ELSE m[i].elided
  <2>1. i \in DOMAIN m /\ IsMessage(m[i])
    BY <1>1 DEF Conversation
  <2>2. r[i] = IF m[i].role = "tool" /\ i < last
               THEN [m[i] EXCEPT !.size = StubSize, !.elided = TRUE] ELSE m[i]
    BY <2>1 DEF Elide
  <2> HIDE DEF r, last
  <2>3. CASE m[i].role = "tool" /\ i < last
    BY <2>1, <2>2, <2>3 DEF IsMessage, MessageFields
  <2>4. CASE ~(m[i].role = "tool" /\ i < last)
    BY <2>1, <2>2, <2>4
  <2> QED BY <2>3, <2>4
<1> HIDE DEF r
<1>4. (\E T : r \in Seq(T)) /\ Len(r) = Len(m)
  BY <1>1, <1>2, IsList
<1>5. Same(m, r)
  BY <1>3, <1>4 DEF Same
<1>6. LastAssistant(r) = last
  BY <1>1, <1>5, SameLast
<1>7. Len(m) \in Nat /\ 1 \in 1..Len(m) /\ 2 \in 1..Len(m)
  BY <1>1
<1>8. Conversation(r)
  <2>1. ASSUME NEW i \in 1..2 PROVE r[i].elided = m[i].elided /\ i \in 1..Len(m)
    <3>1. i \in 1..Len(m) /\ m[i].role # "tool"
      BY <1>7 DEF Conversation
    <3> QED BY <1>3, <3>1
  <2> QED BY <1>1, <1>3, <1>4, <1>7, <2>1 DEF Conversation
<1> HIDE DEF last
<1>9. AllElided(r) /\ KeptFresh(r)
  <2>1. ASSUME NEW i \in 1..Len(r), r[i].role = "tool"
        PROVE  r[i].elided = (i < last)
    <3>1. /\ i \in 1..Len(m) /\ m[i].role = "tool" /\ m[i].elided \in BOOLEAN
          /\ r[i].elided = IF i < last THEN TRUE ELSE m[i].elided
      BY <1>3, <1>4, <2>1 DEF Conversation, IsMessage
    <3>2. m[i].elided => i < last
      BY <3>1 DEF KeptFresh, last
    <3>3. CASE i < last
      BY <3>1, <3>3
    <3>4. CASE ~(i < last)
      BY <3>1, <3>2, <3>4
    <3> QED BY <3>3, <3>4
  <2> QED BY <1>6, <2>1 DEF AllElided, KeptFresh
<1>10. Whole(r, Len(r))
  BY <1>4, <1>5, <1>7, SameWhole
<1> QED BY <1>8, <1>9, <1>10 DEF r

\* So does all that is done to fit the budget.
LEMMA FitTalks ==
  ASSUME NEW c, NEW m, Conversation(m), KeptFresh(m), AllElided(m), Whole(m, Len(m))
  PROVE  LET r == Fit(c, m)
         IN  Conversation(r) /\ KeptFresh(r) /\ AllElided(r) /\ Whole(r, Len(r))
<1>1. CASE Fit(c, m) = m
  BY <1>1
<1>2. CASE Fit(c, m) = Trim(kind[c].structured, m, Target(chat[c].budget))
  BY <1>2, TrimResizes, ResizedTalks
<1> QED BY <1>1, <1>2 DEF Fit

\* A conversation begins with two messages and no calls.
LEMMA OpeningTalks ==
  ASSUME NEW c
  PROVE  LET r == Opening(c)
         IN  Conversation(r) /\ KeptFresh(r) /\ Whole(r, Len(r))
<1> DEFINE r == Opening(c)
<1>1. /\ r \in Seq({Text("system", SystemSize), UserOf(c)}) /\ Len(r) = 2
      /\ r[1] = Text("system", SystemSize) /\ r[2] = UserOf(c)
  BY DEF Opening
<1>2. /\ IsMessage(r[1]) /\ r[1].role = "system" /\ r[1].calls = 0 /\ r[1].id = 0 /\ ~r[1].elided
      /\ IsMessage(r[2]) /\ r[2].role = "user" /\ r[2].calls = 0 /\ r[2].id = 0 /\ ~r[2].elided
  BY <1>1 DEF UserOf, Text, IsMessage, MessageFields
<1> HIDE DEF r
<1>3. Len(r) = 2 /\ \A i \in 1..2 : i = 1 \/ i = 2
  BY <1>1
<1>4. Conversation(r)
  BY <1>1, <1>2, <1>3 DEF Conversation
<1>5. KeptFresh(r)
  BY <1>2, <1>3 DEF KeptFresh
<1>6. Whole(r, Len(r))
  BY <1>2, <1>3 DEF Whole
<1> QED BY <1>4, <1>5, <1>6 DEF r

\* The whole prompt is put back in the place of what was cut of it.
LEMMA ReopenedResizes ==
  ASSUME NEW c, NEW m, Conversation(m)
  PROVE  Resized(m, Opening(c) \o SubSeq(m, 3, Len(m)))
<1> DEFINE o == Opening(c)
           s == SubSeq(m, 3, Len(m))
           r == o \o s
           n == Len(m)
<1>1. PICK S : m \in Seq(S) /\ n \in Nat /\ n >= 2
  BY DEF Conversation
<1>2. /\ s \in Seq(S) /\ Len(s) = n - 2
      /\ \A i \in 1..(n - 2) : s[i] = m[i + 2]
  <2>1. 3 \in Int /\ n \in Int /\ \A i \in 3..n : m[i] \in S
    BY <1>1
  <2>2. /\ s \in Seq(S)
        /\ Len(s) = IF 3 <= n THEN n - 3 + 1 ELSE 0
        /\ \A i \in 1..(n - 3 + 1) : s[i] = m[3 + i - 1]
    BY <1>1, <2>1, SubSeqProperties
  <2>3. n - 3 + 1 = n - 2 /\ \A i \in 1..(n - 2) : 3 + i - 1 = i + 2
    BY <1>1
  <2> QED BY <1>1, <2>2, <2>3
<1> DEFINE T == {Text("system", SystemSize), UserOf(c)}
<1>3. o \in Seq(T) /\ Len(o) = 2 /\ o[1] = Text("system", SystemSize) /\ o[2] = UserOf(c)
  BY DEF Opening
<1> HIDE DEF o, s, T
<1>4. /\ IsMessage(o[1]) /\ o[1].role = "system" /\ o[1].calls = 0 /\ o[1].id = 0 /\ ~o[1].elided
      /\ IsMessage(o[2]) /\ o[2].role = "user" /\ o[2].calls = 0 /\ o[2].id = 0 /\ ~o[2].elided
  BY <1>3 DEF UserOf, Text, IsMessage, MessageFields
<1>5. o \in Seq(S \cup T) /\ s \in Seq(S \cup T)
  BY <1>2, <1>3
<1>6. /\ r \in Seq(S \cup T) /\ Len(r) = n
      /\ r[1] = o[1] /\ r[2] = o[2]
      /\ \A i \in 3..n : r[i] = s[i - 2]
  <2>1. /\ r \in Seq(S \cup T) /\ Len(r) = Len(o) + Len(s)
        /\ \A i \in 1..(Len(o) + Len(s)) : r[i] = IF i <= Len(o) THEN o[i] ELSE s[i - Len(o)]
    BY <1>5, ConcatProperties
  <2>2. Len(o) + Len(s) = n /\ Len(o) = 2 /\ n \in Nat /\ n >= 2
    BY <1>1, <1>2, <1>3
  <2> HIDE DEF r, n
  <2>3. 1 \in 1..n /\ 2 \in 1..n /\ \A i \in 3..n : i \in 1..n /\ ~(i <= 2)
    BY <2>2
  <2> QED BY <2>1, <2>2, <2>3
<1> HIDE DEF r, n
<1>7. \A i \in 3..n : r[i] = m[i]
  <2>1. \A i \in 3..n : i - 2 \in 1..(n - 2) /\ i - 2 + 2 = i
    BY <1>1
  <2> QED BY <1>2, <1>6, <2>1
<1>8. ASSUME NEW i \in 1..n
      PROVE  /\ IsMessage(r[i]) /\ r[i].role = m[i].role /\ r[i].calls = m[i].calls
             /\ r[i].id = m[i].id /\ r[i].elided = m[i].elided
  <2>1. CASE i \in 3..n
    BY <1>7, <2>1 DEF Conversation, n
  <2>2. CASE i = 1
    <3>1. m[1].elided \in BOOLEAN
      BY <1>8, <2>2 DEF Conversation, IsMessage, n
    <3> QED BY <1>4, <1>6, <2>2, <3>1 DEF Conversation, IsMessage
  <2>3. CASE i = 2
    <3>1. m[2].elided \in BOOLEAN
      BY <1>8, <2>3 DEF Conversation, IsMessage, n
    <3> QED BY <1>4, <1>6, <2>3, <3>1 DEF Conversation, IsMessage
  <2> QED BY <1>1, <2>1, <2>2, <2>3
<1>9. Same(m, r)
  BY <1>6, <1>8 DEF Same, n
<1>10. Resized(m, r)
  BY <1>8, <1>9 DEF Resized, n
<1> QED BY <1>10 DEF r, o, s, n

\* What was fresh stays so when messages that are not elided follow.
LEMMA FreshGrows ==
  ASSUME NEW S, NEW m \in Seq(S), NEW r \in Seq(S), KeptFresh(m), Len(m) <= Len(r),
         \A i \in 1..Len(m) : r[i] = m[i],
         \A i \in (Len(m) + 1)..Len(r) : ~r[i].elided
  PROVE  KeptFresh(r)
<1> SUFFICES ASSUME NEW i \in 1..Len(r), r[i].role = "tool", r[i].elided
             PROVE  i < LastAssistant(r)
  BY DEF KeptFresh
<1>1. Len(m) \in Nat /\ Len(r) \in Nat
  OBVIOUS
<1>2. i \in 1..Len(m)
  <2> SUFFICES ASSUME i \notin 1..Len(m) PROVE FALSE
    OBVIOUS
  <2>1. i \in (Len(m) + 1)..Len(r)
    BY <1>1
  <2> QED BY <2>1
<1>3. i < LastAssistant(m)
  BY <1>2 DEF KeptFresh
<1>4. LastAssistant(m) \in 1..Len(m) /\ m[LastAssistant(m)].role = "assistant"
  BY <1>1, <1>3, LastAssistantIs
<1>5. LastAssistant(m) \in 1..Len(r) /\ r[LastAssistant(m)].role = "assistant"
  BY <1>1, <1>4
<1>6. LastAssistant(m) <= LastAssistant(r) /\ LastAssistant(r) \in Nat
  BY <1>1, <1>5, LastAssistantIs
<1> QED BY <1>1, <1>3, <1>4, <1>6

\* A conversation goes on with messages that are not elided.
LEMMA GoesOn ==
  ASSUME NEW m, Conversation(m), KeptFresh(m), NEW T, NEW t \in Seq(T),
         \A i \in 1..Len(t) : IsMessage(t[i]) /\ ~t[i].elided
  PROVE  /\ Conversation(m \o t) /\ KeptFresh(m \o t)
         /\ Len(m \o t) = Len(m) + Len(t)
         /\ \A i \in 1..Len(m) : (m \o t)[i] = m[i]
         /\ \A i \in 1..Len(t) : (m \o t)[Len(m) + i] = t[i]
<1> DEFINE r == m \o t
           n == Len(m)
           k == Len(t)
<1>1. PICK S : m \in Seq(S) /\ n \in Nat /\ n >= 2 /\ k \in Nat
  BY DEF Conversation
<1>2. m \in Seq(S \cup T) /\ t \in Seq(S \cup T)
  BY <1>1
<1>3. /\ r \in Seq(S \cup T) /\ Len(r) = n + k
      /\ \A i \in 1..(n + k) : r[i] = IF i <= n THEN m[i] ELSE t[i - n]
  BY <1>2, ConcatProperties
<1> HIDE DEF r, n, k
<1>4. \A i \in 1..n : r[i] = m[i]
  <2>1. \A i \in 1..n : i \in 1..(n + k) /\ i <= n
    BY <1>1
  <2> QED BY <1>3, <2>1
<1>5. \A i \in 1..k : r[n + i] = t[i]
  <2> SUFFICES ASSUME NEW i \in 1..k PROVE r[n + i] = t[i]
    OBVIOUS
  <2>1. PICK x : x = n + i
    OBVIOUS
  <2>2. x \in 1..(n + k) /\ ~(x <= n) /\ x - n = i
    BY <1>1, <2>1
  <2>3. r[x] = t[x - n]
    BY <1>3, <2>2
  <2> QED BY <2>1, <2>2, <2>3
<1>6. ASSUME NEW i \in (n + 1)..(n + k) PROVE IsMessage(r[i]) /\ ~r[i].elided
  <2>1. i - n \in 1..k /\ n + (i - n) = i
    BY <1>1
  <2>2. r[i] = t[i - n]
    BY <1>5, <2>1
  <2> QED BY <2>1, <2>2 DEF k
<1>7. Conversation(r)
  <2>1. \A i \in 1..n : IsMessage(m[i])
    BY DEF Conversation, n
  <2>2. \A i \in 1..(n + k) : i \in 1..n \/ i \in (n + 1)..(n + k)
    BY <1>1
  <2>3. \A i \in 1..(n + k) : IsMessage(r[i])
    BY <1>4, <1>6, <2>1, <2>2
  <2>4. r[1] = m[1] /\ r[2] = m[2] /\ Len(r) >= 2
    BY <1>1, <1>3, <1>4
  <2>5. \A i \in 1..2 : i = 1 \/ i = 2
    OBVIOUS
  <2>6. r[1].role = "system" /\ r[2].role = "user"
    BY <2>4 DEF Conversation
  <2>7. \A i \in 1..2 : r[i].calls = 0 /\ r[i].id = 0 /\ ~r[i].elided
    BY <2>4, <2>5 DEF Conversation
  <2> QED BY <1>3, <2>3, <2>4, <2>6, <2>7 DEF Conversation
<1>8. KeptFresh(r)
  BY <1>1, <1>2, <1>3, <1>4, <1>6, FreshGrows DEF n
<1> QED BY <1>3, <1>4, <1>5, <1>7, <1>8 DEF r, n, k

\* It goes on with one.
LEMMA GoesOnByOne ==
  ASSUME NEW m, Conversation(m), KeptFresh(m), NEW e, IsMessage(e), ~e.elided
  PROVE  /\ Conversation(Append(m, e)) /\ KeptFresh(Append(m, e))
         /\ Len(Append(m, e)) = Len(m) + 1
         /\ \A i \in 1..Len(m) : Append(m, e)[i] = m[i]
         /\ Append(m, e)[Len(m) + 1] = e
<1>1. PICK S : m \in Seq(S)
  BY DEF Conversation
<1>2. m \in Seq(S \cup {e}) /\ e \in S \cup {e}
  BY <1>1
<1>3. <<e>> \in Seq({e}) /\ Len(<<e>>) = 1 /\ <<e>>[1] = e
  OBVIOUS
<1>4. Append(m, e) = m \o <<e>>
  BY <1>2, AppendIsConcat
<1> DEFINE t == <<e>>
<1> HIDE DEF t
<1>5. t \in Seq({e}) /\ Len(t) = 1 /\ t[1] = e /\ Append(m, e) = m \o t
  BY <1>3, <1>4 DEF t
<1>6. \A i \in 1..Len(t) : IsMessage(t[i]) /\ ~t[i].elided
  BY <1>5
<1>7. 1 \in 1..Len(t)
  BY <1>5
<1> QED BY <1>5, <1>6, <1>7, GoesOn

-----------------------------------------------------------------------------
(* The actions keep conversations whole. *)

\* What the invariant says of a call that is under way.
LEMMA TalkOf ==
  ASSUME Shape, TalkInv, NEW c \in DOMAIN kind, call[c].pc \in {"prepare", "post", "read", "tool"}
  PROVE  /\ DOMAIN chat[c] = ChatFields
         /\ Conversation(messages[c]) /\ KeptFresh(messages[c])
         /\ call[c].pc \in {"post", "read"} => AllElided(messages[c])
         /\ call[c].pc # "tool" => Whole(messages[c], Len(messages[c]))
         /\ call[c].pc = "tool" => \E p : Waits(messages[c], chat[c].pending, p)
  BY DEF Shape, TalkInv, Talks

\* One lemma per action, in the order of the model.
LEMMA StartChatTalks ==
  ASSUME Shape, TalkInv, NEW c \in DOMAIN kind, StartChat(c)
  PROVE  TalkInv'
<1> DEFINE locals == [NoChat EXCEPT !.cache = kind[c].caching /\ ~cacheDisabled,
                                    !.budget = kind[c].budget]
<1>1. Continue(c, "prepare", Opening(c), locals) /\ UNCHANGED kind
  BY DEF StartChat
<1> HIDE DEF locals
<1>2. Talks(Opening(c), "prepare", locals.pending)
  BY OpeningTalks DEF Talks
<1> QED BY <1>1, <1>2, TalkContinue

\* What is sent has been elided and fits.
LEMMA SendRequestTalks ==
  ASSUME Shape, TalkInv, NEW c \in DOMAIN kind, SendRequest(c)
  PROVE  TalkInv'
<1> DEFINE elided == Elide(messages[c])
           request == Fit(c, elided)
           locals == [chat[c] EXCEPT !.posts = 1]
<1>1. /\ call[c].pc = "prepare"
      /\ IF Fits(c, request) THEN Await(c, "post", request, locals) ELSE Fail(c)
      /\ UNCHANGED kind
  BY DEF SendRequest
<1>2. Conversation(elided) /\ KeptFresh(elided) /\ AllElided(elided) /\ Whole(elided, Len(elided))
  BY <1>1, TalkOf, ElideTalks
<1> HIDE DEF elided
<1>3. Conversation(request) /\ KeptFresh(request) /\ AllElided(request)
      /\ Whole(request, Len(request))
  BY <1>2, FitTalks
<1> HIDE DEF request, locals
<1>4. Talks(request, "post", locals.pending)
  BY <1>3 DEF Talks
<1> QED BY <1>1, <1>4, TalkAwait, TalkRetry DEF Fail

\* That a deadline passes changes no conversation,
LEMMA ExpireTalks ==
  ASSUME Shape, TalkInv, NEW c \in DOMAIN kind, Expire(c)
  PROVE  TalkInv'
<1>1. \A d \in DOMAIN kind : call'[d].pc = call[d].pc
  BY DEF Expire, Shape, CallFields
<1>2. UNCHANGED <<kind, chat, messages>>
  BY DEF Expire
<1> QED BY <1>1, <1>2 DEF TalkInv

\* and what ends an attempt drops it.
LEMMA EndingTalks ==
  ASSUME Shape, TalkInv, NEW c \in DOMAIN kind,
         \/ TimeOut(c) \/ ApiError(c) \/ BrokenAnswer(c) \/ AnswerFine(c) \/ AnswerMalformed(c)
  PROVE  TalkInv'
<1>1. UNCHANGED kind
  BY DEF TimeOut, ApiError, BrokenAnswer, AnswerFine, AnswerMalformed
<1>2. Finish(c, "timeout") \/ Fail(c) \/ Finish(c, "answer") \/ Retry(c, "malformed", TRUE)
  BY DEF TimeOut, ApiError, BrokenAnswer, AnswerFine, AnswerMalformed
<1> QED BY <1>1, <1>2, TalkFinish, TalkRetry DEF Fail

\* A request that is posted again is the same, or is cut.
LEMMA PostTalks ==
  ASSUME Shape, TalkInv, NEW c \in DOMAIN kind,
         \/ Accept(c) \/ TransportError(c) \/ RefuseStreamOptions(c) \/ RefuseLength(c)
  PROVE  TalkInv'
<1>1. UNCHANGED kind /\ call[c].pc = "post"
  BY DEF Accept, TransportError, RefuseStreamOptions, RefuseLength, Refused
<1>2. /\ Conversation(messages[c]) /\ KeptFresh(messages[c]) /\ AllElided(messages[c])
      /\ Whole(messages[c], Len(messages[c]))
  BY <1>1, TalkOf
<1>3. \A where \in {"prepare", "post", "read"} : \A pending : Talks(messages[c], where, pending)
  BY <1>2 DEF Talks
<1>4. \/ Await(c, "read", messages[c], chat[c])
      \/ Fail(c)
      \/ \E where \in {"prepare", "post"} : \E locals : Continue(c, where, messages[c], locals)
  BY DEF Accept, TransportError, RefuseStreamOptions, RefuseLength
<1>5. CASE Await(c, "read", messages[c], chat[c])
  BY <1>1, <1>3, <1>5, TalkAwait
<1>6. CASE Fail(c)
  BY <1>1, <1>6, TalkRetry DEF Fail
<1>7. ASSUME NEW where \in {"prepare", "post"}, NEW locals, Continue(c, where, messages[c], locals)
      PROVE  TalkInv'
  <2>1. Talks(messages[c], where, locals.pending)
    BY <1>3
  <2> QED BY <1>1, <1>7, <2>1, TalkContinue
<1> QED BY <1>4, <1>5, <1>6, <1>7

\* Without markers the conversation stays.
LEMMA RefuseMarkersTalks ==
  ASSUME Shape, TalkInv, NEW c \in DOMAIN kind, RefuseMarkers(c)
  PROVE  TalkInv'
<1> DEFINE locals == [chat[c] EXCEPT !.cache = FALSE]
           msgs == Opening(c) \o SubSeq(messages[c], 3, Len(messages[c]))
<1>1. call[c].pc = "post" /\ UNCHANGED kind /\ Continue(c, "prepare", msgs, locals)
  BY DEF RefuseMarkers, Refused
<1>2. /\ Conversation(messages[c]) /\ KeptFresh(messages[c])
      /\ Whole(messages[c], Len(messages[c]))
  BY <1>1, TalkOf
<1>3. Resized(messages[c], msgs)
  BY <1>2, ReopenedResizes
<1> HIDE DEF locals, msgs
<1>4. Talks(msgs, "prepare", locals.pending)
  BY <1>2, <1>3, ResizedTalks DEF Talks
<1> QED BY <1>1, <1>4, TalkContinue

\* A conversation in which the model has just asked for tools.
LEMMA AskedTalks ==
  ASSUME NEW m, Conversation(m), KeptFresh(m), Whole(m, Len(m)), NEW n \in Nat \ {0}
  PROVE  LET asked == Append(m, Asking(n))
         IN  /\ Conversation(asked) /\ KeptFresh(asked)
             /\ Len(asked) = Len(m) + 1 /\ Len(m) \in Nat
             /\ Waits(asked, n, Len(m) + 1)
<1> DEFINE e == Asking(n)
           asked == Append(m, e)
           p == Len(m) + 1
<1>1. Len(m) \in Nat /\ p \in Nat /\ p - 1 = Len(m) /\ p >= 1
  BY DEF Conversation
<1>2. IsMessage(e) /\ ~e.elided /\ e.role = "assistant" /\ e.calls = n
  BY DEF Asking, Text, IsMessage, MessageFields
<1> HIDE DEF e
<1>3. /\ Conversation(asked) /\ KeptFresh(asked) /\ Len(asked) = p
      /\ \A i \in 1..Len(m) : asked[i] = m[i]
      /\ asked[p] = e
  BY <1>2, GoesOnByOne
<1> HIDE DEF asked, p
<1>4. Whole(asked, p - 1)
  BY <1>1, <1>3, WholeGrows
<1>5. p \in 1..Len(asked) /\ n \in 1..n /\ Len(asked) = p + n - n /\ 1..(n - n) = {}
  BY <1>1, <1>3
<1>6. Waits(asked, n, p)
  BY <1>2, <1>3, <1>4, <1>5 DEF Waits
<1> QED BY <1>1, <1>3, <1>6 DEF asked, e, p

\* An answer with calls is appended and waits for their results.
LEMMA RunToolsTalks ==
  ASSUME Shape, TalkInv, NEW c \in DOMAIN kind, RunTools(c)
  PROVE  TalkInv'
<1> DEFINE locals(n) == [chat[c] EXCEPT !.rounds = @ + 1, !.pending = n]
           asked(n) == Append(messages[c], Asking(n))
<1>1. PICK n \in 1..MaxToolCalls : Await(c, "tool", asked(n), locals(n))
  BY DEF RunTools
<1>2. call[c].pc = "read" /\ UNCHANGED kind /\ n \in Nat \ {0}
  BY ChatAssumption DEF RunTools
<1>3. /\ DOMAIN chat[c] = ChatFields /\ Conversation(messages[c]) /\ KeptFresh(messages[c])
      /\ Whole(messages[c], Len(messages[c]))
  BY <1>2, TalkOf
<1>4. /\ Conversation(asked(n)) /\ KeptFresh(asked(n))
      /\ Waits(asked(n), n, Len(messages[c]) + 1)
  BY <1>2, <1>3, AskedTalks
<1>5. locals(n).pending = n
  BY <1>3 DEF ChatFields
<1> HIDE DEF locals, asked
<1>6. Talks(asked(n), "tool", locals(n).pending)
  BY <1>4, <1>5 DEF Talks
<1> QED BY <1>1, <1>2, <1>6, TalkAwait

\* Calls above the cap are answered at once, by refusals.
LEMMA RefuseToolsTalks ==
  ASSUME Shape, TalkInv, NEW c \in DOMAIN kind, RefuseTools(c)
  PROVE  TalkInv'
<1> DEFINE locals == [chat[c] EXCEPT !.disabled = TRUE]
           replies(n) == [id \in 1..n |-> Reply(id, StubSize)]
           asked(n) == Append(messages[c], Asking(n))
           told(n) == asked(n) \o replies(n)
           msgs(n) == IF Len(told(n)) <= MaxMessages THEN told(n) ELSE messages[c]
<1>1. PICK n \in 1..MaxToolCalls : Continue(c, "prepare", msgs(n), locals)
  BY DEF RefuseTools
<1>2. call[c].pc = "read" /\ UNCHANGED kind /\ n \in Nat \ {0}
  BY ChatAssumption DEF RefuseTools
<1>3. /\ Conversation(messages[c]) /\ KeptFresh(messages[c])
      /\ Whole(messages[c], Len(messages[c]))
  BY <1>2, TalkOf
<1>4. Talks(told(n), "prepare", locals.pending)
  <2> DEFINE p == Len(messages[c]) + 1
             r == replies(n)
             a == asked(n)
             t == told(n)
             R == {Reply(id, StubSize) : id \in 1..n}
  <2>1. /\ Conversation(a) /\ KeptFresh(a) /\ Len(a) = p /\ p - 1 \in Nat /\ p \in Nat \ {0}
        /\ Waits(a, n, p)
    BY <1>2, <1>3, AskedTalks DEF Conversation
  <2>2. /\ r \in Seq(R) /\ Len(r) = n
        /\ \A id \in 1..n : r[id] = Reply(id, StubSize)
    BY <1>2
  <2> HIDE DEF r, p, a, R
  <2>3. ASSUME NEW id \in 1..n
        PROVE  IsMessage(r[id]) /\ r[id].role = "tool" /\ r[id].id = id /\ r[id].calls = 0
               /\ ~r[id].elided
    <3> DEFINE e == Reply(id, StubSize)
    <3>1. IsMessage(e) /\ e.role = "tool" /\ e.id = id /\ e.calls = 0 /\ ~e.elided
      <4>1. id \in Nat
        BY <1>2
      <4> QED BY <4>1 DEF Reply, Text, IsMessage, MessageFields
    <3>2. r[id] = e
      BY <2>2
    <3> HIDE DEF e
    <3> QED BY <3>1, <3>2
  <2>4. \A id \in 1..Len(r) : IsMessage(r[id]) /\ ~r[id].elided
    BY <2>2, <2>3
  <2>5. /\ Conversation(t) /\ KeptFresh(t) /\ Len(t) = p + n
        /\ \A i \in 1..p : t[i] = a[i]
        /\ \A i \in 1..n : t[p + i] = r[i]
    <3>1. t = a \o r
      BY DEF a, r
    <3> HIDE DEF t
    <3>2. /\ Conversation(a \o r) /\ KeptFresh(a \o r) /\ Len(a \o r) = Len(a) + Len(r)
          /\ \A i \in 1..Len(a) : (a \o r)[i] = a[i]
          /\ \A i \in 1..Len(r) : (a \o r)[Len(a) + i] = r[i]
      <4>1. Conversation(a) /\ KeptFresh(a) /\ r \in Seq(R)
        BY <2>1, <2>2
      <4> QED BY <2>4, <4>1, GoesOn
    <3> QED BY <2>1, <2>2, <3>1, <3>2
  <2> HIDE DEF t
  <2>6. Whole(a, p - 1) /\ a[p].role = "assistant" /\ a[p].calls = n
    <3>1. /\ Whole(a, p - 1) /\ a[p].role = "assistant" /\ n \in 1..a[p].calls
          /\ p = p + a[p].calls - n
      BY <2>1 DEF Waits
    <3>2. a[p].calls \in Nat
      BY <2>1 DEF Conversation, IsMessage
    <3> QED BY <1>2, <2>1, <3>1, <3>2
  <2>7. \A i \in 1..(p - 1) : t[i] = a[i]
    BY <2>1, <2>5
  <2>8. Whole(t, p - 1)
    BY <2>1, <2>6, <2>7, WholeGrows
  <2>9. t[p].role = "assistant" /\ t[p].calls = n
    BY <2>1, <2>5, <2>6
  <2>10. Whole(t, p + n)
    <3>1. \A id \in 1..n : t[p + id].role = "tool" /\ t[p + id].id = id /\ t[p + id].calls = 0
      BY <2>3, <2>5
    <3>2. t[p].role # "tool" /\ n \in Nat
      BY <1>2, <2>9
    <3> QED BY <2>1, <2>8, <2>9, <3>1, <3>2, WholeAnswers
  <2>11. Whole(t, Len(t))
    BY <2>5, <2>10
  <2>12. Talks(t, "prepare", locals.pending)
    BY <2>5, <2>11 DEF Talks
  <2> QED BY <2>12 DEF t
<1>5. Talks(messages[c], "prepare", locals.pending)
  BY <1>3 DEF Talks
<1> HIDE DEF locals, told
<1>6. Talks(msgs(n), "prepare", locals.pending)
  BY <1>4, <1>5
<1> QED BY <1>1, <1>2, <1>6, TalkContinue

\* The answer that waits for results is the last one.
LEMMA WaitsLast ==
  ASSUME NEW m, NEW pending, NEW p, Conversation(m), Waits(m, pending, p)
  PROVE  /\ LastAssistant(m) = p /\ p \in Nat \ {0} /\ Len(m) \in Nat
         /\ m[p].calls \in Nat /\ pending \in Nat
<1>1. PICK S : m \in Seq(S)
  BY DEF Conversation
<1>2. Len(m) \in Nat /\ p \in 1..Len(m) /\ p \in Nat \ {0}
  BY <1>1 DEF Waits
<1>3. m[p].calls \in Nat
  BY <1>2 DEF Conversation, IsMessage
<1>4. pending \in Nat /\ m[p].role = "assistant"
  BY <1>3 DEF Waits
<1> DEFINE last == LastAssistant(m)
<1>5. last \in 0..Len(m) /\ p <= last /\ (last # 0 => m[last].role = "assistant")
  BY <1>1, <1>2, <1>4, LastAssistantIs
<1> HIDE DEF last
<1>6. ASSUME last # p PROVE FALSE
  <2>0. Len(m) = p + m[p].calls - pending
    BY DEF Waits
  <2>1. last - p \in 1..(m[p].calls - pending) /\ p + (last - p) = last
    BY <1>2, <1>3, <1>4, <1>5, <1>6, <2>0
  <2>2. m[last].role = "tool"
    BY <2>1 DEF Waits
  <2> QED BY <1>2, <1>5, <2>2
<1> QED BY <1>2, <1>3, <1>4, <1>6 DEF last

\* The result of the next call comes in.
LEMMA ResultTalks ==
  ASSUME NEW m, NEW pending, NEW p, Conversation(m), KeptFresh(m), Waits(m, pending, p),
         NEW size
  PROVE  LET told == Append(m, Reply(m[p].calls + 1 - pending, size))
         IN  /\ Conversation(told) /\ KeptFresh(told)
             /\ pending > 1 => Waits(told, pending - 1, p)
             /\ ~(pending > 1) => Whole(told, Len(told))
<1> DEFINE n == m[p].calls
           id == n + 1 - pending
           e == Reply(id, size)
           told == Append(m, e)
<1>1. /\ p \in Nat \ {0} /\ n \in Nat /\ pending \in 1..n /\ Len(m) \in Nat
      /\ Len(m) = p + n - pending /\ Whole(m, p - 1) /\ m[p].role = "assistant"
      /\ \A k \in 1..(n - pending) : m[p + k].role = "tool" /\ m[p + k].id = k
  BY WaitsLast DEF Waits
<1>2. IsMessage(e) /\ ~e.elided /\ e.role = "tool" /\ e.calls = 0 /\ e.id = id
  <2>1. id \in Nat
    <3> HIDE DEF n
    <3> QED BY <1>1
  <2> HIDE DEF id
  <2> QED BY <2>1 DEF Reply, Text, IsMessage, MessageFields
<1> HIDE DEF e
<1>3. /\ Conversation(told) /\ KeptFresh(told) /\ Len(told) = Len(m) + 1
      /\ \A i \in 1..Len(m) : told[i] = m[i]
      /\ told[Len(m) + 1] = e
  BY <1>2, GoesOnByOne
<1>4. \A k \in 1..(n - pending) : m[p + k].calls = 0
  <2> SUFFICES ASSUME NEW k \in 1..(n - pending) PROVE m[p + k].calls = 0
    OBVIOUS
  <2> HIDE DEF n
  <2>1. p + k \in 1..Len(m)
    BY <1>1
  <2> QED BY <1>1, <2>1 DEF Conversation, IsMessage
<1> HIDE DEF told, n
<1>5. Len(m) + 1 = p + id
  BY <1>1
<1>6. ASSUME NEW k \in 1..id
      PROVE  told[p + k].role = "tool" /\ told[p + k].id = k /\ told[p + k].calls = 0
  <2>1. CASE k = id
    BY <1>2, <1>3, <1>5, <2>1
  <2>2. CASE k # id
    <3>1. k \in 1..(n - pending) /\ p + k \in 1..Len(m)
      BY <1>1, <2>2
    <3> QED BY <1>1, <1>3, <1>4, <3>1
  <2> QED BY <2>1, <2>2
<1>7. p \in 1..Len(m) /\ \A i \in 1..(p - 1) : i \in 1..Len(m)
  BY <1>1
<1>8. Whole(told, p - 1) /\ told[p] = m[p]
  BY <1>1, <1>3, <1>7, WholeGrows
<1>9. ASSUME pending > 1 PROVE Waits(told, pending - 1, p)
  <2>1. /\ p \in 1..Len(told) /\ pending - 1 \in 1..n
        /\ Len(told) = p + n - (pending - 1) /\ n - (pending - 1) = id
    BY <1>1, <1>3, <1>5, <1>9
  <2>2. told[p].role = "assistant" /\ told[p].calls = n
    BY <1>1, <1>8 DEF n
  <2> QED BY <1>6, <1>8, <2>1, <2>2 DEF Waits
<1>10. ASSUME ~(pending > 1) PROVE Whole(told, Len(told))
  <2>1. id = n /\ Len(told) = p + n
    BY <1>1, <1>3, <1>5, <1>10
  <2>2. told[p].role # "tool" /\ told[p].calls = n
    BY <1>1, <1>8 DEF n
  <2> HIDE DEF id
  <2>3. Whole(told, p + n)
    BY <1>1, <1>6, <1>8, <2>1, <2>2, WholeAnswers
  <2> QED BY <2>1, <2>3
<1> QED BY <1>3, <1>9, <1>10 DEF told, e, id, n

\* A result is appended to those before it; after the last one nothing waits.
LEMMA EndToolTalks ==
  ASSUME Shape, TalkInv, NEW c \in DOMAIN kind, EndTool(c)
  PROVE  TalkInv'
<1> DEFINE locals(ok) == [chat[c] EXCEPT !.pending = @ - 1, !.proven = @ \/ ok]
           told(size) == Append(messages[c],
             Reply(messages[c][LastAssistant(messages[c])].calls + 1 - chat[c].pending, size))
<1>1. PICK size \in ResultSizes, ok \in BOOLEAN :
        IF locals(ok).pending > 0 THEN Await(c, "tool", told(size), locals(ok))
        ELSE Continue(c, "prepare", told(size), locals(ok))
  BY DEF EndTool
<1>2. call[c].pc = "tool" /\ UNCHANGED kind
  BY DEF EndTool
<1>3. /\ DOMAIN chat[c] = ChatFields /\ Conversation(messages[c]) /\ KeptFresh(messages[c])
      /\ \E p : Waits(messages[c], chat[c].pending, p)
  BY <1>2, TalkOf
<1>4. PICK p : Waits(messages[c], chat[c].pending, p)
  BY <1>3
<1>5. LastAssistant(messages[c]) = p /\ chat[c].pending \in Nat
  BY <1>3, <1>4, WaitsLast
<1>6. locals(ok).pending = chat[c].pending - 1
  BY <1>3 DEF ChatFields
<1>7. /\ Conversation(told(size)) /\ KeptFresh(told(size))
      /\ chat[c].pending > 1 => Waits(told(size), chat[c].pending - 1, p)
      /\ ~(chat[c].pending > 1) => Whole(told(size), Len(told(size)))
  BY <1>3, <1>4, <1>5, ResultTalks
<1> HIDE DEF locals, told
<1>8. CASE locals(ok).pending > 0
  <2>1. chat[c].pending > 1
    BY <1>5, <1>6, <1>8
  <2>2. Talks(told(size), "tool", locals(ok).pending)
    BY <1>6, <1>7, <2>1 DEF Talks
  <2> QED BY <1>1, <1>2, <1>8, <2>2, TalkAwait
<1>9. CASE ~(locals(ok).pending > 0)
  <2>1. ~(chat[c].pending > 1)
    BY <1>5, <1>6, <1>9
  <2>2. Talks(told(size), "prepare", locals(ok).pending)
    BY <1>7, <2>1 DEF Talks
  <2> QED BY <1>1, <1>2, <1>9, <2>2, TalkContinue
<1> QED BY <1>8, <1>9

\* A reminder follows an answer that has no calls.
LEMMA AnswerSensitiveTalks ==
  ASSUME Shape, TalkInv, NEW c \in DOMAIN kind, AnswerSensitive(c)
  PROVE  TalkInv'
<1> DEFINE locals == [chat[c] EXCEPT !.reminded = TRUE]
           reminder == <<Text("assistant", 1), Text("user", ReminderSize)>>
           m == messages[c]
           r == m \o reminder
           n == Len(m)
<1>1. \/ Finish(c, "verified") \/ Finish(c, "unverified")
      \/ Continue(c, "prepare", r, locals)
  BY DEF AnswerSensitive
<1>2. UNCHANGED kind /\ call[c].pc = "read"
  BY DEF AnswerSensitive
<1>3. Conversation(m) /\ KeptFresh(m) /\ Whole(m, n) /\ n \in Nat
  <2>1. Conversation(m) /\ KeptFresh(m) /\ Whole(m, n)
    BY <1>2, TalkOf
  <2> QED BY <2>1 DEF Conversation
<1> DEFINE T == {Text("assistant", 1), Text("user", ReminderSize)}
<1>4. /\ reminder \in Seq(T) /\ Len(reminder) = 2
      /\ reminder[1] = Text("assistant", 1) /\ reminder[2] = Text("user", ReminderSize)
  OBVIOUS
<1> HIDE DEF reminder, m, T
<1>5. /\ IsMessage(reminder[1]) /\ ~reminder[1].elided /\ reminder[1].calls = 0
      /\ IsMessage(reminder[2]) /\ ~reminder[2].elided /\ reminder[2].calls = 0
      /\ reminder[1].role = "assistant" /\ reminder[2].role = "user"
  BY <1>4 DEF Text, IsMessage, MessageFields
<1>6. \A i \in 1..2 : i = 1 \/ i = 2
  OBVIOUS
<1>7. \A i \in 1..Len(reminder) : IsMessage(reminder[i]) /\ ~reminder[i].elided
  BY <1>4, <1>5, <1>6
<1>8. /\ Conversation(r) /\ KeptFresh(r) /\ Len(r) = n + 2
      /\ \A i \in 1..n : r[i] = m[i]
      /\ \A i \in 1..2 : r[n + i] = reminder[i]
  <2>1. /\ Conversation(r) /\ KeptFresh(r) /\ Len(r) = n + Len(reminder)
        /\ \A i \in 1..n : r[i] = m[i]
        /\ \A i \in 1..Len(reminder) : r[n + i] = reminder[i]
    <3>1. Conversation(m) /\ KeptFresh(m)
      BY <1>3
    <3>2. reminder \in Seq(T)
      BY <1>4
    <3> HIDE DEF locals
    <3> QED BY <1>7, <3>1, <3>2, GoesOn
  <2> HIDE DEF r, n
  <2> QED BY <1>4, <2>1
<1> HIDE DEF r, n
<1>9. Whole(r, n + 2)
  <2>1. r[n + 1] = reminder[1] /\ r[n + 1 + 1] = reminder[2]
    <3>1. 1 \in 1..2 /\ 2 \in 1..2 /\ n + 1 + 1 = n + 2
      BY <1>3
    <3> QED BY <1>8, <3>1
  <2>2. Whole(r, n)
    BY <1>3, <1>8, WholeGrows
  <2>3. Whole(r, n + 1)
    BY <1>3, <1>5, <2>1, <2>2, WholeSpeaks
  <2>4. n + 1 \in Nat /\ r[n + 1 + 1].calls = 0 /\ r[n + 1 + 1].role # "tool"
    BY <1>3, <1>5, <2>1
  <2>5. Whole(r, n + 1 + 1)
    BY <2>3, <2>4, WholeSpeaks
  <2> QED BY <1>3, <2>5
<1> HIDE DEF locals
<1>10. Talks(r, "prepare", locals.pending)
  BY <1>8, <1>9 DEF Talks
<1> QED BY <1>1, <1>2, <1>10, TalkFinish, TalkContinue

\* The inductive step.
LEMMA TalkStep == RequestInv /\ TalkInv /\ [Next]_vars => TalkInv'
<1> SUFFICES ASSUME RequestInv, TalkInv, [Next]_vars PROVE TalkInv'
  OBVIOUS
<1>1. Shape
  BY DEF RequestInv
<1>2. CASE Next
  BY <1>1, <1>2, NextCases, StartChatTalks, RefuseMarkersTalks, SendRequestTalks, ExpireTalks,
     EndingTalks, PostTalks, RunToolsTalks, RefuseToolsTalks, EndToolTalks,
     AnswerSensitiveTalks DEF Other
<1>3. CASE UNCHANGED vars
  <2>1. UNCHANGED <<kind, call, chat, messages>>
    BY <1>3 DEF vars
  <2> QED BY <2>1 DEF TalkInv
<1> QED BY <1>2, <1>3

\* Before the first request there is no conversation.
LEMMA TalkInit == Init => TalkInv
  BY DEF Init, TalkInv

\* Every request answers each tool call it carries, in the order of the calls:
\* when tools ran or failed (EndTool), past the cap (RefuseTools), after a
\* reminder (AnswerSensitive), after eliding, cutting and every fall-back.
THEOREM ToolCallsHaveResults == Spec => []ToolCallsAnswered
<1>1. Shape /\ TalkInv => ToolCallsAnswered
  <2> SUFFICES ASSUME Shape, TalkInv, NEW c \in DOMAIN kind, InFlight(c)
               PROVE  LET msgs == messages[c]
                          Asked(i) == \E j \in 1..(i - 1) :
                                        msgs[i].id = i - j /\ msgs[j].calls >= msgs[i].id
                      IN  \A i \in DOMAIN msgs :
                            /\ \A id \in 1..msgs[i].calls :
                                 i + id \in DOMAIN msgs /\ msgs[i + id].role = "tool"
                                 /\ msgs[i + id].id = id
                            /\ msgs[i].role = "tool" => Asked(i)
    BY DEF ToolCallsAnswered
  <2>1. Whole(messages[c], Len(messages[c])) /\ Conversation(messages[c])
    BY TalkOf DEF InFlight
  <2>2. DOMAIN messages[c] = 1..Len(messages[c])
    BY <2>1 DEF Conversation
  <2> QED BY <2>1, <2>2 DEF Whole
<1> QED BY <1>1, InitRequest, RequestStep, TalkInit, TalkStep, PTL DEF Spec, RequestInv

\* elide_consumed_tool_results puts a stub for exactly the results that precede
\* the last answer, also after a fall-back that prepares the request again; what
\* the trimming of a request takes from the others is not said here.
THEOREM FreshResultsAreSent == Spec => []FreshResultsSent
<1>1. Shape /\ TalkInv => FreshResultsSent
  <2> SUFFICES ASSUME Shape, TalkInv, NEW c \in DOMAIN kind, InFlight(c)
               PROVE  \A i \in DOMAIN messages[c] : messages[c][i].role = "tool" =>
                        messages[c][i].elided = (i < LastAssistant(messages[c]))
    BY DEF FreshResultsSent
  <2>1. AllElided(messages[c]) /\ Conversation(messages[c])
    BY TalkOf DEF InFlight
  <2>2. DOMAIN messages[c] = 1..Len(messages[c])
    BY <2>1 DEF Conversation
  <2> QED BY <2>1, <2>2 DEF AllElided
<1> QED BY <1>1, InitRequest, RequestStep, TalkInit, TalkStep, PTL DEF Spec, RequestInv
=============================================================================
