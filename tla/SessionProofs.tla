---------------------------- MODULE SessionProofs ---------------------------
(***************************************************************************)
(* What a session sends and what it uses, for any number of messages and   *)
(* agents: the requests to the model are well-formed, and the agents       *)
(* overshoot the token quota by a bounded amount.                          *)
(***************************************************************************)
EXTENDS Conversation, Metering, TLAPS, SequenceTheorems, FiniteSetTheorems

-----------------------------------------------------------------------------
(* The requests to the model.                                              *)

Message == [role : {"user", "assistant"}, uses : Nat, results : Seq(Nat), prompt : BOOLEAN]

\* The answers to the first n tool uses of a message, in order.
Upto(n) == [j \in 1..n |-> j]

\* Messages alternate, starting with the user's; only the assistant's have tool
\* uses, which the next message answers; results answer the message before.
Chain(ms) ==
  \A k \in 1..Len(ms) :
    /\ ms[k].role = IF k % 2 = 1 THEN "user" ELSE "assistant"
    /\ ms[k].role = "user" => ms[k].uses = 0
    /\ ms[k].uses > 0 /\ k < Len(ms) => ms[k + 1].results = Upto(ms[k].uses)
    /\ ms[k].results # <<>> => k > 1 /\ ms[k - 1].uses > 0

Serving == {"call", "read", "tool", "unwind"}

\* Where the loop is tells how the conversation ends: a model call follows a
\* user message, the next input an answered one, and a response being served
\* is the last message, with the calls before the current one answered.
LoopInv ==
  /\ ConversationTypeOK
  /\ Chain(messages)
  /\ at = "input" /\ messages # <<>> => messages[Len(messages)].uses = 0
  /\ at \in {"request", "llm"} => messages # <<>> /\ messages[Len(messages)].role = "user"
  /\ at \in Serving =>
       /\ messages # <<>>
       /\ messages[Len(messages)].uses = calls
       /\ Len(results) < calls
       /\ results = Upto(Len(results))

-----------------------------------------------------------------------------
(* Sequences of answers and of messages.                                   *)

\* The answers to n calls are a sequence of n numbers.
LEMMA UptoSeq ==
  ASSUME NEW n \in Nat
  PROVE  /\ Upto(n) \in Seq(Nat)
         /\ Len(Upto(n)) = n
         /\ Upto(n) # <<>> <=> n > 0
<1>1. Upto(n) \in [1..n -> Nat]
  BY DEF Upto
<1>2. Upto(n) \in Seq(Nat)
  BY <1>1, SeqDef, Zenon
<1>3. Len(Upto(n)) = n
  BY <1>2, LenProperties DEF Upto
<1> QED
  BY <1>2, <1>3, EmptySeq

\* The answer to one more call (execute_tool, then result_blocks.push).
LEMMA UptoAppend ==
  ASSUME NEW n \in Nat
  PROVE  Append(Upto(n), n + 1) = Upto(n + 1)
<1>1. Append(Upto(n), n + 1) \in Seq(Nat) /\ Len(Append(Upto(n), n + 1)) = n + 1
  BY UptoSeq, AppendProperties
<1>2. Upto(n + 1) \in Seq(Nat) /\ Len(Upto(n + 1)) = n + 1
  BY UptoSeq
<1>3. \A i \in 1..(n + 1) : Append(Upto(n), n + 1)[i] = Upto(n + 1)[i]
  BY UptoSeq, AppendProperties DEF Upto
<1> QED
  BY <1>1, <1>2, <1>3, SeqEqual, Zenon

\* A message at the end of a conversation continues it when it has the other
\* role and answers the tool uses of the message before, and nothing else.
LEMMA ChainAppend ==
  ASSUME NEW ms \in Seq(Message), Chain(ms), NEW m \in Message,
         m.role = IF Len(ms) % 2 = 0 THEN "user" ELSE "assistant",
         m.role = "user" => m.uses = 0,
         ms # <<>> /\ ms[Len(ms)].uses > 0 => m.results = Upto(ms[Len(ms)].uses),
         m.results # <<>> => ms # <<>> /\ ms[Len(ms)].uses > 0
  PROVE  /\ Append(ms, m) \in Seq(Message)
         /\ Chain(Append(ms, m))
         /\ Append(ms, m) # <<>>
         /\ Append(ms, m)[Len(Append(ms, m))] = m
<1> DEFINE new == Append(ms, m)
<1>1. /\ new \in Seq(Message) /\ new # <<>> /\ Len(new) = Len(ms) + 1
      /\ \A i \in 1..Len(ms) : new[i] = ms[i]
      /\ new[Len(ms) + 1] = m
      /\ Len(ms) \in Nat
  BY AppendProperties, LenProperties
<1>2. ASSUME NEW k \in 1..Len(new)
      PROVE  /\ new[k].role = IF k % 2 = 1 THEN "user" ELSE "assistant"
             /\ new[k].role = "user" => new[k].uses = 0
             /\ new[k].uses > 0 /\ k < Len(new) => new[k + 1].results = Upto(new[k].uses)
             /\ new[k].results # <<>> => k > 1 /\ new[k - 1].uses > 0
  <2>1. CASE k < Len(ms)
    BY <1>1, <1>2, <2>1 DEF Chain
  <2>2. CASE k = Len(ms)
    <3>1. ms # <<>>
      BY <2>2, <1>2, EmptySeq
    <3> QED
      BY <1>1, <1>2, <2>2, <3>1 DEF Chain
  <2>3. CASE k = Len(ms) + 1
    <3>1. new[k] = m /\ ~(k < Len(new))
      BY <1>1, <2>3
    <3>2. k % 2 = 1 <=> Len(ms) % 2 = 0
      BY <1>1, <2>3
    <3>3. m.results # <<>> => k > 1 /\ new[k - 1].uses > 0
      <4>1. ms # <<>> => Len(ms) \in 1..Len(ms)
        BY EmptySeq
      <4> QED
        BY <1>1, <2>3, <4>1
    <3> QED
      BY <3>1, <3>2, <3>3, Zenon
  <2> QED
    BY <1>1, <1>2, <2>1, <2>2, <2>3
<1> HIDE DEF new
<1>3. Chain(new)
  BY <1>2, Zenon DEF Chain
<1> QED
  BY <1>1, <1>3, Zenon DEF new

\* The role of the last message says how many there are, and the other way
\* round.
LEMMA LastMessage ==
  ASSUME NEW ms \in Seq(Message), Chain(ms), ms # <<>>
  PROVE  /\ Len(ms) \in Nat \ {0}
         /\ ms[Len(ms)] \in Message
         /\ ms[Len(ms)].role = IF Len(ms) % 2 = 1 THEN "user" ELSE "assistant"
         /\ ms[Len(ms)].role = "user" => ms[Len(ms)].uses = 0
<1>1. Len(ms) \in Nat \ {0} /\ Len(ms) \in 1..Len(ms)
  BY EmptySeq
<1> QED
  BY <1>1, ElementOfSeq, Zenon DEF Chain

\* A prompt added to a last user message changes neither role nor results.
LEMMA ChainMerge ==
  ASSUME NEW ms \in Seq(Message), Chain(ms), ms # <<>>
  PROVE  LET new == [ms EXCEPT ![Len(ms)].prompt = TRUE]
         IN  /\ new \in Seq(Message)
             /\ Chain(new)
             /\ new # <<>>
             /\ Len(new) = Len(ms)
             /\ new[Len(ms)].role = ms[Len(ms)].role
<1> DEFINE new == [ms EXCEPT ![Len(ms)].prompt = TRUE]
<1>1. Len(ms) \in 1..Len(ms) /\ Len(ms) \in Nat \ {0}
  BY EmptySeq
<1>2. ms[Len(ms)] \in Message
  BY <1>1, ElementOfSeq, Zenon
<1>3. [ms[Len(ms)] EXCEPT !.prompt = TRUE] \in Message
  BY <1>2, Zenon DEF Message
<1>4. /\ new \in Seq(Message) /\ Len(new) = Len(ms)
      /\ \A j \in 1..Len(ms) :
           new[j] = IF j = Len(ms) THEN [ms[Len(ms)] EXCEPT !.prompt = TRUE] ELSE ms[j]
  BY <1>1, <1>3, ExceptSeq
<1>5. \A j \in 1..Len(ms) :
        new[j].role = ms[j].role /\ new[j].uses = ms[j].uses /\ new[j].results = ms[j].results
  BY <1>2, <1>4 DEF Message
<1>6. new # <<>>
  BY <1>1, <1>4, EmptySeq, Zenon
<1> HIDE DEF new
<1>7. Chain(new)
  BY <1>1, <1>4, <1>5 DEF Chain
<1> QED
  BY <1>1, <1>4, <1>5, <1>6, <1>7, Zenon DEF new

-----------------------------------------------------------------------------
(* The loop.                                                               *)

\* push_user_prompt leaves a conversation that ends with a user message,
\* whether it merges the prompt or appends it.
LEMMA PromptPushed ==
  ASSUME LoopInv, at = "input"
  PROVE  /\ PushPrompt \in Seq(Message)
         /\ Chain(PushPrompt)
         /\ PushPrompt # <<>>
         /\ PushPrompt[Len(PushPrompt)].role = "user"
<1>1. messages \in Seq(Message) /\ Chain(messages)
  BY Zenon DEF LoopInv, ConversationTypeOK, Message
<1>2. CASE messages # <<>> /\ messages[Len(messages)].role = "user"
  <2>1. PushPrompt = [messages EXCEPT ![Len(messages)].prompt = TRUE]
    BY <1>2, Zenon DEF PushPrompt
  <2> QED
    BY <1>1, <1>2, <2>1, ChainMerge, Zenon
<1>3. CASE ~(messages # <<>> /\ messages[Len(messages)].role = "user")
  <2>1. PushPrompt = Append(messages, Prompt)
    BY <1>3, Zenon DEF PushPrompt
  <2>2. Prompt \in Message /\ Prompt.role = "user" /\ Prompt.uses = 0 /\ Prompt.results = <<>>
    BY EmptySeq, Zenon DEF Prompt, Message
  <2>3. Len(messages) % 2 = 0
    <3>1. CASE messages = <<>>
      BY <3>1, EmptySeq
    <3>2. CASE messages # <<>>
      BY <1>1, <1>3, <3>2, LastMessage
    <3> QED
      BY <3>1, <3>2, Zenon
  <2>4. ~(messages # <<>> /\ messages[Len(messages)].uses > 0)
    BY DEF LoopInv
  <2> QED
    BY <1>1, <2>1, <2>2, <2>3, <2>4, ChainAppend, Zenon
<1> QED
  BY <1>2, <1>3, Zenon

\* The results of all the calls of the response being served continue the
\* conversation, whether the tools gave them or they are synthetic.
LEMMA ResultsPushed ==
  ASSUME LoopInv, at \in Serving
  PROVE  LET new == Append(messages, Results(Upto(calls)))
         IN  /\ new \in Seq(Message)
             /\ Chain(new)
             /\ new # <<>>
             /\ new[Len(new)].role = "user"
             /\ new[Len(new)].uses = 0
<1>1. messages \in Seq(Message) /\ Chain(messages) /\ messages # <<>>
  BY Zenon DEF LoopInv, ConversationTypeOK, Message
<1>2. calls \in Nat /\ Len(results) \in Nat /\ Len(results) < calls
  BY LenProperties, Zenon DEF LoopInv, ConversationTypeOK
<1>3. Upto(calls) \in Seq(Nat) /\ Upto(calls) # <<>>
  BY <1>2, UptoSeq
<1>4. /\ Results(Upto(calls)) \in Message
      /\ Results(Upto(calls)).role = "user"
      /\ Results(Upto(calls)).uses = 0
      /\ Results(Upto(calls)).results = Upto(calls)
  BY <1>3, Zenon DEF Results, Message
<1>5. messages[Len(messages)].uses = calls /\ calls > 0
  BY <1>2 DEF LoopInv
<1>6. Len(messages) % 2 = 0
  BY <1>1, <1>5, LastMessage
<1> QED
  BY <1>1, <1>3, <1>4, <1>5, <1>6, ChainAppend, Zenon

\* Synthetic results answer exactly the calls that have none.
LEMMA SyntheticAll ==
  ASSUME LoopInv, at \in Serving
  PROVE  Synthetic = Upto(calls)
<1> DEFINE m == Len(results)
           rest == [k \in 1..(calls - m) |-> m + k]
<1>1. m \in Nat /\ calls \in Nat /\ m < calls /\ results = Upto(m)
  BY LenProperties, Zenon DEF LoopInv, ConversationTypeOK
<1>2. rest \in Seq(Nat) /\ Len(rest) = calls - m
  <2>1. rest \in [1..(calls - m) -> Nat] /\ calls - m \in Nat
    BY <1>1
  <2>2. rest \in Seq(Nat)
    BY <2>1, SeqDef
  <2> QED
    BY <1>1, <2>2, LenProperties
<1>3. /\ Upto(m) \o rest \in Seq(Nat)
      /\ Len(Upto(m) \o rest) = calls
      /\ \A i \in 1..calls : (Upto(m) \o rest)[i] = IF i <= m THEN Upto(m)[i] ELSE rest[i - m]
  <2> HIDE DEF rest
  <2>1. Upto(m) \in Seq(Nat) /\ Len(Upto(m)) = m
    BY <1>1, UptoSeq, Zenon
  <2>2. m + (calls - m) = calls
    BY <1>1
  <2>3. /\ Upto(m) \o rest \in Seq(Nat)
        /\ Len(Upto(m) \o rest) = Len(Upto(m)) + Len(rest)
        /\ \A i \in 1..(Len(Upto(m)) + Len(rest)) :
             (Upto(m) \o rest)[i] = IF i <= Len(Upto(m)) THEN Upto(m)[i] ELSE rest[i - Len(Upto(m))]
    BY <1>2, <2>1, ConcatProperties, Zenon
  <2> QED
    BY <1>2, <2>1, <2>2, <2>3, Zenon
<1>4. \A i \in 1..calls : (Upto(m) \o rest)[i] = Upto(calls)[i]
  BY <1>1, <1>3 DEF Upto
<1>5. Upto(m) \o rest = Upto(calls)
  BY <1>1, <1>3, <1>4, UptoSeq, SeqEqual, Zenon
<1> QED
  BY <1>1, <1>5, Zenon DEF Synthetic

\* After a call's result, the next call is served or the results become a
\* message.
LEMMA AnsweredStep ==
  ASSUME LoopInv, at \in Serving, Answered(Append(results, Len(results) + 1)),
         UNCHANGED <<calls, stop, tool, headless, shutdown, interrupted>>
  PROVE  LoopInv'
<1> DEFINE answers == Append(results, Len(results) + 1)
<1>1. Len(results) \in Nat /\ calls \in Nat /\ results \in Seq(Nat)
  BY LenProperties, Zenon DEF LoopInv, ConversationTypeOK
<1>2. results = Upto(Len(results)) /\ Len(results) < calls
  BY Zenon DEF LoopInv
<1>3. answers = Upto(Len(results) + 1)
  BY <1>1, <1>2, UptoAppend, Zenon
<1>4. answers \in Seq(Nat) /\ Len(answers) = Len(results) + 1
  BY <1>1, <1>3, UptoSeq
<1>5. CASE Len(answers) < calls
  <2>1. results' = answers /\ at' = "call" /\ UNCHANGED <<messages, failures, end>>
    BY <1>5, Zenon DEF Answered
  <2> QED
    BY <1>3, <1>4, <1>5, <2>1, Zenon DEF LoopInv, ConversationTypeOK, Places, Serving
<1>6. CASE ~(Len(answers) < calls)
  <2>1. Len(results) + 1 = calls
    BY <1>1, <1>2, <1>4, <1>6
  <2>2. messages' = Append(messages, Results(Upto(calls))) /\ results' = <<>>
    BY <1>3, <1>6, <2>1, Zenon DEF Answered
  <2>3. /\ messages' \in Seq(Message) /\ Chain(messages') /\ messages' # <<>>
        /\ messages'[Len(messages')].role = "user" /\ messages'[Len(messages')].uses = 0
    BY <2>2, ResultsPushed, Zenon
  <2>4. results' \in Seq(Nat)
    BY <2>2, EmptySeq, Zenon
  <2>5. at' \in {"request", "input"} /\ failures' \in Nat /\ UNCHANGED end
    BY <1>6 DEF Answered, NextInput, LoopInv, ConversationTypeOK
  <2> QED
    BY <2>3, <2>4, <2>5, Zenon DEF LoopInv, ConversationTypeOK, Places, Serving, Message
<1> QED
  BY <1>5, <1>6, Zenon

\* A step that leaves the conversation alone and ends the session, waits for
\* input after a user message, or goes on serving the response.
LEMMA QuietStep ==
  ASSUME LoopInv, ConversationTypeOK', UNCHANGED <<messages, calls, results>>,
         \/ at' = "ended"
         \/ at' = at
         \/ at \in {"request", "llm"} /\ at' \in {"request", "llm", "input"}
         \/ at \in Serving /\ at' \in Serving
  PROVE  LoopInv'
<1>1. messages \in Seq(Message)
  BY Zenon DEF LoopInv, ConversationTypeOK, Message
<1>2. at \in {"request", "llm"} => messages[Len(messages)].uses = 0
  BY <1>1, LastMessage, Zenon DEF LoopInv
<1> QED
  BY <1>2, Zenon DEF LoopInv, Serving

\* Every step of the loop keeps the invariant.
LEMMA LoopStep == LoopInv /\ [ConversationNext]_conversationVars => LoopInv'
<1> SUFFICES ASSUME LoopInv, [ConversationNext]_conversationVars PROVE LoopInv'
  BY Zenon
<1> USE DEF response, context
<1>1. CASE RequestShutdown \/ ApplyInterrupt
  <2>1. ConversationTypeOK'
    BY <1>1, Zenon DEF RequestShutdown, ApplyInterrupt, LoopInv, ConversationTypeOK
  <2> QED
    BY <1>1, <2>1, QuietStep, Zenon DEF RequestShutdown, ApplyInterrupt
<1>2. CASE TakeInput
  <2>1. messages' = PushPrompt /\ at' = "request"
        /\ UNCHANGED <<calls, stop, results, tool, failures, headless, shutdown, end>>
        /\ interrupted' = FALSE
    BY <1>2, Zenon DEF TakeInput
  <2>2. /\ messages' \in Seq(Message) /\ Chain(messages') /\ messages' # <<>>
        /\ messages'[Len(messages')].role = "user"
    BY <1>2, <2>1, PromptPushed, Zenon DEF TakeInput
  <2> QED
    BY <2>1, <2>2, Zenon DEF LoopInv, ConversationTypeOK, Places, Serving, Message
<1>3. CASE InputEnds
  <2>1. ConversationTypeOK' /\ at' = "ended" /\ UNCHANGED <<messages, calls, results>>
    BY <1>3, Zenon DEF InputEnds, EndSession, LoopInv, ConversationTypeOK, Places
  <2> QED
    BY <2>1, QuietStep, Zenon
<1>4. CASE ModelAborted
  <2>1. ConversationTypeOK' /\ at' \in {"ended", "input"} /\ UNCHANGED <<messages, calls, results>>
    BY <1>4 DEF ModelAborted, EndSession, NextInput, LoopInv, ConversationTypeOK, Places
  <2> QED
    BY <1>4, <2>1, QuietStep, Zenon DEF ModelAborted
<1>5. CASE ModelRequest
  <2>1. ConversationTypeOK'
    BY <1>5, Zenon DEF ModelRequest, LoopInv, ConversationTypeOK, Places
  <2> QED
    BY <1>5, <2>1, QuietStep, Zenon DEF ModelRequest
<1>6. CASE ModelFails
  <2>1. ConversationTypeOK' /\ at' \in {"ended", "input"} /\ UNCHANGED <<messages, calls, results>>
    <3>1. CASE CountFailure
      BY <1>6, <3>1 DEF ModelFails, CountFailure, LoopInv, ConversationTypeOK, Places
    <3>2. CASE EndSession("script")
      BY <1>6, <3>2, Zenon DEF ModelFails, EndSession, LoopInv, ConversationTypeOK, Places
    <3> QED
      BY <1>6, <3>1, <3>2, Zenon DEF ModelFails
  <2> QED
    BY <1>6, <2>1, QuietStep, Zenon DEF ModelFails
<1>7. ASSUME NEW n \in 0..MaxCalls, NEW toolUse \in BOOLEAN, ModelResponds(n, toolUse)
      PROVE  LoopInv'
  <2>1. n \in Nat
    BY ConversationAssumption
  <2>2. Assistant(n) \in Message /\ Assistant(n).role = "assistant"
        /\ Assistant(n).uses = n /\ Assistant(n).results = <<>>
    BY <2>1, EmptySeq, Zenon DEF Assistant, Message
  <2>3. messages \in Seq(Message) /\ Chain(messages) /\ messages # <<>>
        /\ messages[Len(messages)].role = "user"
    BY <1>7, Zenon DEF ModelResponds, LoopInv, ConversationTypeOK, Message
  <2>4. Len(messages) % 2 # 0 /\ messages[Len(messages)].uses = 0
    BY <2>3, LastMessage
  <2>5. messages' = Append(messages, Assistant(n)) /\ calls' = n /\ results' = <<>>
        /\ stop' = toolUse /\ UNCHANGED <<tool, headless, shutdown, interrupted>>
    BY <1>7, Zenon DEF ModelResponds
  <2>6. /\ messages' \in Seq(Message) /\ Chain(messages') /\ messages' # <<>>
        /\ messages'[Len(messages')] = Assistant(n)
    BY <2>2, <2>3, <2>4, <2>5, ChainAppend
  <2>7. results' \in Seq(Nat) /\ Len(results') = 0 /\ results' = Upto(0)
    BY <2>5, EmptySeq, UptoSeq, Zenon
  <2>8. /\ n = 0 => at' = "input"
        /\ n # 0 => at' = "call"
        /\ failures' \in Nat /\ UNCHANGED end
    BY <1>7 DEF ModelResponds, NextInput, LoopInv, ConversationTypeOK
  <2>9. ConversationTypeOK'
    BY <2>1, <2>5, <2>6, <2>7, <2>8, Zenon DEF LoopInv, ConversationTypeOK, Places, Message
  <2>10. CASE n = 0
    BY <2>2, <2>6, <2>8, <2>9, <2>10, Zenon DEF LoopInv, Serving
  <2>11. CASE n # 0
    BY <2>1, <2>2, <2>5, <2>6, <2>7, <2>8, <2>9, <2>11 DEF LoopInv, Serving
  <2> QED
    BY <2>10, <2>11, Zenon
<1>8. ASSUME NEW kind \in Tools, CallTool(kind) PROVE LoopInv'
  <2>1. ConversationTypeOK' /\ at' \in Serving /\ at \in Serving /\ UNCHANGED <<messages, calls, results>>
    BY <1>8, Zenon DEF CallTool, LoopInv, ConversationTypeOK, Places, Serving
  <2> QED
    BY <2>1, QuietStep, Zenon
<1>9. CASE ReadDone
  <2>1. CASE at' = "tool" /\ UNCHANGED <<messages, results, failures, end>>
    <3>1. ConversationTypeOK' /\ at' \in Serving /\ at \in Serving /\ UNCHANGED calls
      BY <1>9, <2>1, Zenon DEF ReadDone, LoopInv, ConversationTypeOK, Places, Serving
    <3> QED
      BY <2>1, <3>1, QuietStep, Zenon
  <2>2. CASE Answered(Append(results, Len(results) + 1))
    BY <1>9, <2>2, AnsweredStep, Zenon DEF ReadDone, Serving
  <2> QED
    BY <1>9, <2>1, <2>2, Zenon DEF ReadDone
<1>10. CASE ToolReturns
  BY <1>10, AnsweredStep, Zenon DEF ToolReturns, Serving
<1>11. CASE ForwardInterrupt
  <2>1. ConversationTypeOK' /\ at' \in Serving /\ at \in Serving /\ UNCHANGED <<messages, calls, results>>
    BY <1>11, Zenon DEF ForwardInterrupt, LoopInv, ConversationTypeOK, Places, Serving
  <2> QED
    BY <2>1, QuietStep, Zenon
<1>12. CASE CallsInterrupted
  <2>1. at \in Serving
    BY <1>12, Zenon DEF CallsInterrupted, Serving
  <2>2. Synthetic = Upto(calls)
    BY <2>1, SyntheticAll, Zenon
  <2>3. messages' = Append(messages, Results(Upto(calls))) /\ results' = <<>>
        /\ at' = "input" /\ failures' = 0
        /\ UNCHANGED <<calls, stop, tool, headless, shutdown, interrupted, end>>
    BY <1>12, <2>2, Zenon DEF CallsInterrupted, NextInput
  <2>4. /\ messages' \in Seq(Message) /\ Chain(messages') /\ messages' # <<>>
        /\ messages'[Len(messages')].uses = 0
    BY <2>1, <2>3, ResultsPushed, Zenon
  <2>5. results' \in Seq(Nat)
    BY <2>3, EmptySeq, Zenon
  <2> QED
    BY <2>3, <2>4, <2>5, Zenon DEF LoopInv, ConversationTypeOK, Places, Serving, Message
<1>13. CASE CallsShutdown \/ ToolFails \/ AwaitFails
  <2>1. ConversationTypeOK' /\ at' = "ended" /\ UNCHANGED <<messages, calls, results>>
    BY <1>13, Zenon DEF CallsShutdown, ToolFails, AwaitFails, EndSession, LoopInv, ConversationTypeOK, Places
  <2> QED
    BY <2>1, QuietStep, Zenon
<1>14. CASE UNCHANGED conversationVars
  BY <1>14, Zenon DEF conversationVars, LoopInv, ConversationTypeOK
<1> QED
  BY <1>1, <1>2, <1>3, <1>4, <1>5, <1>6, <1>7, <1>8, <1>9, <1>10, <1>11, <1>12, <1>13, <1>14, Zenon
  DEF ConversationNext, ConversationEnded

\* A conversation starts empty.
LEMMA LoopInit == ConversationInit => LoopInv
<1> SUFFICES ASSUME ConversationInit PROVE LoopInv
  BY Zenon
<1>1. messages \in Seq(Message) /\ results \in Seq(Nat) /\ Chain(messages)
  BY EmptySeq DEF ConversationInit, Chain
<1> QED
  BY <1>1, Zenon DEF ConversationInit, LoopInv, ConversationTypeOK, Places, Tools, Serving, Message

-----------------------------------------------------------------------------
(* The theorems.                                                           *)

\* The loop's state keeps its types, for any bounds.
THEOREM ConversationTyped == ConversationSpec => []ConversationTypeOK
<1>1. LoopInv => ConversationTypeOK
  BY Zenon DEF LoopInv
<1> QED
  BY <1>1, LoopInit, LoopStep, PTL DEF ConversationSpec

\* Every request sent to the model is well-formed (drive_inner,
\* push_user_prompt): interrupts, failures, shutdowns and failing tools at any
\* point of a turn leave no tool use unanswered and no two messages of one role
\* in a row by the time the model is called again.
THEOREM RequestsWellFormed == ConversationSpec => []RequestWellFormed
<1>1. LoopInv => RequestWellFormed
  <2> SUFFICES ASSUME LoopInv, at = "llm" PROVE WellFormed
    BY Zenon DEF RequestWellFormed
  <2>1. messages \in Seq(Message) /\ Chain(messages) /\ messages # <<>>
        /\ messages[Len(messages)].role = "user"
    BY Zenon DEF LoopInv, ConversationTypeOK, Message
  <2>2. Len(messages) % 2 = 1 /\ messages[Len(messages)].uses = 0 /\ Len(messages) \in Nat
    BY <2>1, LastMessage, Zenon
  <2>3. ASSUME NEW k \in 1..Len(messages) PROVE AnsweredInTurn(k)
    BY <2>1, <2>2, <2>3 DEF AnsweredInTurn, Chain, Upto
  <2> QED
    BY <2>1, <2>2, <2>3, Zenon DEF WellFormed, Chain
<1> QED
  BY <1>1, LoopInit, LoopStep, PTL DEF ConversationSpec

-----------------------------------------------------------------------------
(* Metering.                                                               *)

\* Agents whose request will be charged in full: past the quota check, or in it
\* with a first load that will let them pass.
Uncharged ==
  {a \in Callers : \/ call[a] \in {"sending", "answered"}
                   \/ call[a] = "checking" /\ summed[a] + output < Quota}

\* Agents between the two additions of UsageMeter::record.
HalfCharged == {a \in Callers : call[a] = "halfRecorded"}

CallStates == {"idle", "checking", "sending", "answered", "halfRecorded", "recorded",
               "halfLoaded", "loaded", "numbered"}

MeterType ==
  /\ input \in Nat /\ output \in Nat
  /\ call \in [Callers -> CallStates]
  /\ summed \in [Callers -> Nat]

\* Once the quota is used up, what has been used and what the requests under way
\* will add is below the bound: no check that begins then lets an agent pass, and
\* no agent has two requests under way.
ChargeBounded ==
  /\ MeterType
  /\ Used >= Quota =>
       Used + 2 * Cardinality(Uncharged) + Cardinality(HalfCharged)
         < Quota + 2 * Cardinality(Callers)

\* The two sets are finite, and together no larger than the set of agents.
LEMMA ChargedSets ==
  /\ IsFiniteSet(Uncharged) /\ IsFiniteSet(HalfCharged)
  /\ Cardinality(Uncharged) \in Nat /\ Cardinality(HalfCharged) \in Nat
  /\ Cardinality(Callers) \in Nat
  /\ Cardinality(Uncharged) + Cardinality(HalfCharged) <= Cardinality(Callers)
<1>1. IsFiniteSet(Callers)
  BY MeteringAssumption, Zenon
<1>2. Uncharged \in SUBSET Callers /\ HalfCharged \in SUBSET Callers
  BY Zenon DEF Uncharged, HalfCharged
<1>3. IsFiniteSet(Uncharged) /\ IsFiniteSet(HalfCharged)
  BY <1>1, <1>2, FS_Subset, Zenon
<1>4. Uncharged \cap HalfCharged = {}
  BY Zenon DEF Uncharged, HalfCharged
<1>5. Cardinality(Uncharged \cup HalfCharged)
        = Cardinality(Uncharged) + Cardinality(HalfCharged) - Cardinality({})
  BY <1>3, <1>4, FS_Union
<1>6. Uncharged \cup HalfCharged \in SUBSET Callers
  BY <1>2, Zenon
<1>7. Cardinality(Uncharged \cup HalfCharged) <= Cardinality(Callers)
  BY <1>1, <1>6, FS_Subset, Zenon
<1> QED
  BY <1>1, <1>3, <1>5, <1>7, FS_EmptySet, FS_CardinalityType

\* No agent is in a request at the start of a session, and there is at least the
\* top-level agent.
LEMMA ChargeInit == MeteringInit => ChargeBounded
<1> SUFFICES ASSUME MeteringInit PROVE ChargeBounded
  BY Zenon
<1>1. Uncharged = {} /\ HalfCharged = {}
  BY Zenon DEF MeteringInit, Uncharged, HalfCharged
<1>2. Cardinality(Callers) \in Nat /\ Cardinality(Callers) # 0
  BY MeteringAssumption, FS_EmptySet, FS_CardinalityType, Zenon
<1>3. Quota \in Nat
  BY MeteringAssumption, Zenon
<1>4. call \in [Callers -> CallStates] /\ summed \in [Callers -> Nat]
  BY DEF MeteringInit, CallStates
<1> QED
  BY <1>1, <1>2, <1>3, <1>4, FS_EmptySet DEF MeteringInit, ChargeBounded, MeterType, Used

\* A step that charges nothing and, once the quota is used up, lets no agent pass
\* that would not have passed before, keeps the bound.
LEMMA NoNewCharge ==
  ASSUME ChargeBounded, MeterType', input' = input, output' = output,
         Used >= Quota => Uncharged' \in SUBSET Uncharged,
         HalfCharged' \in SUBSET HalfCharged
  PROVE  ChargeBounded'
<1> USE MeteringAssumption
<1>1. Used' = Used
  BY DEF Used
<1>2. CASE Used >= Quota
  <2>1. Cardinality(Uncharged') <= Cardinality(Uncharged)
    BY <1>2, ChargedSets, FS_Subset, Zenon
  <2>2. Cardinality(HalfCharged') <= Cardinality(HalfCharged)
    BY ChargedSets, FS_Subset, Zenon
  <2>3. IsFiniteSet(Uncharged') /\ IsFiniteSet(HalfCharged')
    BY <1>2, ChargedSets, FS_Subset, Zenon
  <2>4. Cardinality(Uncharged') \in Nat /\ Cardinality(HalfCharged') \in Nat
    BY <2>3, FS_CardinalityType, Zenon
  <2> QED
    BY <1>1, <1>2, <2>1, <2>2, <2>4, ChargedSets DEF ChargeBounded, MeterType, Used
<1>3. CASE ~(Used >= Quota)
  BY <1>1, <1>3 DEF ChargeBounded
<1> QED
  BY <1>2, <1>3, Zenon

\* A step of one agent into a state in which it is charged nothing, or was before.
LEMMA AgentStep ==
  ASSUME ChargeBounded, NEW a \in Callers, NEW to \in CallStates, NEW n \in Nat,
         call' = [call EXCEPT ![a] = to], summed' = [summed EXCEPT ![a] = n],
         input' = input, output' = output,
         to \in {"sending", "answered"} => a \in Uncharged,
         to # "halfRecorded", to = "checking" => n = input
  PROVE  ChargeBounded'
<1>1. MeterType'
  BY DEF ChargeBounded, MeterType
<1>2. HalfCharged' \in SUBSET HalfCharged
  BY <1>1 DEF HalfCharged, ChargeBounded, MeterType
<1>3. ASSUME Used >= Quota PROVE Uncharged' \in SUBSET Uncharged
  <2> SUFFICES ASSUME NEW b \in Uncharged' PROVE b \in Uncharged
    BY Zenon
  <2>1. b \in Callers
    BY Zenon DEF Uncharged
  <2>2. CASE b # a
    <3>1. call'[b] = call[b] /\ summed'[b] = summed[b]
      BY <2>1, <2>2, Zenon DEF ChargeBounded, MeterType
    <3> QED
      BY <2>1, <3>1, Zenon DEF Uncharged
  <2>3. CASE b = a
    <3>1. call'[a] = to /\ summed'[a] = n
      BY Zenon DEF ChargeBounded, MeterType
    <3>2. to # "checking"
      BY <1>3, <2>3, <3>1, MeteringAssumption DEF Uncharged, Used, ChargeBounded, MeterType
    <3>3. to \in {"sending", "answered"}
      BY <2>3, <3>1, <3>2, Zenon DEF Uncharged
    <3> QED
      BY <2>3, <3>3, Zenon
  <2> QED
    BY <2>2, <2>3, Zenon
<1> QED
  BY <1>1, <1>2, <1>3, NoNewCharge, Zenon

\* Every step keeps the bound.
LEMMA ChargeStep == ChargeBounded /\ [MeteringNext]_meteringVars => ChargeBounded'
<1> SUFFICES ASSUME ChargeBounded, [MeteringNext]_meteringVars PROVE ChargeBounded'
  BY Zenon
<1> USE MeteringAssumption
<1>a. MeterType
  BY Zenon DEF ChargeBounded
<1>0. ASSUME UNCHANGED <<input, output, call, summed>> PROVE ChargeBounded'
  <2>1. MeterType' /\ Uncharged' = Uncharged /\ HalfCharged' = HalfCharged /\ Used' = Used
    BY <1>a, <1>0, Zenon DEF MeterType, Uncharged, HalfCharged, Used
  <2> QED
    BY <2>1, Zenon DEF ChargeBounded
<1>1. ASSUME NEW a \in Callers, CheckQuota(a) PROVE ChargeBounded'
  <2>1. /\ call' = [call EXCEPT ![a] = "checking"] /\ summed' = [summed EXCEPT ![a] = input]
        /\ input' = input /\ output' = output
    BY <1>1, Zenon DEF CheckQuota, Step
  <2> QED
    BY <1>a, <2>1, AgentStep DEF MeterType, CallStates
<1>2. ASSUME NEW a \in Callers, CheckedQuota(a) PROVE ChargeBounded'
  <2>1. /\ call[a] = "checking" /\ summed' = [summed EXCEPT ![a] = 0]
        /\ call' = [call EXCEPT ![a] = IF QuotaReached(a) THEN "idle" ELSE "sending"]
        /\ input' = input /\ output' = output
    BY <1>2, Zenon DEF CheckedQuota, Step
  <2>2. ~QuotaReached(a) => a \in Uncharged
    BY <1>a, <2>1 DEF QuotaReached, Uncharged, MeterType
  <2> QED
    BY <2>1, <2>2, AgentStep DEF CallStates
<1>3. ASSUME NEW a \in Callers, Attempt(a) PROVE ChargeBounded'
  <2>1. /\ call[a] = "sending" /\ UNCHANGED <<input, output, summed>>
        /\ \E to \in {"sending", "answered", "idle"} : call' = [call EXCEPT ![a] = to]
    BY <1>3, Zenon DEF Attempt, Step
  <2>2. summed' = [summed EXCEPT ![a] = summed[a]] /\ summed[a] \in Nat /\ a \in Uncharged
    BY <1>a, <2>1 DEF MeterType, Uncharged
  <2> QED
    BY <2>1, <2>2, AgentStep DEF CallStates
<1>4. ASSUME NEW a \in Callers, RecordInput(a) PROVE ChargeBounded'
  <2>0. /\ call[a] = "answered" /\ call' = [call EXCEPT ![a] = "halfRecorded"]
        /\ input' = input + 1 /\ output' = output /\ summed' = summed
    BY <1>4, Zenon DEF RecordInput, Step
  <2>1. Uncharged' = Uncharged \ {a} /\ a \in Uncharged
    BY <1>a, <2>0, Zenon DEF MeterType, Uncharged
  <2>2. HalfCharged' = HalfCharged \cup {a} /\ a \notin HalfCharged
    BY <1>a, <2>0, Zenon DEF MeterType, HalfCharged
  <2>3. Cardinality(Uncharged') = Cardinality(Uncharged) - 1
    BY <2>1, ChargedSets, FS_RemoveElement, Zenon
  <2>4. Cardinality(HalfCharged') = Cardinality(HalfCharged) + 1
    BY <2>2, ChargedSets, FS_AddElement, Zenon
  <2>5. MeterType'
    BY <1>a, <2>0 DEF MeterType, CallStates
  <2> QED
    BY <1>a, <2>0, <2>3, <2>4, <2>5, ChargedSets DEF ChargeBounded, MeterType, Used
<1>5. ASSUME NEW a \in Callers, RecordOutput(a) PROVE ChargeBounded'
  <2>0. /\ call[a] = "halfRecorded" /\ call' = [call EXCEPT ![a] = "recorded"]
        /\ input' = input /\ output' = output + 1 /\ summed' = summed
    BY <1>5, Zenon DEF RecordOutput, Step
  <2>1. HalfCharged' = HalfCharged \ {a} /\ a \in HalfCharged
    BY <1>a, <2>0, Zenon DEF MeterType, HalfCharged
  <2>2. Cardinality(HalfCharged') = Cardinality(HalfCharged) - 1
    BY <2>1, ChargedSets, FS_RemoveElement, Zenon
  <2>3. Uncharged' \in SUBSET Uncharged
    BY <1>a, <2>0 DEF MeterType, Uncharged
  <2>4. Cardinality(Uncharged') <= Cardinality(Uncharged) /\ Cardinality(Uncharged') \in Nat
    BY <2>3, ChargedSets, FS_Subset, FS_CardinalityType, Zenon
  <2>5. MeterType'
    BY <1>a, <2>0 DEF MeterType, CallStates
  <2> QED
    BY <1>a, <2>0, <2>2, <2>4, <2>5, ChargedSets DEF ChargeBounded, MeterType, Used
<1>6. ASSUME NEW a \in Callers, LoadInput(a) \/ LoadOutput(a) \/ Report(a) \/ Broadcast(a)
      PROVE  ChargeBounded'
  <2>1. summed[a] \in Nat /\ summed' \in [Callers -> Nat] /\ UNCHANGED <<input, output>>
    BY <1>a, <1>6 DEF LoadInput, LoadOutput, Report, Broadcast, MeterType
  <2>2. summed' = [summed EXCEPT ![a] = summed'[a]] /\ summed'[a] \in Nat
    BY <1>a, <1>6, <2>1 DEF LoadInput, LoadOutput, Report, Broadcast, MeterType
  <2>3. \E to \in {"halfLoaded", "loaded", "numbered", "idle"} : call' = [call EXCEPT ![a] = to]
    BY <1>6, Zenon DEF LoadInput, LoadOutput, Report, Broadcast, Step
  <2> PICK to \in {"halfLoaded", "loaded", "numbered", "idle"} : call' = [call EXCEPT ![a] = to]
    BY <2>3, Zenon
  <2>4. /\ to \in CallStates /\ to \notin {"sending", "answered"}
        /\ to # "halfRecorded" /\ to # "checking"
    BY DEF CallStates
  <2>5. input' = input /\ output' = output
    BY <2>1, Zenon
  <2> QED
    BY <2>2, <2>4, <2>5, AgentStep, Zenon
<1>7. CASE OtherEvent \/ TrackReport \/ RequestCost \/ Shutdown
           \/ \E r \in Receivers : WatchReport(r)
  BY <1>0, <1>7, Zenon DEF WatchReport, TrackReport, OtherEvent, RequestCost, Shutdown, meterVars
<1>8. CASE UNCHANGED meteringVars
  BY <1>0, <1>8, Zenon DEF meteringVars, meterVars
<1> QED
  BY <1>1, <1>2, <1>3, <1>4, <1>5, <1>6, <1>7, <1>8, Zenon DEF MeteringNext, Completing

\* The overshoot of the token quota is bounded by one request for each agent,
\* whatever their number: the quota is checked before a request, with two loads,
\* and charged after it, in two additions (check_quota, UsageMeter::record).
THEOREM QuotaOvershoot == MeteringSpec => []OvershootBounded
<1>1. ChargeBounded => OvershootBounded
  BY ChargedSets, MeteringAssumption, FS_EmptySet
     DEF ChargeBounded, MeterType, OvershootBounded, RequestUsage, Used
<1> QED
  BY <1>1, ChargeInit, ChargeStep, PTL DEF MeteringSpec

=============================================================================
