-------------------------------- MODULE Wire --------------------------------
(***************************************************************************)
(* How the LLM backends (silo-llm) put a conversation on the wire and read *)
(* a response back: the Messages API (anthropic.rs), the Responses API     *)
(* (openai_responses.rs), the Realtime API (openai_ws.rs) and chat         *)
(* completions (local.rs).                                                 *)
(*                                                                         *)
(* A conversation is built the way the agent loop builds it: prompts,      *)
(* responses as the backend parsed them, and one message of tool results   *)
(* per response with tool calls.  A content block is [kind, id]: "text",   *)
(* "use" or "result", with the id of the call (0 for text).                *)
(***************************************************************************)
EXTENDS Naturals, Sequences, SequencesExt

CONSTANTS
    MaxHistory,   \* messages of the longest conversation
    MaxBlocks     \* items of the longest response

ASSUME WireAssumption == MaxHistory \in Nat /\ MaxBlocks \in Nat

VARIABLES
    provider,     \* the backend (fixed)
    history,      \* the conversation: a sequence of [role, content]
    lastId,       \* id of the last tool call
    turn          \* a turn is running: the next step is a request

wireVars == <<provider, history, lastId, turn>>

TextBlock == [kind |-> "text", id |-> 0]
Use(n) == [kind |-> "use", id |-> n]
ResultOf(n) == [kind |-> "result", id |-> n]

\* The blocks of one kind, in order.
Only(kind, content) ==
    LET upTo[n \in 0..Len(content)] ==
            IF n = 0 THEN <<>>
            ELSE IF content[n].kind = kind THEN Append(upTo[n - 1], content[n])
            ELSE upTo[n - 1]
    IN  upTo[Len(content)]

----------------------------------------------------------------------------
(* Requests.  A wire item is [role, calls, output]: who speaks, the ids of  *)
(* the calls it carries and the id it answers (0 when none).                *)

Item(role, calls, output) == [role |-> role, calls |-> calls, output |-> output]

\* anthropic.rs message_to_wire: one message, its blocks in order; seen here
\* as one item per block.
MessageToWire(message) ==
    [i \in DOMAIN message.content |->
        LET b == message.content[i] IN
        CASE b.kind = "text" -> Item(message.role, <<>>, 0)
          [] b.kind = "use" -> Item(message.role, <<b.id>>, 0)
          [] b.kind = "result" -> Item("tool", <<>>, b.id)]

\* openai_responses.rs build_input: one item per content block.
BuildInput(message) ==
    [i \in DOMAIN message.content |->
        LET b == message.content[i] IN
        CASE b.kind = "text" -> Item(message.role, <<>>, 0)
          [] b.kind = "use" -> Item("call", <<b.id>>, 0)
          [] b.kind = "result" -> Item("tool", <<>>, b.id)]

\* openai_ws.rs conversation_items: the same, one event each.
ConversationItems(message) == BuildInput(message)

\* Mutant: the user's text is pushed before the tool results.
UserMessagesTextFirst(content) ==
    (IF Only("text", content) = <<>> THEN <<>> ELSE <<Item("user", <<>>, 0)>>)
    \o [i \in DOMAIN Only("result", content) |->
           Item("tool", <<>>, Only("result", content)[i].id)]

\* local.rs append_message for a user message: one tool message per result,
\* then the texts joined into one.
UserMessages(content) ==
    [i \in DOMAIN Only("result", content) |->
        Item("tool", <<>>, Only("result", content)[i].id)]
    \o (IF Only("text", content) = <<>> THEN <<>> ELSE <<Item("user", <<>>, 0)>>)

\* local.rs append_message for an assistant message: one message with all its
\* calls, whatever their place among the texts.
AssistantMessage(content) ==
    LET uses == Only("use", content) IN
    <<Item("assistant", [i \in DOMAIN uses |-> uses[i].id], 0)>>

AppendMessage(message) ==
    IF message.role = "user" THEN UserMessages(message.content)
    ELSE AssistantMessage(message.content)

\* What the backend in use makes of one message.
ToWire(message) ==
    CASE provider = "anthropic" -> MessageToWire(message)
      [] provider = "responses" -> BuildInput(message)
      [] provider = "realtime" -> ConversationItems(message)
      [] provider = "local" -> AppendMessage(message)

\* The messages in order.
Request ==
    LET upTo[n \in 0..Len(history)] ==
            IF n = 0 THEN <<>> ELSE upTo[n - 1] \o ToWire(history[n])
    IN  upTo[Len(history)]

----------------------------------------------------------------------------
(* Responses: a sequence of "text", "call", "broken" (a call that lacks an  *)
(* id, a name or valid arguments) and "other" (reasoning and the like).     *)

Responses == UNION {[1..n -> {"text", "call", "broken", "other"}] : n \in 0..MaxBlocks}

\* parse_function_call: the call that comes after content, numbered in the order
\* of the calls.
ParseFunctionCall(content) == Use(lastId + Len(Only("use", content)) + 1)

\* openai_responses.rs parse_response: texts and calls in the order of the
\* output, items of another type skipped.
ParseResponses(items) ==
    LET upTo[n \in 0..Len(items)] ==
            IF n = 0 THEN <<>>
            ELSE CASE items[n] = "call" -> Append(upTo[n - 1], ParseFunctionCall(upTo[n - 1]))
                   [] items[n] = "text" -> Append(upTo[n - 1], TextBlock)
                   [] OTHER -> upTo[n - 1]
    IN  upTo[Len(items)]

\* openai_ws.rs parse_response_done and anthropic.rs parse_response do the same.
ParseDone(items) == ParseResponses(items)
ParseMessage(items) == ParseResponses(items)

\* local.rs parse_response: the text of the message first, then its calls.
ParseChat(items) ==
    LET content == ParseResponses(items) IN
    (IF Only("text", content) = <<>> THEN <<>> ELSE <<TextBlock>>) \o Only("use", content)

Parse(items) ==
    CASE provider = "anthropic" -> ParseMessage(items)
      [] provider = "responses" -> ParseResponses(items)
      [] provider = "realtime" -> ParseDone(items)
      [] provider = "local" -> ParseChat(items)

\* The Messages API and chat completions give the stop reason themselves
\* (map_stop_reason); the other two backends go by the calls they saw.
MapStopReason(content) ==
    IF provider \in {"anthropic", "local"} THEN {"tool_use", "other"}
    ELSE IF Only("use", content) # <<>> THEN {"tool_use"}
    ELSE {"other"}

----------------------------------------------------------------------------
(* The conversation, as run_turn and push_user_prompt build it. *)

WireInit ==
    /\ provider \in {"anthropic", "responses", "realtime", "local"}
    /\ history = <<>>
    /\ lastId = 0
    /\ turn = FALSE

Ends(role) == history # <<>> /\ Last(history).role = role

\* push_user_prompt: the text joins a user message the conversation ends with.
PushUserPrompt ==
    /\ ~turn /\ turn' = TRUE
    /\ \/ /\ Ends("user") /\ Len(Last(history).content) < 2 * MaxBlocks
          /\ history' = [history EXCEPT ![Len(history)].content = Append(@, TextBlock)]
       \/ /\ ~Ends("user") /\ Len(history) < MaxHistory
          /\ history' = Append(history, [role |-> "user", content |-> <<TextBlock>>])
    /\ UNCHANGED <<provider, lastId>>

\* A response with a broken call, or a request interrupted before its
\* response: the turn ends and the conversation stays as it is.
NoResponse ==
    /\ turn /\ turn' = FALSE
    /\ UNCHANGED <<provider, history, lastId>>

\* The response becomes the assistant's message.  Its calls, the ones an
\* interrupt cancelled included, are answered in one user message; the turn
\* goes on when the response stopped for its calls.
CompleteTurn ==
    /\ turn /\ Len(history) + 1 < MaxHistory
    /\ \E items \in Responses :
          LET content == Parse(items)
              uses == Only("use", content)
              answers == [i \in DOMAIN uses |-> ResultOf(uses[i].id)]
          IN  /\ "broken" \notin Range(items)
              /\ lastId' = lastId + Len(uses)
              /\ history' = history \o <<[role |-> "assistant", content |-> content]>>
                            \o (IF uses = <<>> THEN <<>>
                                ELSE <<[role |-> "user", content |-> answers]>>)
              /\ \E stop \in MapStopReason(content), interrupted \in BOOLEAN :
                    turn' = (uses # <<>> /\ stop = "tool_use" /\ ~interrupted)
    /\ UNCHANGED provider

WireNext == PushUserPrompt \/ NoResponse \/ CompleteTurn

----------------------------------------------------------------------------
(* Properties. *)

\* Whatever the order of texts and calls in the responses, and whatever
\* prompts joined the message of tool results (agent.rs:1041), every request
\* answers each tool call exactly once, after the call, and with nothing the
\* user said in between: "Maps the conversation to ordered Responses input
\* items" (openai_responses.rs:176), "Tool results become `role:"tool"`
\* messages" (local.rs:268).
CallsAnsweredOnWire ==
    turn =>
    LET wire == Request IN
    \A id \in 1..lastId :
        \E c, a \in DOMAIN wire :
            /\ c < a /\ id \in Range(wire[c].calls) /\ wire[a].output = id
            /\ \A i \in DOMAIN wire :
                  /\ id \in Range(wire[i].calls) => i = c
                  /\ wire[i].output = id => i = a
                  /\ i \in (c + 1)..(a - 1) => wire[i].role # "user"
=============================================================================
