------------------------------- MODULE TuiApp -------------------------------
(***************************************************************************)
(* The state of the terminal client, `App` in silo-tui/src/app.rs: what is *)
(* on the screen, the pending question, the input line, and the messages a *)
(* key press produces.  Every method of App is a pure state transition, so *)
(* every one is an operator here: ApplyEvent, HandleServer and HandleNet   *)
(* return the next app, HandleKey returns it together with the messages to *)
(* send.                                                                   *)
(*                                                                         *)
(* Characters are abstracted to words: the input line is a sequence of     *)
(* words, a slash command is one word, an edit works on a word, and a      *)
(* space changes no word.  A transcript entry is counted and its text is   *)
(* left out; an entry takes two display lines, as in scroll_limit.         *)
(***************************************************************************)
EXTENDS Integers, Sequences, FiniteSets, SequencesExt

CONSTANTS
    ScrollMax   \* the largest scroll offset the field can hold (u16::MAX)

ASSUME ScrollMaxAssumption == ScrollMax \in Nat /\ ScrollMax >= 5

None == "none"

(***************************************************************************)
(* A question has some options, may accept several of them at once, and    *)
(* may accept free text.                                                   *)
(***************************************************************************)
Question(id, options, multi, free) ==
    [id |-> id, options |-> options, multi |-> multi, free |-> free]

NoQuestion == [id |-> 0]

PendingQuestion(q) ==
    [id |-> q.id, options |-> q.options, multi |-> q.multi, free |-> q.free,
     selected |-> 0, checked |-> {}, typing |-> q.options = 0, text |-> <<>>]

NewApp ==
    [conn |-> "connecting", lastSeq |-> 0, shown |-> 0, awaiting |-> FALSE,
     busy |-> FALSE, cost |-> 0, debug |-> FALSE, input |-> <<>>,
     cursor |-> 0, question |-> NoQuestion, popup |-> None, scroll |-> 0,
     quit |-> FALSE, fatal |-> FALSE]

Asked(app) == app.question.id # 0

ClearInput(app) == [app EXCEPT !.input = <<>>, !.cursor = 0]

Push(app) == [app EXCEPT !.shown = @ + 1]

-----------------------------------------------------------------------------
(* Events and server messages.  Event numbers start at 1 here, so that 0   *)
(* says that no event has been seen.                                       *)

WorkEvents ==
    {"UserPrompt", "AssistantText", "ToolUse", "ToolResult", "AgentSpawned",
     "AgentCompleted", "QuestionAsked", "QuestionAnswered"}

IdleEvents == {"AwaitingInput", "Interrupted", "Shutdown"}

SilentEvents == {"CostReport", "TurnComplete", "AwaitingInput"}

BusyAfter(busy, type) ==
    IF type \in WorkEvents THEN TRUE
    ELSE IF type \in IdleEvents THEN FALSE ELSE busy

\* Mutant: an answer given elsewhere leaves the question on the screen.
QuestionAfterAsked(question, event) ==
    IF event.type = "QuestionAsked" THEN PendingQuestion(event.question)
    ELSE question

QuestionAfter(question, event) ==
    CASE event.type = "QuestionAsked" -> PendingQuestion(event.question)
      [] event.type = "QuestionAnswered" /\ question.id = event.question.id ->
             NoQuestion
      [] OTHER -> question

AwaitingAfter(awaiting, type) ==
    CASE type = "AwaitingInput" -> TRUE
      [] type = "UserPrompt" -> FALSE
      [] OTHER -> awaiting

ApplyEvent(app, seq, event) ==
    IF seq <= app.lastSeq THEN app
    ELSE [app EXCEPT
            !.lastSeq = seq,
            !.busy = BusyAfter(@, event.type),
            !.question = QuestionAfter(@, event),
            !.awaiting = AwaitingAfter(@, event.type),
            !.cost = IF event.type = "CostReport" THEN event.usage ELSE @,
            !.shown = @ + (IF event.type \in SilentEvents THEN 0 ELSE 1)]

HandleServer(app, message) ==
    CASE message.type \in {"AccessReport", "PairingCode"} ->
             [app EXCEPT !.popup = message.type]
      [] message.type = "Cost" ->
             [app EXCEPT !.popup = "Cost", !.cost = message.usage]
      [] message.type = "Error" -> Push(app)
      [] message.type = "ShuttingDown" ->
             [Push(app) EXCEPT !.conn = "closed", !.question = NoQuestion,
                               !.busy = FALSE]
      [] OTHER -> app

HandleNet(app, event) ==
    CASE event = "Connecting" -> [app EXCEPT !.conn = "connecting"]
      [] event = "Connected" -> [app EXCEPT !.conn = "connected"]
      [] event = "Disconnected" -> [app EXCEPT !.conn = "reconnecting"]
      [] event = "Fatal" -> [app EXCEPT !.fatal = TRUE, !.quit = TRUE]

-----------------------------------------------------------------------------
(* Keys.                                                                   *)

Result(app, sent) == [app |-> app, sent |-> sent]
Quiet(app) == Result(app, <<>>)

ScrollLimit(app) == IF 2 * app.shown > ScrollMax THEN ScrollMax ELSE 2 * app.shown

Least(a, b) == IF a < b THEN a ELSE b
Minus(a, b) == IF a < b THEN 0 ELSE a - b

\* The sum wraps at the width of the field before it is bounded.
PageUp(app) ==
    [app EXCEPT !.scroll =
        Least((app.scroll + 5) % (ScrollMax + 1), ScrollLimit(app))]

InsertWord(app, word) ==
    [app EXCEPT !.input = InsertAt(@, app.cursor + 1, word), !.cursor = @ + 1]

Backspace(app) ==
    IF app.cursor = 0 THEN app
    ELSE [app EXCEPT !.input = RemoveAt(@, app.cursor), !.cursor = @ - 1]

Delete(app) ==
    IF app.cursor < Len(app.input)
    THEN [app EXCEPT !.input = RemoveAt(@, app.cursor + 1)] ELSE app

Right(app) == [app EXCEPT !.cursor = Least(@ + 1, Len(app.input))]

(***************************************************************************)
(* commands.rs: a line that starts with a slash is a command.  Only        *)
(* /upload takes an argument, and needs one.                               *)
(***************************************************************************)
Commands ==
    {"/help", "/access", "/cost", "/upload", "/pair", "/stop", "/debug",
     "/shutdown", "/quit"}
Unknown == "/unknown"

NoArgument(command, rest) == IF rest = <<>> THEN command ELSE "error"

Parse(line) ==
    LET word == Head(line)
        rest == Tail(line)
    IN CASE word \notin Commands \cup {Unknown} -> "prompt"
         [] word = "/upload" -> IF rest = <<>> THEN "error" ELSE word
         [] word = Unknown -> "error"
         [] OTHER -> NoArgument(word, rest)

(***************************************************************************)
(* A file to upload is read when the command runs; a file that cannot be   *)
(* read leaves the line as it is.                                          *)
(***************************************************************************)
RunCommand(app, command, readable) ==
    LET cleared == ClearInput(app) IN
    CASE command = "/help" -> Quiet([cleared EXCEPT !.popup = "Help"])
      [] command = "/debug" -> Quiet([Push(cleared) EXCEPT !.debug = ~@])
      [] command = "/access" -> Result(cleared, <<[type |-> "RequestAccessReport"]>>)
      [] command = "/cost" -> Result(cleared, <<[type |-> "RequestCost"]>>)
      [] command = "/pair" -> Result(cleared, <<[type |-> "RequestPairingCode"]>>)
      [] command = "/stop" -> Result(Push(cleared), <<[type |-> "Interrupt"]>>)
      [] command = "/quit" -> Quiet([app EXCEPT !.quit = TRUE])
      [] command = "/shutdown" -> Result(Push(cleared), <<[type |-> "Shutdown"]>>)
      [] command = "/upload" ->
             IF readable THEN Result(Push(cleared), <<[type |-> "UploadFile"]>>)
             ELSE Quiet(Push(app))

SubmitInput(app, readable) ==
    IF app.input = <<>> THEN Quiet(app)
    ELSE LET command == Parse(app.input) IN
         CASE command = "prompt" ->
                  Result(ClearInput(app),
                         <<[type |-> "Prompt", text |-> app.input]>>)
           [] command = "error" -> Quiet(Push(app))
           [] OTHER -> RunCommand(app, command, readable)

(***************************************************************************)
(* While a question is pending the keys answer it: either its text is being*)
(* typed, or an option is being picked.                                    *)
(***************************************************************************)
AnswerQuestion(app, answer) ==
    Result([app EXCEPT !.question = NoQuestion],
           <<[type |-> "AnswerQuestion", id |-> app.question.id,
              answer |-> answer]>>)

FreeTextKey(app, key) ==
    LET q == app.question IN
    CASE key = "enter" ->
             IF q.text = <<>> THEN Quiet(app) ELSE AnswerQuestion(app, q.text)
      [] key = "backspace" ->
             Quiet([app EXCEPT !.question.text = IF @ = <<>> THEN @ ELSE Front(@)])
      [] key = "esc" /\ q.options > 0 ->
             Quiet([app EXCEPT !.question.typing = FALSE])
      [] key = "char" -> Quiet([app EXCEPT !.question.text = Append(@, "x")])
      [] OTHER -> Quiet(app)

Down(q) ==
    IF q.options > 0 THEN [q EXCEPT !.selected = Least(@ + 1, q.options - 1)] ELSE q

Toggle(q) ==
    [q EXCEPT !.checked = IF q.selected \in @ THEN @ \ {q.selected}
                          ELSE @ \cup {q.selected}]

OptionKey(app, key) ==
    LET q == app.question IN
    CASE key = "up" -> Quiet([app EXCEPT !.question.selected = Minus(@, 1)])
      [] key = "down" -> Quiet([app EXCEPT !.question = Down(q)])
      [] key = "space" /\ q.multi -> Quiet([app EXCEPT !.question = Toggle(q)])
      [] key = "enter" /\ q.multi /\ q.checked # {} ->
             AnswerQuestion(app, {i \in q.checked : i < q.options})
      [] key = "enter" /\ ~(q.multi /\ q.checked # {}) ->
             IF q.selected < q.options THEN AnswerQuestion(app, {q.selected})
             ELSE Quiet(app)
      [] key \in {"char", "space"} /\ q.free ->
             Quiet([app EXCEPT !.question.typing = TRUE,
                               !.question.text = IF key = "char" THEN <<"x">>
                                                 ELSE <<>>])
      [] OTHER -> Quiet(app)

HandleQuestionKey(app, key) ==
    IF app.question.typing THEN FreeTextKey(app, key)
    ELSE OptionKey(app, key)

LineKey(app, key, word, readable) ==
    CASE key = "pageup" -> Quiet(PageUp(app))
      [] key = "pagedown" -> Quiet([app EXCEPT !.scroll = Minus(@, 5)])
      [] key = "end" -> Quiet([app EXCEPT !.scroll = 0])
      [] key = "esc" /\ app.busy -> Result(app, <<[type |-> "Interrupt"]>>)
      [] key = "enter" -> SubmitInput(app, readable)
      [] key = "left" -> Quiet([app EXCEPT !.cursor = Minus(@, 1)])
      [] key = "right" -> Quiet(Right(app))
      [] key = "home" -> Quiet([app EXCEPT !.cursor = 0])
      [] key = "backspace" -> Quiet(Backspace(app))
      [] key = "delete" -> Quiet(Delete(app))
      [] key = "char" -> Quiet(InsertWord(app, word))
      [] OTHER -> Quiet(app)

HandleKey(app, key, word, readable) ==
    IF key = "ctrl-c" THEN Quiet([app EXCEPT !.quit = TRUE])
    ELSE IF app.popup # None THEN Quiet([app EXCEPT !.popup = None])
    ELSE IF Asked(app) THEN HandleQuestionKey(app, key)
    ELSE LineKey(app, key, word, readable)
=============================================================================
