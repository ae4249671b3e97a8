------------------------------- MODULE Tools -------------------------------
(***************************************************************************)
(* The sandbox tools Read, Write, Edit, Bash, WebFetch and WebSearch, from *)
(* the tool call (silo-sandbox/src/toolimpl.rs) through the operations of  *)
(* the helper (silo-helper/src/ops.rs, fetch.rs) to the answer.            *)
(*                                                                         *)
(* The agents of a session, and the harness storing an upload, work on one *)
(* file at the same time.  The helper runs every operation in a task of    *)
(* its own, so the accesses of two operations to the file interleave: Edit *)
(* reads the file, and later rewrites it; rewriting truncates it first.    *)
(* HelperSession has the way of a request to the helper and back.          *)
(***************************************************************************)
EXTENDS Naturals, Sequences, FiniteSets

CONSTANTS
    Callers,      \* the agents, and the harness itself
    ReadCap,      \* READ_FILE_CAP
    OutputCap,    \* EXEC_OUTPUT_CAP, and the limits of fetched bodies
    MaxOutput,    \* bound: bytes one stream or body carries
    MaxToolCalls, \* bound: tool calls made
    MaxStreaming  \* bound: commands and fetches at a time; they share nothing

ASSUME ToolsAssumption ==
    /\ ReadCap \in Nat \ {0} /\ OutputCap \in Nat \ {0}
    /\ MaxOutput > OutputCap /\ MaxToolCalls \in Nat /\ MaxStreaming \in Nat

VARIABLES
    file,     \* the file: {} when it does not exist, else the set of its content
    call,     \* the call each caller made last
    at,       \* where its operation is
    held,     \* the content it is about to write
    streams,  \* what it reads from a command's pipes or a response body
    status,   \* how the command ended, or the HTTP status
    answer,   \* "none", "ok" or "error"
    marked,   \* whether the answer carries the truncation marker
    missing,  \* number of bytes the answer leaves out
    before,   \* the file when the call last read or began to rewrite it
    alone,    \* whether nobody else wrote to the file since then
    fault,    \* whether the operating system refused an access
    calls     \* calls made

fileVars == <<file, before, alone>>
toolVars == <<file, call, at, held, streams, status, answer, marked, missing,
              before, alone, fault, calls>>

----------------------------------------------------------------------------
(* Text. *)

Binary == "bin"     \* a byte that is not UTF-8
Smaller(m, n) == IF m < n THEN m ELSE n
OccursAt(text, old, i) ==
    i + Len(old) - 1 <= Len(text) /\ SubSeq(text, i, i + Len(old) - 1) = old

\* str::matches: from the left, without overlap.
Matches(text, old) ==
    LET from[i \in 1..(Len(text) + 1)] ==
            IF i > Len(text) THEN {}
            ELSE IF OccursAt(text, old, i) THEN {i} \cup from[i + Len(old)]
                 ELSE from[i + 1]
    IN from[1]

\* str::replace and str::replacen(1): the positions that are replaced.
Replace(text, old, new, places) ==
    LET from[i \in 1..(Len(text) + 1)] ==
            IF i > Len(text) THEN <<>>
            ELSE IF i \in places THEN new \o from[i + Len(old)]
                 ELSE <<text[i]>> \o from[i + 1]
    IN from[1]

----------------------------------------------------------------------------
(* The calls.  A field of the wrong type, or a required one missing, is      *)
(* "bad"; an absent limit is the cap.                                        *)

NoCall == [tool |-> "none"]

\* write_tool: exactly one of content and content_b64, and a valid one.
WriteRefused(c) ==
    IF c.b64 # "absent" THEN c.content # "absent" \/ c.b64 # "valid"
    ELSE c.content # "text"

ReadCalls ==
    [tool : {"Read"}, fields : {"good"}, offset : 0..2, limit : 1..(ReadCap + 1)]
WriteCalls ==
    {c \in [tool : {"Write"}, content : {"absent", "text", "bad"},
            b64 : {"absent", "valid", "invalid", "bad"},
            text : {<<"a", "a", "a">>, <<"b">>}, append : BOOLEAN] : ~WriteRefused(c)}
EditCalls ==
    [tool : {"Edit"}, fields : {"good"}, old : {<<>>, <<"a">>, <<"a", "a">>},
     new : {<<>>, <<"a", "b">>}, all : BOOLEAN]
OtherCalls == [tool : {"Bash", "WebFetch", "WebSearch"}, fields : {"good"}]
BadCalls ==
    [tool : {"Read", "Bash", "WebFetch", "WebSearch"}, fields : {"bad"}]
        \cup [tool : {"Edit"}, fields : {"bad"}, all : {FALSE}]
        \cup [tool : {"Write"}, content : {"absent", "text", "bad"},
              b64 : {"absent", "valid", "invalid", "bad"}, append : {FALSE}]
Calls == ReadCalls \cup WriteCalls \cup EditCalls \cup OtherCalls
             \cup {c \in BadCalls : c.tool = "Write" => WriteRefused(c)}

Refused(c) == IF c.tool = "Write" THEN WriteRefused(c) ELSE c.fields = "bad"

\* Uploads are stored byte for byte.
Content(c) == IF c.b64 = "valid" THEN Append(c.text, Binary) ELSE c.text

\* run_tool: the helper operation of each tool.
FirstStep(c) ==
    CASE c.tool = "Read" -> "read"
      [] c.tool = "Write" -> IF c.append THEN "append" ELSE "truncate"
      [] c.tool = "Edit" -> "edit"
      [] c.tool = "Bash" -> "running"
      [] OTHER -> "request"

NewStream == [made |-> 0, taken |-> 0, kept |-> 0, cut |-> FALSE, open |-> TRUE]
NewStreams == <<NewStream, NewStream>>

ToolsInit ==
    /\ file \in {{}, {<<"a", "a", "b">>}}
    /\ call = [a \in Callers |-> NoCall]
    /\ at = [a \in Callers |-> "idle"]
    /\ held = [a \in Callers |-> <<>>]
    /\ streams = [a \in Callers |-> NewStreams]
    /\ status = [a \in Callers |-> 0]
    /\ answer = [a \in Callers |-> "none"]
    /\ marked = [a \in Callers |-> FALSE]
    /\ missing = [a \in Callers |-> 0]
    /\ before = [a \in Callers |-> {}]
    /\ alone = [a \in Callers |-> TRUE]
    /\ fault = [a \in Callers |-> FALSE]
    /\ calls = 0

Moves(a, step) == at' = [at EXCEPT ![a] = step]

AnswerCall(a, kind) ==
    /\ Moves(a, "answered")
    /\ answer' = [answer EXCEPT ![a] = kind]

Continues(a, step) == Moves(a, step) /\ UNCHANGED answer

\* An access the operating system refuses: the helper answers with the error.
Fails(a) == AnswerCall(a, "error") /\ fault' = [fault EXCEPT ![a] = TRUE]

Streaming == {b \in Callers : at[b] \in {"running", "exited", "request", "body"}}

MakeCall(a) ==
    /\ at[a] = "idle"
    /\ calls < MaxToolCalls
    /\ calls' = calls + 1
    /\ \E c \in Calls :
        /\ c \in OtherCalls => Cardinality(Streaming) < MaxStreaming
        /\ call' = [call EXCEPT ![a] = c]
        /\ IF Refused(c) THEN AnswerCall(a, "error") ELSE Continues(a, FirstStep(c))
        /\ held' = [held EXCEPT ![a] =
               IF c.tool = "Write" /\ ~Refused(c) THEN Content(c) ELSE <<>>]
    /\ before' = [before EXCEPT ![a] = file]
    /\ alone' = [alone EXCEPT ![a] = TRUE]
    /\ UNCHANGED <<file, streams, status, marked, missing, fault>>

\* The answer goes back to the caller.
Collect(a) ==
    /\ at[a] = "answered"
    /\ Moves(a, "idle")
    /\ call' = [call EXCEPT ![a] = NoCall]
    /\ held' = [held EXCEPT ![a] = <<>>]
    /\ streams' = [streams EXCEPT ![a] = NewStreams]
    /\ status' = [status EXCEPT ![a] = 0]
    /\ answer' = [answer EXCEPT ![a] = "none"]
    /\ marked' = [marked EXCEPT ![a] = FALSE]
    /\ missing' = [missing EXCEPT ![a] = 0]
    /\ before' = [before EXCEPT ![a] = {}]
    /\ fault' = [fault EXCEPT ![a] = FALSE]
    /\ UNCHANGED <<file, alone, calls>>

----------------------------------------------------------------------------
(* Operations on the file. *)

\* Everyone else's view of the file is out of date; the caller's own is not
\* when this is where it starts from.
Changes(a, text, first) ==
    /\ file' = {text}
    /\ before' = IF first THEN [before EXCEPT ![a] = file] ELSE before
    /\ alone' = [b \in Callers |-> IF b = a THEN first \/ alone[a]
                                  ELSE alone[b] /\ at[b] = "idle"]

FileText == CHOOSE text \in file : TRUE

\* read_file reads one byte more than it returns, to tell a file that ends at
\* the cap from a longer one.
ReadLength(rest, cap) == Smaller(rest, cap + 1)

ReadFile(a) ==
    /\ at[a] = "read"
    /\ \/ /\ file # {}
          /\ LET rest == IF call[a].offset >= Len(FileText) THEN 0 ELSE Len(FileText) - call[a].offset
                 cap == Smaller(call[a].limit, ReadCap)
                 length == ReadLength(rest, cap)
             IN /\ marked' = [marked EXCEPT ![a] = length > cap]
                /\ missing' = [missing EXCEPT ![a] = rest - Smaller(length, cap)]
          /\ AnswerCall(a, "ok")
          /\ UNCHANGED fault
       \/ file = {} /\ AnswerCall(a, "error") /\ UNCHANGED <<marked, missing, fault>>
       \/ Fails(a) /\ UNCHANGED <<marked, missing>>
    /\ UNCHANGED <<fileVars, call, held, streams, status, calls>>

\* Mutant: several matches are not refused.
AmbiguousNever(c, text) == FALSE

\* edit_file's second check on the number of matches.
Ambiguous(c, text) == Cardinality(Matches(text, c.old)) > 1 /\ ~c.all

EditRefused(c) ==
    IF c.old = <<>> \/ file = {} THEN TRUE
    ELSE \/ Binary \in {FileText[i] : i \in DOMAIN FileText}
         \/ Matches(FileText, c.old) = {}
         \/ Ambiguous(c, FileText)

Places(c) ==
    LET all == Matches(FileText, c.old) IN
    IF c.all THEN all ELSE {i \in all : \A j \in all : i <= j}

\* The first half of edit_file: the file is read, and the new content computed.
EditRead(a) ==
    /\ at[a] = "edit"
    /\ LET c == call[a] IN
       \/ /\ IF EditRefused(c) THEN AnswerCall(a, "error") /\ UNCHANGED held
             ELSE /\ held' = [held EXCEPT ![a] = Replace(FileText, c.old, c.new, Places(c))]
                  /\ Continues(a, "truncate")
          /\ UNCHANGED fault
       \/ Fails(a) /\ UNCHANGED held
    /\ before' = [before EXCEPT ![a] = file]
    /\ alone' = [alone EXCEPT ![a] = TRUE]
    /\ UNCHANGED <<file, call, streams, status, marked, missing, calls>>

\* tokio::fs::write creates or truncates the file, then writes the content.
Truncate(a) ==
    /\ at[a] = "truncate"
    /\ \/ Changes(a, <<>>, call[a].tool = "Write") /\ Continues(a, "put") /\ UNCHANGED fault
       \/ Fails(a) /\ UNCHANGED fileVars
    /\ UNCHANGED <<call, held, streams, status, marked, missing, calls>>

\* What somebody else wrote past the end of this content stays.
Over(text, old) == text \o SubSeq(old, Len(text) + 1, Len(old))

Put(a) ==
    /\ at[a] = "put"
    /\ \/ /\ Changes(a, Over(held[a], FileText), FALSE)
          /\ AnswerCall(a, "ok")
          /\ UNCHANGED fault
       \/ \E n \in 0..(Len(held[a]) - 1) :
            /\ Changes(a, Over(SubSeq(held[a], 1, n), FileText), FALSE)
            /\ Fails(a)
    /\ UNCHANGED <<call, held, streams, status, marked, missing, calls>>

\* A file opened for appending: every write goes to its end.
AppendFile(a) ==
    /\ at[a] = "append"
    /\ LET old == IF file = {} THEN <<>> ELSE FileText IN
       \/ Changes(a, old \o held[a], TRUE) /\ AnswerCall(a, "ok") /\ UNCHANGED fault
       \/ Fails(a) /\ UNCHANGED fileVars
       \/ \E n \in 0..(Len(held[a]) - 1) :
            Changes(a, old \o SubSeq(held[a], 1, n), TRUE) /\ Fails(a)
    /\ UNCHANGED <<call, held, streams, status, marked, missing, calls>>

----------------------------------------------------------------------------
(* Commands and fetches. *)

Streams(a, i, stream) == streams' = [streams EXCEPT ![a][i] = stream]

\* CappedBuffer::push, and the loop of fetch.
Push(stream, n) ==
    LET room == OutputCap - stream.kept IN
    [stream EXCEPT !.taken = @ + n, !.kept = @ + Smaller(room, n), !.cut = @ \/ n > room]

\* The command, or a descendant that holds its pipes, writes.
CommandWrites(a) ==
    /\ at[a] \in {"running", "exited"}
    /\ \E i \in 1..2, n \in 1..MaxOutput :
        /\ streams[a][i].open /\ streams[a][i].made + n <= MaxOutput
        /\ Streams(a, i, [streams[a][i] EXCEPT !.made = @ + n])
    /\ UNCHANGED <<fileVars, call, at, held, status, answer, marked, missing, fault, calls>>

\* drain: one read of a pipe.
Drain(a) ==
    /\ at[a] \in {"running", "exited"}
    /\ \E i \in 1..2 : LET s == streams[a][i] IN
        \E n \in 1..(s.made - s.taken) : Streams(a, i, Push(s, n))
    /\ UNCHANGED <<fileVars, call, at, held, status, answer, marked, missing, fault, calls>>

\* The end of a pipe: everyone who could write to it has exited.
DrainEnds(a) ==
    /\ at[a] = "exited"
    /\ \E i \in 1..2 : LET s == streams[a][i] IN
        /\ s.open /\ s.taken = s.made
        /\ Streams(a, i, [s EXCEPT !.open = FALSE])
    /\ UNCHANGED <<fileVars, call, at, held, status, answer, marked, missing, fault, calls>>

\* exec: the command exits, or is killed on timeout or cancellation (-1).
CommandExits(a) ==
    /\ at[a] = "running"
    /\ \/ /\ Continues(a, "exited")
          /\ \E code \in {0, 1, 2} : status' = [status EXCEPT ![a] = code]
          /\ UNCHANGED fault
       \/ Fails(a) /\ UNCHANGED status
    /\ UNCHANGED <<fileVars, call, held, streams, marked, missing, calls>>

\* The drains have ended, or DRAIN_GRACE has passed and what is still in the
\* pipes is left there; bash_tool makes an error
\* of a timeout, a cancellation and a nonzero exit code.
BashAnswers(a) ==
    /\ at[a] = "exited"
    /\ AnswerCall(a, IF status[a] = 0 THEN "ok" ELSE "error")
    /\ marked' = [marked EXCEPT ![a] = streams[a][1].cut \/ streams[a][2].cut]
    /\ missing' = [missing EXCEPT ![a] =
           (streams[a][1].made - streams[a][1].kept) + (streams[a][2].made - streams[a][2].kept)]
    /\ UNCHANGED <<fileVars, call, held, streams, status, fault, calls>>

\* FetchState::fetch up to the response's headers.
FetchStarts(a) ==
    /\ at[a] = "request"
    /\ \/ /\ Continues(a, "body")
          /\ \E code \in {200, 302, 404} : status' = [status EXCEPT ![a] = code]
          /\ UNCHANGED fault
       \/ Fails(a) /\ UNCHANGED status
    /\ UNCHANGED <<fileVars, call, held, streams, marked, missing, calls>>

\* One chunk of the body; the loop ends when one does not fit.
FetchChunk(a) ==
    /\ at[a] = "body" /\ ~streams[a][1].cut
    /\ \/ /\ \E n \in 1..(MaxOutput - streams[a][1].made) :
                Streams(a, 1, Push([streams[a][1] EXCEPT !.made = @ + n], n))
          /\ UNCHANGED <<at, answer, fault>>
       \/ Fails(a) /\ UNCHANGED streams
    /\ UNCHANGED <<fileVars, call, held, status, marked, missing, calls>>

\* web_fetch_tool and web_search_tool
FetchAnswers(a) ==
    /\ at[a] = "body"
    /\ LET s == streams[a][1]
           failed == IF call[a].tool = "WebFetch" THEN status[a] >= 400 ELSE status[a] # 200
       IN /\ AnswerCall(a, IF failed THEN "error" ELSE "ok")
          /\ marked' = [marked EXCEPT ![a] = s.cut /\ call[a].tool = "WebFetch"]
          /\ missing' = [missing EXCEPT ![a] = s.taken - s.kept]
    /\ UNCHANGED <<fileVars, call, held, streams, status, fault, calls>>

ToolsNext ==
    \E a \in Callers :
        \/ MakeCall(a) \/ Collect(a)
        \/ ReadFile(a) \/ EditRead(a) \/ Truncate(a) \/ Put(a) \/ AppendFile(a)
        \/ CommandWrites(a) \/ Drain(a) \/ DrainEnds(a) \/ CommandExits(a) \/ BashAnswers(a)
        \/ FetchStarts(a) \/ FetchChunk(a) \/ FetchAnswers(a)

----------------------------------------------------------------------------
(* Properties. *)

Occurrences(text, old) == {i \in 1..Len(text) : OccursAt(text, old, i)}

Overlap(text, old) ==
    \E i, j \in Occurrences(text, old) : i < j /\ j < i + Len(old)

\* What a call that succeeded was asked to do to the file.
Effect(c, old) ==
    LET text == CHOOSE t \in old : TRUE IN
    CASE c.tool = "Write" /\ ~c.append -> {Content(c)}
      [] c.tool = "Write" /\ c.append -> {(IF old = {} THEN <<>> ELSE text) \o Content(c)}
      [] c.tool = "Edit" -> {Replace(text, c.old, c.new, Occurrences(text, c.old))}
      [] OTHER -> old

\* "Without `append`, the file is replaced whole; with it, the content is added
\* at the end" and "Without `replace_all`, the call succeeds only when
\* `old_string` occurs exactly once; with it, every occurrence is replaced"
\* (docs/TOOLS.md): an answer without error means that the file is what the
\* call asked for, made of what was there when the call read it, and an error
\* that the file was left alone, whatever the other callers read and wrote
\* meanwhile.  Conditions: nobody else wrote to the file between the call's
\* first access to it and the answer, since read and rewrite are not one step;
\* the operating system refused none of the accesses, since a rewrite that
\* fails has already truncated the file; no two occurrences overlap, since
\* edit_file counts and replaces matches from the left.
EffectOfToolCall(a) ==
    LET c == call[a]
        found == UNION {Occurrences(text, c.old) : text \in before[a]}
        plain == c.tool = "Edit" /\ answer[a] = "ok" =>
                     \A text \in before[a] : ~Overlap(text, c.old)
    IN alone[a] /\ plain =>
        /\ file = IF answer[a] = "ok" THEN Effect(c, before[a]) ELSE before[a]
        /\ (c.tool = "Edit" /\ answer[a] = "ok" /\ ~c.all) => Cardinality(found) = 1

\* "When more bytes remained past the returned range, the marker `[truncated]`
\* is appended", "output past the cap is dropped and `[output truncated]` is
\* added" (docs/TOOLS.md): the marker is there exactly when bytes were left
\* out, however reads and chunks fall around the caps.  WebSearch, which only
\* lists the first results, has no marker, and nothing marks what a command's
\* descendants wrote to a pipe that was still open when DRAIN_GRACE passed.
TruncationMarked(a) ==
    LET drained == call[a].tool = "Bash" => ~(streams[a][1].open \/ streams[a][2].open)
    IN call[a].tool # "WebSearch" =>
        /\ marked[a] => missing[a] > 0
        /\ missing[a] > 0 /\ drained => marked[a]

\* The answer of a tool call is true: it tells what happened to the file and
\* whether something was left out (ops.rs, toolimpl.rs).
AnswersTrue ==
    \A a \in Callers :
        (at[a] = "answered" /\ ~fault[a]) => EffectOfToolCall(a) /\ TruncationMarked(a)
=============================================================================
