------------------------------- MODULE Replay -------------------------------
(***************************************************************************)
(* Recording a session in the journal and replaying it: the journal        *)
(* (silo-core journal.rs), its conversion into a test script               *)
(* (script_from_journal), the script shared by the mock components         *)
(* (SharedScript), the mock backend, sandbox and frontend, and the         *)
(* listener that stores uploaded files (silo-harness uploads.rs).          *)
(*                                                                         *)
(* A behaviour first records an interactive session and then replays its   *)
(* journal.  What each agent goes through is kept in did; the journal and  *)
(* did hold entries [k, v]: a kind and the number of the prompt, upload,   *)
(* answer, response or tool output.                                        *)
(***************************************************************************)
EXTENDS Naturals, Sequences, FiniteSets, FiniteSetsExt

CONSTANTS
    MaxPrompts,     \* prompts a client sends
    MaxUploads,     \* files a client uploads
    MaxInterrupts,  \* interrupts a client sends
    MaxResponses,   \* responses of the model
    MaxDisorder,    \* kinds of events a replay does not bring back
    WithSubagent    \* the model may start a subagent

ASSUME ReplayAssumption ==
    /\ {MaxPrompts, MaxUploads, MaxInterrupts, MaxResponses, MaxDisorder} \subseteq Nat
    /\ WithSubagent \in BOOLEAN

VARIABLES
    phase,      \* "recording", "replaying" or "done"
    journal,    \* the journal of the recorded session
    doing,      \* what each agent is at
    did,        \* what each agent went through, in this phase
    recorded,   \* did, at the end of the recording
    prompts,    \* prompts queued for the top-level agent (recording)
    files,      \* uploads the listener has still to store
    disorder,   \* what happened that a replay does not bring back: acts of the
                \* user the harness was not waiting for, subagents, failed
                \* requests and uploads (recording)
    cursor,     \* frontend steps consumed (replay)
    llmConsumed, toolConsumed,  \* script entries consumed (replay)
    toolsBefore,    \* executions consumed when the upload step began (replay)
    failure     \* how the replay failed, "none" if it did not

replayVars == <<phase, journal, doing, did, recorded, prompts, files, disorder,
                cursor, llmConsumed, toolConsumed, toolsBefore, failure>>
recordingVars == <<journal, recorded, prompts, disorder>>
scriptVars == <<cursor, llmConsumed, toolConsumed, toolsBefore, failure>>

Agents == {"top", "child"}

Is(k, v) == [k |-> k, v |-> v]
Count(k) == Len(SelectSeq(journal, LAMBDA e : e.k = k))

\* Kinds of journal entries that record a response of the model, by what the
\* response asks for.
ResponseKinds == {"text", "bash", "ask"} \cup (IF WithSubagent THEN {"spawn"} ELSE {})

\* script_from_journal: the lists of the script.
RecordedResponses == SelectSeq(journal, LAMBDA e : e.k \in ResponseKinds)
Executions == SelectSeq(journal, LAMBDA e : e.k \in {"bashed", "stored"})

\* Mutant: the answer an interrupt gave a question becomes a step too.
FrontendStepsInterrupted ==
    SelectSeq(journal, LAMBDA e :
        e.k \in {"prompt", "answer", "unanswered", "upload", "interrupt", "shutdown"})

FrontendSteps ==
    SelectSeq(journal, LAMBDA e :
        e.k \in {"prompt", "answer", "upload", "interrupt", "shutdown"})

\* journal.append
Journal(e) == journal' = Append(journal, e)

\* Agent a goes through e and is then at s.
Goes(a, e, s) ==
    /\ did' = [did EXCEPT ![a] = Append(@, e)]
    /\ doing' = [doing EXCEPT ![a] = s]

ReplayInit ==
    /\ phase = "recording"
    /\ journal = <<>> /\ prompts = <<>> /\ files = <<>>
    /\ doing = [a \in Agents |-> IF a = "top" THEN "idle" ELSE "none"]
    /\ did = [a \in Agents |-> <<>>] /\ recorded = did
    /\ disorder = {}
    /\ cursor = 0 /\ llmConsumed = {} /\ toolConsumed = {} /\ toolsBefore = 0
    /\ failure = "none"

ChildRunning == doing["child"] \notin {"none", "gone"}

----------------------------------------------------------------------------
(* The recorded session. *)

\* The act is one the harness waits for only when expected holds.
Note(act, expected) ==
    /\ disorder' = IF expected THEN disorder ELSE disorder \cup {act}
    /\ Cardinality(disorder') <= MaxDisorder

\* A client's prompt is logged and queued at once, also during a turn.
RecordPrompt ==
    /\ phase = "recording" /\ Count("prompt") < MaxPrompts
    /\ LET n == Count("prompt") + 1 IN
          /\ Journal(Is("prompt", n))
          /\ prompts' = Append(prompts, n)
    /\ Note("prompt", doing["top"] = "idle" /\ prompts = <<>>)
    /\ UNCHANGED <<phase, doing, did, recorded, files>> /\ UNCHANGED scriptVars

RecordUpload ==
    /\ phase = "recording" /\ Count("upload") < MaxUploads
    /\ LET n == Count("upload") + 1 IN
          /\ Journal(Is("upload", n))
          /\ files' = Append(files, n)
    /\ Note("upload", doing["top"] = "idle" /\ prompts = <<>>)
    /\ UNCHANGED <<phase, doing, did, recorded, prompts>> /\ UNCHANGED scriptVars

\* The listener stores an upload through the sandbox, or fails to (contents
\* that do not decode, a sandbox error): then no execution is journaled.
RecordStore ==
    /\ phase = "recording" /\ files # <<>>
    /\ files' = Tail(files)
    /\ \/ Journal(Is("stored", Head(files))) /\ UNCHANGED disorder
       \/ UNCHANGED journal /\ Note("rejected", FALSE)
    /\ UNCHANGED <<phase, doing, did, recorded, prompts>> /\ UNCHANGED scriptVars

TakeInput ==
    /\ phase = "recording" /\ doing["top"] = "idle" /\ prompts # <<>>
    /\ prompts' = Tail(prompts)
    /\ Goes("top", Is("prompt", Head(prompts)), "request")
    /\ UNCHANGED <<phase, journal, recorded, files, disorder>> /\ UNCHANGED scriptVars

\* Where a response of kind k leaves its agent; drive joins the subagents
\* before the turn ends.
After(a, k) ==
    CASE k = "text" /\ a = "child" -> "gone"
      [] k = "text" /\ ChildRunning -> "joining"
      [] k = "text" -> "idle"
      [] k = "spawn" -> "request"
      [] OTHER -> k

\* Agent a receives the response numbered n, of kind k, and a subagent it
\* asks for starts its own conversation.
Responded(a, k, n) ==
    /\ did' = [did EXCEPT ![a] = Append(@, Is(k, n))]
    /\ doing' = [b \in Agents |-> IF b = a THEN After(a, k)
                                  ELSE IF a = "top" /\ k = "spawn" THEN "request"
                                  ELSE doing[b]]

RecordResponse(a) ==
    /\ phase = "recording" /\ doing[a] = "request" /\ Len(RecordedResponses) < MaxResponses
    /\ \E k \in ResponseKinds :
          /\ k = "spawn" => a = "top" /\ doing["child"] = "none"
          /\ k = "ask" => a = "top"
          /\ Journal(Is(k, Len(RecordedResponses) + 1))
          /\ Responded(a, k, Len(RecordedResponses) + 1)
          /\ Note("subagent", k # "spawn")
    /\ UNCHANGED <<phase, recorded, prompts, files>> /\ UNCHANGED scriptVars

\* The request fails: the journal has no response, the turn or the subagent
\* ends.
RecordFailure(a) ==
    /\ phase = "recording" /\ doing[a] = "request"
    /\ Goes(a, Is("failed", 0), After(a, "text"))
    /\ Note("failed", FALSE)
    /\ UNCHANGED <<phase, journal, recorded, prompts, files>> /\ UNCHANGED scriptVars

\* The same command each time; what it prints differs.
RecordBash(a) ==
    /\ phase = "recording" /\ doing[a] = "bash"
    /\ Journal(Is("bashed", Count("bashed") + 1))
    /\ Goes(a, Is("bashed", Count("bashed") + 1), "request")
    /\ UNCHANGED <<phase, recorded, prompts, files, disorder>> /\ UNCHANGED scriptVars

RecordAnswer ==
    /\ phase = "recording" /\ doing["top"] = "ask"
    /\ Journal(Is("answer", Count("answer") + 1))
    /\ Goes("top", Is("answer", Count("answer") + 1), "request")
    /\ UNCHANGED <<phase, recorded, prompts, files, disorder>> /\ UNCHANGED scriptVars

\* An interrupt is journaled where the harness consumes it.  Idle, it does
\* nothing; it ends a request; the output a command had so far is recorded;
\* a question is answered as interrupted.
RecordInterrupt ==
    /\ phase = "recording" /\ Count("interrupt") < MaxInterrupts /\ ~ChildRunning
    /\ LET at == doing["top"]
           command == Is("interrupt", Count("interrupt") + 1)
           partial == Is("bashed", Count("bashed") + 1)
       IN  \/ /\ at = "idle"
              /\ Journal(command)
              /\ UNCHANGED <<did, doing>>
           \/ /\ at = "request"
              /\ Journal(command)
              /\ Goes("top", Is("interrupted", 0), "idle")
           \/ /\ at = "bash"
              /\ journal' = journal \o <<command, partial>>
              /\ did' = [did EXCEPT !["top"] = @ \o <<partial, Is("interrupted", 0)>>]
              /\ doing' = [doing EXCEPT !["top"] = "idle"]
           \/ /\ at = "ask"
              /\ journal' = journal \o <<command, Is("unanswered", 0)>>
              /\ Goes("top", Is("interrupted", 0), "idle")
    /\ Note("interrupt", doing["top"] \in {"idle", "ask"} /\ prompts = <<>>)
    /\ UNCHANGED <<phase, recorded, prompts, files>> /\ UNCHANGED scriptVars

\* drive has joined the last subagent.
Joined ==
    /\ doing["top"] = "joining" /\ ~ChildRunning
    /\ doing' = [doing EXCEPT !["top"] = "idle"]
    /\ UNCHANGED <<phase, did, files>> /\ UNCHANGED recordingVars /\ UNCHANGED scriptVars

\* A client shuts the session down; the journal is then replayed.
RecordShutdown ==
    /\ phase = "recording" /\ phase' = "replaying"
    /\ Journal(Is("shutdown", 0))
    /\ recorded' = did /\ did' = [a \in Agents |-> <<>>]
    /\ doing' = [a \in Agents |-> IF a = "top" THEN "idle" ELSE "none"]
    /\ Note("shutdown", doing["top"] = "idle" /\ prompts = <<>> /\ files = <<>>)
    /\ prompts' = <<>> /\ files' = <<>>
    /\ UNCHANGED scriptVars

----------------------------------------------------------------------------
(* The replay. *)

\* The first of a list's entries that is not consumed and satisfies P; 0 when
\* there is none.
FirstLeft(list, consumed, P(_)) ==
    LET left == {i \in DOMAIN list : i \notin consumed /\ P(list[i])}
    IN  IF left = {} THEN 0 ELSE Min(left)

\* next_llm, for turns without expectations: the first one left.
NextLlm == FirstLeft(RecordedResponses, llmConsumed, LAMBDA e : TRUE)

\* The call of an execution: the command is the same each time, an upload
\* writes its own file.
CallOf(e) == IF e.k = "bashed" THEN Is("bash", 0) ELSE e

\* next_tool: the first execution left of the same call.
NextTool(call) == FirstLeft(Executions, toolConsumed, LAMBDA e : CallOf(e) = call)

PeekFrontend == IF cursor < Len(FrontendSteps) THEN FrontendSteps[cursor + 1] ELSE Is("none", 0)

ReplayFails(how) ==
    /\ failure' = how /\ phase' = "done"
    /\ UNCHANGED <<doing, did, files, toolsBefore>> /\ UNCHANGED recordingVars

\* next_user_input: an upload is emitted and waited for, an interrupt goes to
\* the idle harness, a prompt is the answer.
InputUpload ==
    /\ PeekFrontend.k = "upload"
    /\ toolsBefore' = Cardinality(toolConsumed)
    /\ files' = Append(files, PeekFrontend.v)
    /\ doing' = [doing EXCEPT !["top"] = "uploading"]
    /\ UNCHANGED <<phase, did, failure>>

InputPrompt ==
    /\ PeekFrontend.k = "prompt"
    /\ Goes("top", PeekFrontend, "request")
    /\ UNCHANGED <<phase, files, toolsBefore, failure>>

InputInterrupt ==
    /\ PeekFrontend.k = "interrupt"
    /\ UNCHANGED <<phase, doing, did, files, toolsBefore, failure>>

NextUserInput ==
    /\ phase = "replaying" /\ doing["top"] = "idle"
    /\ InputUpload \/ InputPrompt \/ InputInterrupt
    /\ cursor' = cursor + 1
    /\ UNCHANGED <<llmConsumed, toolConsumed>> /\ UNCHANGED recordingVars

\* The upload step waits until an execution has been consumed.
Uploaded ==
    /\ phase = "replaying" /\ doing["top"] = "uploading"
    /\ Cardinality(toolConsumed) > toolsBefore
    /\ doing' = [doing EXCEPT !["top"] = "idle"]
    /\ UNCHANGED <<phase, did, files>> /\ UNCHANGED recordingVars /\ UNCHANGED scriptVars

\* The listener stores the upload through the mock sandbox; a call the script
\* does not have is only noted in the journal.
StoreUpload ==
    /\ phase = "replaying" /\ files # <<>>
    /\ files' = Tail(files)
    /\ LET i == NextTool(Is("stored", Head(files)))
       IN  toolConsumed' = toolConsumed \cup ({i} \ {0})
    /\ UNCHANGED <<phase, doing, did, cursor, llmConsumed, toolsBefore, failure>>
    /\ UNCHANGED recordingVars

ReplayRequest(a) ==
    /\ phase = "replaying" /\ doing[a] = "request"
    /\ \/ /\ NextLlm = 0 /\ ReplayFails("script")
          /\ UNCHANGED llmConsumed
       \/ /\ NextLlm # 0
          /\ llmConsumed' = llmConsumed \cup {NextLlm}
          /\ Responded(a, RecordedResponses[NextLlm].k, NextLlm)
          /\ UNCHANGED <<phase, files, toolsBefore, failure>> /\ UNCHANGED recordingVars
    /\ UNCHANGED <<cursor, toolConsumed>>

ReplayBash(a) ==
    /\ phase = "replaying" /\ doing[a] = "bash"
    /\ LET i == NextTool(Is("bash", 0)) IN
       \/ /\ i = 0 /\ ReplayFails("script")
          /\ UNCHANGED toolConsumed
       \/ /\ i # 0
          /\ toolConsumed' = toolConsumed \cup {i}
          /\ Goes(a, Executions[i], "request")
          /\ UNCHANGED <<phase, files, toolsBefore, failure>> /\ UNCHANGED recordingVars
    /\ UNCHANGED <<cursor, llmConsumed>>

\* AskUserQuestion takes the next step: an answer, an interrupt (which ends
\* the turn, subagents included), or one that does not belong there, which is
\* an error.
ReplayAsk ==
    /\ phase = "replaying" /\ \E a \in Agents :
       /\ doing[a] = "ask"
       /\ \/ /\ PeekFrontend.k = "answer"
             /\ Goes(a, PeekFrontend, "request")
             /\ UNCHANGED <<phase, files, toolsBefore, failure>> /\ UNCHANGED recordingVars
          \/ /\ PeekFrontend.k = "interrupt"
             /\ did' = [did EXCEPT ![a] = Append(@, Is("interrupted", 0))]
             /\ doing' = [doing EXCEPT !["top"] = "idle",
                                       !["child"] = IF @ = "none" THEN @ ELSE "gone"]
             /\ UNCHANGED <<phase, files, toolsBefore, failure>> /\ UNCHANGED recordingVars
          \/ /\ PeekFrontend.k \notin {"answer", "interrupt"}
             /\ ReplayFails("runtime")
    /\ cursor' = cursor + (IF PeekFrontend.k = "none" THEN 0 ELSE 1)
    /\ UNCHANGED <<llmConsumed, toolConsumed>>

\* Any other step ends the session; the shutdown step is consumed by the
\* frontend's shutdown, and every entry must then have been consumed.
ReplayEnd ==
    /\ phase = "replaying" /\ phase' = "done" /\ doing["top"] = "idle"
    /\ PeekFrontend.k \notin {"upload", "prompt", "interrupt"}
    /\ cursor' = cursor + (IF PeekFrontend.k = "shutdown" THEN 1 ELSE 0)
    /\ failure' = IF /\ llmConsumed = DOMAIN RecordedResponses
                     /\ toolConsumed = DOMAIN Executions
                     /\ cursor' = Len(FrontendSteps)
                  THEN "none" ELSE "script"
    /\ UNCHANGED <<doing, did, files, llmConsumed, toolConsumed, toolsBefore>>
    /\ UNCHANGED recordingVars

ReplayStep ==
    \/ NextUserInput \/ Uploaded \/ StoreUpload \/ ReplayAsk \/ ReplayEnd
    \/ (phase = "replaying" /\ Joined)
    \/ \E a \in Agents : ReplayRequest(a) \/ ReplayBash(a)

ReplayNext ==
    \/ ReplayStep
    \/ RecordPrompt \/ RecordUpload \/ RecordStore \/ TakeInput
    \/ RecordAnswer \/ RecordInterrupt \/ RecordShutdown
    \/ (phase = "recording" /\ Joined)
    \/ \E a \in Agents : RecordResponse(a) \/ RecordFailure(a) \/ RecordBash(a)

\* A replay runs on its own: no user, model or clock is waited for.
ReplaySpec == ReplayInit /\ [][ReplayNext]_replayVars /\ WF_replayVars(ReplayStep)

----------------------------------------------------------------------------
(* Properties. *)

\* A session whose users acted when the harness waited for them, and whose
\* requests to the model all succeeded, replays to exactly what was recorded,
\* every entry of the script consumed, whenever the uploads were stored and
\* whatever turn that was in: "an exact, deterministic rerun of the session"
\* (docs/REPLAY.md:5).  Conditions: prompts, uploads and interrupts sent during
\* a turn, and subagents, are not replayed at the point they were recorded at;
\* a request that failed (agent.rs:275) leaves no entry, so that the replay
\* asks for the next response in its place.
OrderlySessionsReplay ==
    phase = "done" /\ disorder = {} => failure = "none" /\ did = recorded

=============================================================================
