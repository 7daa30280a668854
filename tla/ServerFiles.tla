----------------------------- MODULE ServerFiles -----------------------------
(***************************************************************************)
(* The two kinds of file that outlive the server: the chat history of a    *)
(* user, which ChatService.Execute reads when a session starts and writes  *)
(* when it ends (usecase/chat_service.go, with the conversions of          *)
(* llm/gemini.go), and the cached speech of a text, which Synthesize reads *)
(* or makes (tts/google.go).                                               *)
(*                                                                         *)
(* One user has one or more connections, one after the other or at once:   *)
(* a doll that connects again finds the old session still storing.  Every  *)
(* session speaks the same greeting.  The process may be killed at any     *)
(* time, or panic where the chat cannot be created; it starts again with   *)
(* the files as they are.                                                  *)
(***************************************************************************)
EXTENDS Naturals, Sequences, FiniteSets

CONSTANTS Sessions,        \* connections of the user, used again and again
          MaxTurns,        \* bound: questions answered in all
          MaxCrashes       \* bound: how often the process is killed

ASSUME FilesAssumption == MaxTurns \in Nat /\ MaxCrashes \in Nat

\* An entry of a chat has a role and a content; contents are the prompt, or
\* the number of the turn.
Prompt == 0
Content == 0..MaxTurns
Entry == [role : {"user", "doll", "system"}, content : Content]
GeminiEntry == [role : {"user", "model"}, content : Content]

VARIABLES
    chat,          \* where Execute is in each session
    gemini,        \* the history of its chat with the language model
    speech,        \* where Synthesize is in each session
    history,       \* chat_history_<user>.json: <<>> before it exists, or a
                   \* sequence of entries
    torn,          \* the history file holds no whole JSON value
    cache,         \* the cached speech of the greeting
    turns,         \* turns so far
    overlapped,    \* two sessions of the user were open at once
    cut,           \* the last write to the history did not end
    cutSpeech,     \* nor did one to the cache
    lost,          \* turns of sessions that were killed or could not store them
    crashes

historyVars == <<history, torn, cut, lost>>
speechVars == <<speech, cache, cutSpeech>>
vars == <<chat, gemini, historyVars, speechVars, turns, overlapped, crashes>>

TypeOK ==
    /\ chat \in [Sessions -> {"off", "open", "decode", "ready", "failed", "create",
                              "encode"}]
    /\ gemini \in [Sessions -> Seq(GeminiEntry)]
    /\ speech \in [Sessions -> {"off", "lookup", "remote", "truncate", "write"}]
    /\ history \in Seq(Entry) /\ torn \in BOOLEAN
    /\ cache \in {"absent", "short", "whole"}
    /\ turns \in 0..MaxTurns /\ crashes \in 0..MaxCrashes
    /\ lost \subseteq 1..MaxTurns
    /\ overlapped \in BOOLEAN /\ cut \in BOOLEAN /\ cutSpeech \in BOOLEAN

Init ==
    /\ chat = [s \in Sessions |-> "off"]
    /\ gemini = [s \in Sessions |-> <<>>]
    /\ speech = [s \in Sessions |-> "off"]
    /\ history = <<>> /\ torn = FALSE
    /\ cache = "absent"
    /\ turns = 0 /\ crashes = 0
    /\ lost = {} /\ overlapped = FALSE /\ cut = FALSE /\ cutSpeech = FALSE

\* The turns that a sequence of entries tells of.
TurnsOf(entries) ==
    {entries[i].content : i \in {j \in DOMAIN entries : /\ entries[j].role = "user"
                                                       /\ entries[j].content # Prompt}}

Go(s, place) == chat' = [chat EXCEPT ![s] = place]
Leave(s) == Go(s, "off") /\ gemini' = [gemini EXCEPT ![s] = <<>>]
Say(s, place) == speech' = [speech EXCEPT ![s] = place]

------------------------------------------------------------------------------
(* Conversions *)

\* The prompt as the language model is given it.
PromptContent == [role |-> "user", content |-> Prompt]

\* The loop of GenerateChat: behind start goes every stored message that is not
\* the system's; what is not from the user is from the model.
Converted(start, stored) ==
    LET geminiHistory[n \in 0..Len(stored)] ==
            IF n = 0 THEN start
            ELSE IF stored[n].role = "system" THEN geminiHistory[n - 1]
            ELSE Append(geminiHistory[n - 1],
                        [role |-> IF stored[n].role = "user" THEN "user" ELSE "model",
                         content |-> stored[n].content])
    IN  geminiHistory[Len(stored)]

\* Mutant: the prompt is added whether or not the history has it.
GenerateChatAgain(stored) == Converted(<<PromptContent>>, stored)

\* GenerateChat: the prompt goes in front, as a message of the user, unless the
\* history starts with a system message.
GenerateChat(stored) ==
    LET hasSystemPrompt == stored # <<>> /\ stored[1].role = "system"
    IN  Converted(IF hasSystemPrompt THEN <<>> ELSE <<PromptContent>>, stored)

\* History: the system prompt, and what the language model knows.
History(known) ==
    <<[role |-> "system", content |-> Prompt]>>
        \o [i \in 1..Len(known) |->
               [role |-> IF known[i].role = "user" THEN "user" ELSE "doll",
                content |-> known[i].content]]

------------------------------------------------------------------------------
(* Execute *)

\* A connection; Execute and the greeting start.
Connect(s) ==
    /\ chat[s] = "off" /\ speech[s] = "off"
    /\ Go(s, "open") /\ Say(s, "lookup")
    /\ overlapped' = (overlapped \/ \E o \in Sessions : chat[o] # "off")
    /\ UNCHANGED <<gemini, historyVars, cache, cutSpeech, turns, crashes>>

\* os.Open: there is no file, there is one, or it cannot be opened.
Open(s) ==
    /\ chat[s] = "open"
    /\ \/ /\ history = <<>> /\ ~torn
          /\ gemini' = [gemini EXCEPT ![s] = GenerateChat(<<>>)]
          /\ Go(s, "ready")
       \/ /\ history # <<>> \/ torn
          /\ Go(s, "decode")
          /\ UNCHANGED gemini
       \/ Go(s, "failed") /\ UNCHANGED gemini
    /\ UNCHANGED <<historyVars, speechVars, turns, overlapped, crashes>>

\* decoder.Decode and GenerateChat.  Execute returns an error when the file
\* does not start with a JSON value.
Decode(s) ==
    /\ chat[s] = "decode"
    /\ \/ /\ torn
          /\ Go(s, "failed")
          /\ UNCHANGED gemini
       \/ /\ ~torn
          /\ gemini' = [gemini EXCEPT ![s] = GenerateChat(history)]
          /\ Go(s, "ready")
    /\ UNCHANGED <<historyVars, speechVars, turns, overlapped, crashes>>

\* SendMessage: the question and the answer enter the chat.  An error leaves
\* it as it is.
SendMessage(s) ==
    /\ chat[s] = "ready" /\ turns < MaxTurns
    /\ turns' = turns + 1
    /\ gemini' = [gemini EXCEPT ![s] = @ \o <<[role |-> "user", content |-> turns'],
                                              [role |-> "model", content |-> turns']>>]
    /\ UNCHANGED <<chat, historyVars, speechVars, overlapped, crashes>>

\* ctx.Done.  An Execute that failed has returned long ago.
Done(s) ==
    /\ \/ chat[s] = "ready" /\ Go(s, "create")
       \/ chat[s] = "failed" /\ Go(s, "off")
    /\ UNCHANGED <<gemini, historyVars, speechVars, turns, overlapped, crashes>>

\* os.Create empties the file, or fails.
Create(s) ==
    /\ chat[s] = "create"
    /\ \/ /\ torn' = TRUE
          /\ Go(s, "encode")
          /\ UNCHANGED <<gemini, lost>>
       \/ /\ lost' = lost \cup (TurnsOf(gemini[s]) \ TurnsOf(history))
          /\ Leave(s)
          /\ UNCHANGED torn
    /\ UNCHANGED <<history, cut, speechVars, turns, overlapped, crashes>>

\* Mutant: only what was said in the last session is written.
EncodeFresh(s) ==
    /\ chat[s] = "encode"
    /\ torn' = FALSE /\ cut' = FALSE
    /\ history' = History(SelectSeq(gemini[s], LAMBDA e : e.content \notin TurnsOf(history)))
    /\ Leave(s)
    /\ UNCHANGED <<lost, speechVars, turns, overlapped, crashes>>

\* encoder.Encode writes the JSON value at once from the start of the file;
\* what a longer one has left behind it is not read.  Or the disk is full.
Encode(s) ==
    /\ chat[s] = "encode"
    /\ \/ /\ torn' = FALSE /\ cut' = FALSE
          /\ history' = History(gemini[s])
          /\ UNCHANGED lost
       \/ /\ torn' = TRUE /\ cut' = TRUE
          /\ lost' = lost \cup TurnsOf(gemini[s])
          /\ UNCHANGED history
    /\ Leave(s)
    /\ UNCHANGED <<speechVars, turns, overlapped, crashes>>

Execute(s) == Open(s) \/ Decode(s) \/ SendMessage(s) \/ Done(s) \/ Create(s) \/ Encode(s)

------------------------------------------------------------------------------
(* Synthesize, of the greeting *)

\* Mutant: the file is made before the service is asked.
LookupReserve(s) ==
    /\ speech[s] = "lookup"
    /\ IF cache = "absent" THEN cache' = "short" /\ Say(s, "remote")
       ELSE UNCHANGED cache /\ Say(s, "off")
    /\ UNCHANGED <<chat, gemini, historyVars, cutSpeech, turns, overlapped, crashes>>

\* os.ReadFile: what is in the file is the speech.
Lookup(s) ==
    /\ speech[s] = "lookup"
    /\ IF cache = "absent" THEN Say(s, "remote") ELSE Say(s, "off")
    /\ UNCHANGED <<chat, gemini, historyVars, cache, cutSpeech, turns, overlapped, crashes>>

\* SynthesizeSpeech, which may fail.
Remote(s) ==
    /\ speech[s] = "remote"
    /\ Say(s, "truncate") \/ Say(s, "off")
    /\ UNCHANGED <<chat, gemini, historyVars, cache, cutSpeech, turns, overlapped, crashes>>

\* os.WriteFile makes the file empty, and then writes it; its errors are
\* ignored.
Truncate(s) ==
    /\ speech[s] = "truncate"
    /\ \/ cache' = "short" /\ Say(s, "write")
       \/ Say(s, "off") /\ UNCHANGED cache
    /\ UNCHANGED <<chat, gemini, historyVars, cutSpeech, turns, overlapped, crashes>>

WriteCache(s) ==
    /\ speech[s] = "write"
    /\ \/ cache' = "whole" /\ cutSpeech' = FALSE
       \/ cutSpeech' = TRUE /\ UNCHANGED cache
    /\ Say(s, "off")
    /\ UNCHANGED <<chat, gemini, historyVars, turns, overlapped, crashes>>

Synthesize(s) == Lookup(s) \/ Remote(s) \/ Truncate(s) \/ WriteCache(s)

------------------------------------------------------------------------------
\* The process ends, killed or by a panic, and is started again.  What a session has not stored is
\* lost.
Crash ==
    /\ crashes < MaxCrashes
    /\ crashes' = crashes + 1
    /\ cut' = (cut \/ \E s \in Sessions : chat[s] = "encode")
    /\ cutSpeech' = (cutSpeech \/ \E s \in Sessions : speech[s] = "write")
    /\ lost' = lost \cup ((UNION {TurnsOf(gemini[s]) : s \in Sessions}) \ TurnsOf(history))
    /\ chat' = [s \in Sessions |-> "off"]
    /\ gemini' = [s \in Sessions |-> <<>>]
    /\ speech' = [s \in Sessions |-> "off"]
    /\ UNCHANGED <<history, torn, cache, turns, overlapped>>

\* Chats.Create fails: GenerateChat panics, and the process ends.
GenerateChatPanics(s) ==
    /\ \/ chat[s] = "open" /\ history = <<>> /\ ~torn
       \/ chat[s] = "decode" /\ ~torn
    /\ Crash

Next ==
    \/ \E s \in Sessions :
          Connect(s) \/ Execute(s) \/ Synthesize(s) \/ GenerateChatPanics(s)
    \/ Crash

Spec == Init /\ [][Next]_vars

------------------------------------------------------------------------------
(* Properties *)

\* However often a history is stored, read back and converted between the
\* roles of the two sides, the language model sees a proper conversation: the
\* prompt once and first, then questions of the user and answers of the model
\* in turn, each pair once and in the order they were spoken.
ProperConversation ==
    \A s \in Sessions :
        LET known == gemini[s] IN
        chat[s] \in {"ready", "create", "encode"} =>
            /\ known[1] = PromptContent
            /\ \A i \in 2..Len(known) :
                   /\ known[i].role = IF i % 2 = 0 THEN "user" ELSE "model"
                   /\ IF i % 2 = 0 THEN known[i].content > known[i - 1].content
                                   ELSE known[i].content = known[i - 1].content

\* When the sessions of a user do not overlap, the history between two of them
\* has everything that was said, except what was said in a session that was
\* killed or could not store it.
HistoryKept ==
    ~overlapped /\ ~torn /\ (\A s \in Sessions : chat[s] = "off") =>
        TurnsOf(history) = (1..turns) \ lost

\* A file that cannot be read back is being written at this moment, or its
\* writing was cut off by the end of the process or by the disk.  (Then it
\* stays so, unless a session that has read it before stores again: one that
\* fails to read it never writes it.)
TornOnlyByFailure ==
    /\ torn => cut \/ \E s \in Sessions : chat[s] = "encode"
    /\ cache = "short" => cutSpeech \/ \E s \in Sessions : speech[s] = "write"
==============================================================================
