------------------------------- MODULE Voice -------------------------------
(***************************************************************************)
(* The voice assistant: microphone -> vad -> asr -> llm -> tool -> tts ->   *)
(* player, every one a threaded node with a lossless (block) inbox, as in   *)
(* voice_assistant_pipeline.yaml.  The VAD numbers the turns of the user;   *)
(* when the user talks over a reply it cancels the previous turn over the   *)
(* control channel, which reaches llm, tool, tts and player separately and  *)
(* at any later moment.                                                     *)
(*                                                                         *)
(* Text is a sequence of pieces; a piece carries its turn, its place in the *)
(* reply and its kind: ordinary text, the opening or the closing part of a  *)
(* tool-call marker, or the result of a tool.  A closing without an opening *)
(* is ordinary text to everyone.                                            *)
(* What an adaptive echo canceller leaves of a microphone chunk is one of   *)
(* three energies, so the reference blocks the player returns to the VAD,   *)
(* which only feed that canceller, do not appear.                           *)
(***************************************************************************)
EXTENDS Integers, Sequences, FiniteSets

CONSTANTS
  MaxTurns,    \* bound: turns the user starts
  MaxChunks,   \* bound: microphone chunks
  MaxDeltas,   \* pieces in one reply of the language model
  MaxTimers,   \* bound: reminders scheduled
  MinSpeech,   \* chunks of speech that make up min_speech_duration
  Kinds        \* kinds of piece the model may produce

ASSUME VoiceAssumption ==
  /\ MaxTurns \in Nat /\ MaxChunks \in Nat /\ MaxDeltas \in Nat
  /\ MaxTimers \in Nat /\ MinSpeech \in Nat
  /\ Kinds \subseteq {"text", "open", "close"}

VARIABLES
  stream,     \* llm_config.stream
  inbox,      \* per node, what was sent to it and not yet received
  cwire,      \* per node, turns whose CANCEL is on its way
  cancelled,  \* per node, _cancelled_turns of its mailbox
  vad,        \* VadFilterMixin: _turn_id, _in_speech, _last_cancel_at is set
  buffer,     \* AsrMixin._buffer: the turns of the buffered chunks
  llm,        \* the generator of LlmMixin: its turn (0: none) and items yielded
  history,    \* LlmMixin._history
  tool,       \* AgentToolNode: program point, _pending, _pending_turn_key
  timers,     \* reminders scheduled on timer threads, and already fired
  outbox,     \* AgentToolNode.outbox: number of reminders queued
  tts,        \* TtsMixin: _buffer and _buffer_turn_key
  player,     \* AudioPlayerNode: program point, chunk being played, blocks written
  chunks,     \* microphone chunks so far
  said,       \* history: per turn, what the language model produced
  sent,       \* history: per turn, what the tool node sent on, and whether to the end
  cut,        \* history: turns in the middle of which a reminder was sent
  late,       \* history: per turn, blocks written after its CANCEL had arrived
  outcome     \* history: per turn, "none", "asked" (transcribed), "heard" or "lost"

speaker == <<vad, buffer, chunks>>
writer == <<llm, history, said>>
toolbox == <<tool, timers, outbox, sent, cut>>
vars == <<stream, inbox, cwire, cancelled, speaker, writer, toolbox, tts, player, late, outcome>>

Turns == 1..MaxTurns
NONE == 0 - 1   \* the turn_id of a reminder: None

\* The data path, and the nodes vad's control_outputs name.
Nodes == {"asr", "llm", "tool", "tts", "player"}
ControlOutputs == {"llm", "tool", "tts", "player"}

Piece == [turn : Turns \cup {NONE}, n : 0..MaxDeltas, kind : {"text", "open", "close", "result"}]
AudioIn == [turn : 0..MaxTurns, drop : BOOLEAN]
Utterance == [turn : Turns, text : BOOLEAN]
TextChunk == [turn : Turns \cup {NONE}, text : Seq(Piece), final : BOOLEAN]
Audio == [turn : Turns \cup {NONE}, text : Seq(Piece)]
TurnKey == {<<>>} \cup {<<t>> : t \in Turns \cup {NONE}}

Reminder == [turn |-> NONE, text |-> <<[turn |-> NONE, n |-> 0, kind |-> "text"]>>, final |-> TRUE]

Init ==
  /\ stream \in BOOLEAN
  /\ inbox = [n \in Nodes |-> <<>>]
  /\ cwire = [n \in ControlOutputs |-> {}]
  /\ cancelled = [n \in ControlOutputs |-> {}]
  /\ vad = [turn |-> 0, speech |-> FALSE, cancelled |-> FALSE]
  /\ buffer = <<>>
  /\ llm = [turn |-> 0, n |-> 0]
  /\ history = <<>>
  /\ tool = [pc |-> "flush", pending |-> <<>>, key |-> <<>>]
  /\ timers = [set |-> 0, fired |-> 0]
  /\ outbox = 0
  /\ tts = [buffer |-> <<>>, key |-> <<>>]
  /\ player = [pc |-> "idle", turn |-> 0, text |-> <<>>, pos |-> 0]
  /\ chunks = 0
  /\ said = [t \in Turns |-> <<>>]
  /\ sent = [t \in Turns |-> [text |-> <<>>, final |-> FALSE]]
  /\ cut = {}
  /\ late = [t \in Turns |-> 0]
  /\ outcome = [t \in Turns |-> "none"]

\* Take the head of node n's inbox.
Take(n) == inbox' = [inbox EXCEPT ![n] = Tail(@)]

\* Take the head of node n's inbox and send m to the next node.
Pass(n, next, m) == inbox' = [inbox EXCEPT ![n] = Tail(@), ![next] = Append(@, m)]

\* Note what has become of turn t, unless that is settled; a reminder has no turn.
Settle(t, o) ==
  outcome' = [u \in Turns |-> IF u = t /\ outcome[u] \in {"none", "asked"} THEN o ELSE outcome[u]]

-----------------------------------------------------------------------------
(* The VAD, VadFilterMixin.process, on one microphone chunk.                 *)

\* _cooled_down: always before the first cancellation, afterwards the clock decides.
CooledDown(clock) == ~vad.cancelled \/ clock

\* The turn a chunk of the given energy belongs to.
TurnOf(energy) == IF energy # "silence" /\ ~vad.speech THEN vad.turn + 1 ELSE vad.turn

\* _cancel_turn: one CANCEL to every node of control_outputs.
\* Faulty variant: the turn is read after it was advanced.
CancelNewTurn(t) == cwire' = [n \in ControlOutputs |-> cwire[n] \cup {t + 1}]

CancelTurn(t) == cwire' = [n \in ControlOutputs |-> cwire[n] \cup {t}]

\* A silent chunk is marked `drop` and forwarded like any other.
\* Faulty variant: silent chunks are not forwarded.
ForwardSpeech(turn, energy) ==
  inbox' = IF energy = "silence" THEN inbox
           ELSE [inbox EXCEPT !["asr"] = Append(@, [turn |-> turn, drop |-> FALSE])]

Forward(turn, energy) ==
  inbox' = [inbox EXCEPT !["asr"] = Append(@, [turn |-> turn, drop |-> energy = "silence"])]

Hear(energy, clock) ==
  /\ chunks < MaxChunks
  /\ TurnOf(energy) <= MaxTurns
  /\ LET turn == TurnOf(energy)
         barge == turn > vad.turn /\ vad.turn > 0 /\ energy = "loud" /\ CooledDown(clock)
     IN /\ IF barge THEN CancelTurn(vad.turn) ELSE cwire' = cwire
        /\ vad' = [turn |-> turn, speech |-> energy # "silence", cancelled |-> vad.cancelled \/ barge]
        /\ Forward(turn, energy)
  /\ chunks' = chunks + 1
  /\ UNCHANGED <<stream, cancelled, buffer, writer, toolbox, tts, player, late, outcome>>

\* The control receiver thread of node n's mailbox.
DeliverCancel(n, t) ==
  /\ t \in cwire[n]
  /\ cwire' = [cwire EXCEPT ![n] = @ \ {t}]
  /\ cancelled' = [cancelled EXCEPT ![n] = @ \cup {t}]
  /\ UNCHANGED <<stream, inbox, speaker, writer, toolbox, tts, player, late, outcome>>

-----------------------------------------------------------------------------
(* The ASR node, AsrMixin.process.                                           *)

asrFrame == <<stream, cwire, cancelled, vad, chunks, writer, toolbox, tts, player, late>>

\* Speech is buffered; silence with nothing buffered is ignored.
AsrBuffer ==
  /\ inbox["asr"] # <<>>
  /\ LET chunk == Head(inbox["asr"])
     IN /\ ~chunk.drop \/ buffer = <<>>
        /\ buffer' = IF chunk.drop THEN buffer ELSE Append(buffer, chunk.turn)
  /\ Take("asr")
  /\ UNCHANGED <<asrFrame, outcome>>

\* Silence ends the utterance.  The buffer is emptied before the length is
\* looked at and before transcribe() is called: an utterance too short, or
\* one whose transcription raises, is gone.  A transcription may be blank.
AsrFlush(result) ==
  /\ inbox["asr"] # <<>>
  /\ Head(inbox["asr"]).drop
  /\ buffer # <<>>
  /\ buffer' = <<>>
  /\ LET turn == buffer[Len(buffer)]
     IN IF Len(buffer) < MinSpeech \/ result = "raise"
        THEN Take("asr") /\ Settle(turn, "lost")
        ELSE Pass("asr", "llm", [turn |-> turn, text |-> result = "text"]) /\ Settle(turn, "asked")
  /\ UNCHANGED asrFrame

-----------------------------------------------------------------------------
(* The LLM node, LlmMixin.process under the generator policy.  A check of     *)
(* the cancelled turns and the item that follows it are one step: a CANCEL    *)
(* that arrives in between is seen by nobody else, so it may as well have     *)
(* arrived afterwards.                                                        *)

llmFrame == <<stream, cwire, cancelled, speaker, toolbox, tts, player, late>>

\* The policy lets the generator run: a check comes before every item, the
\* one before the first item is part of taking the message.
MayGoOn == llm.n = 0 \/ llm.turn \notin cancelled["llm"]

ToTool(turn, text, final) ==
  inbox' = [inbox EXCEPT !["tool"] = Append(@, [turn |-> turn, text |-> text, final |-> final])]

\* _handle skips a cancelled turn, process() a blank text; otherwise the user's
\* message enters the history before the backend is asked.
LlmTake ==
  /\ llm.turn = 0
  /\ inbox["llm"] # <<>>
  /\ Take("llm")
  /\ LET chunk == Head(inbox["llm"])
     IN IF chunk.turn \in cancelled["llm"] \/ ~chunk.text
        THEN Settle(chunk.turn, "lost") /\ UNCHANGED <<llm, history>>
        ELSE /\ llm' = [turn |-> chunk.turn, n |-> 0]
             /\ history' = Append(history, [role |-> "user", turn |-> chunk.turn])
             /\ UNCHANGED outcome
  /\ UNCHANGED <<llmFrame, said>>

\* A streamed delta.
LlmDelta(kind) ==
  /\ stream
  /\ llm.turn # 0 /\ llm.n < MaxDeltas
  /\ MayGoOn
  /\ LET piece == [turn |-> llm.turn, n |-> llm.n + 1, kind |-> kind]
     IN /\ ToTool(llm.turn, <<piece>>, FALSE)
        /\ said' = [said EXCEPT ![llm.turn] = Append(@, piece)]
  /\ llm' = [llm EXCEPT !.n = @ + 1]
  /\ UNCHANGED <<llmFrame, history, outcome>>

\* The stream ends: the reply enters the history, the empty final chunk goes out.
\* Faulty variant: the final chunk is forgotten.
LlmEndSilently ==
  /\ stream
  /\ llm.turn # 0
  /\ MayGoOn
  /\ history' = Append(history, [role |-> "assistant", turn |-> llm.turn])
  /\ llm' = [turn |-> 0, n |-> 0]
  /\ UNCHANGED <<llmFrame, inbox, said, outcome>>

LlmEnd ==
  /\ stream
  /\ llm.turn # 0
  /\ MayGoOn
  /\ history' = Append(history, [role |-> "assistant", turn |-> llm.turn])
  /\ ToTool(llm.turn, <<>>, TRUE)
  /\ llm' = [turn |-> 0, n |-> 0]
  /\ UNCHANGED <<llmFrame, said, outcome>>

\* Not streaming: generate() cannot be interrupted, one final chunk goes out.
LlmGenerate(kinds) ==
  /\ ~stream
  /\ llm.turn # 0
  /\ LET reply == [i \in DOMAIN kinds |-> [turn |-> llm.turn, n |-> i, kind |-> kinds[i]]]
     IN /\ ToTool(llm.turn, reply, TRUE)
        /\ said' = [said EXCEPT ![llm.turn] = reply]
  /\ history' = Append(history, [role |-> "assistant", turn |-> llm.turn])
  /\ llm' = [turn |-> 0, n |-> 0]
  /\ UNCHANGED <<llmFrame, outcome>>

\* The policy closes the generator between two deltas; no reply is recorded.
LlmCancelled ==
  /\ llm.turn # 0
  /\ ~MayGoOn
  /\ llm' = [turn |-> 0, n |-> 0]
  /\ UNCHANGED <<llmFrame, inbox, history, said, outcome>>

\* The backend raises, before or after the first delta; the message is skipped.
LlmRaise ==
  /\ llm.turn # 0
  /\ MayGoOn
  /\ Settle(llm.turn, "lost")
  /\ llm' = [turn |-> 0, n |-> 0]
  /\ UNCHANGED <<llmFrame, inbox, history, said>>

Replies == UNION {[1..n -> Kinds] : n \in 0..MaxDeltas}

LlmStep ==
  \/ LlmTake \/ LlmEnd \/ LlmCancelled \/ LlmRaise
  \/ \E k \in Kinds : LlmDelta(k)
  \/ \E r \in Replies : LlmGenerate(r)

-----------------------------------------------------------------------------
(* The tool node, AgentToolNode and AgentToolMixin.                           *)

toolFrame == <<stream, cwire, cancelled, speaker, writer, tts, player, late>>

\* A timer thread, TimerTool._fire: only the queue is touched.
Fire ==
  /\ timers.fired < timers.set
  /\ timers' = [timers EXCEPT !.fired = @ + 1]
  /\ outbox' = outbox + 1
  /\ UNCHANGED <<toolFrame, inbox, tool, sent, cut, outcome>>

\* _flush_outbox sends whatever is queued, from the node's thread.
ToolFlush ==
  /\ tool.pc = "flush"
  /\ outbox > 0
  /\ outbox' = outbox - 1
  /\ inbox' = [inbox EXCEPT !["tts"] = Append(@, Reminder)]
  /\ cut' = cut \cup {t \in Turns : sent[t].text # <<>> /\ ~sent[t].final}
  /\ UNCHANGED <<toolFrame, tool, timers, sent, outcome>>

\* The outbox is empty: receive().
ToolReceive ==
  /\ tool.pc = "flush"
  /\ outbox = 0
  /\ tool' = [tool EXCEPT !.pc = "receive"]
  /\ UNCHANGED <<toolFrame, inbox, timers, outbox, sent, cut, outcome>>

\* receive() times out, or returns a chunk of a cancelled turn, which _handle skips.
ToolNothing ==
  /\ tool.pc = "receive"
  /\ \/ inbox["tool"] = <<>> /\ inbox' = inbox
     \/ /\ inbox["tool"] # <<>>
        /\ Head(inbox["tool"]).turn \in cancelled["tool"]
        /\ Take("tool")
  /\ tool' = [tool EXCEPT !.pc = "flush"]
  /\ UNCHANGED <<toolFrame, timers, outbox, sent, cut, outcome>>

\* _incomplete_marker_start: the place of the last opening with no closing after it.
IncompleteMarkerStart(text) ==
  LET Unclosed(i) == text[i].kind = "open" /\ \A j \in DOMAIN text : j > i => text[j].kind \notin {"open", "close"}
  IN IF \E i \in DOMAIN text : Unclosed(i) THEN CHOOSE i \in DOMAIN text : Unclosed(i) ELSE Len(text) + 1

\* Everything from an opening to a later closing.
Spans(text) ==
  {c \in (DOMAIN text) \X (DOMAIN text) :
     c[1] < c[2] /\ text[c[1]].kind = "open" /\ text[c[2]].kind = "close"}

\* _TOOL_CALL_RE: any spans that do not overlap may read as well-formed calls.
Calls(text) ==
  {calls \in SUBSET Spans(text) : \A c, d \in calls : c = d \/ c[2] < d[1] \/ d[2] < c[1]}

\* _LEFTOVER_MARKER_RE: from an opening outside any other match to the next closing.
Leftovers(text) ==
  {c \in Spans(text) :
     /\ \A k \in c[1]..c[2] - 1 : text[k].kind # "close"
     /\ \A k \in 1..c[1] - 1 : text[k].kind = "open" => \E l \in k..c[1] : text[l].kind = "close"}

\* The text without the pieces at the places in gone.
Without(text, gone) ==
  LET Left(k) == k \notin gone
      places == SelectSeq([k \in DOMAIN text |-> k], Left)
  IN [i \in DOMAIN places |-> text[places[i]]]

\* _resolve_text: a call becomes the text of its result, error messages
\* included; what then still looks like a marker is stripped.
ResolveText(text, calls) ==
  LET opened == [k \in DOMAIN text |->
                   IF \E c \in calls : k = c[1] THEN [text[k] EXCEPT !.kind = "result"] ELSE text[k]]
      called == Without(opened, UNION {c[1] + 1..c[2] : c \in calls})
  IN Without(called, UNION {c[1]..c[2] : c \in Leftovers(called)})

\* What a call comes to; a tool may raise what the mixin does not catch.
Results == {"answer", "timer", "raise"}

\* The timers started, before anything raises.
TimersSet(result) ==
  Cardinality({c \in DOMAIN result :
    result[c] = "timer" /\ \A d \in DOMAIN result : result[d] = "raise" => c[1] < d[1]})

\* The text held back for the turn of the chunk; that of another turn is discarded.
\* Faulty variant: held-back text survives the change of turn.
PendingAnyTurn(chunk) == tool.pending

PendingFor(chunk) == IF tool.key = <<chunk.turn>> THEN tool.pending ELSE <<>>

\* AgentToolMixin.process on one chunk, and the send of its result.  An
\* exception leaves the mixin after _pending is updated; the chunk is skipped.
ToolProcess ==
  /\ tool.pc = "receive"
  /\ inbox["tool"] # <<>>
  /\ Head(inbox["tool"]).turn \notin cancelled["tool"]
  /\ LET chunk == Head(inbox["tool"])
         text == PendingFor(chunk) \o chunk.text
         split == IF chunk.final THEN Len(text) + 1 ELSE IncompleteMarkerStart(text)
         ready == SubSeq(text, 1, split - 1)
     IN /\ tool' = [pc |-> "flush",
                    pending |-> SubSeq(text, split, Len(text)),
                    key |-> IF chunk.final THEN <<>> ELSE <<chunk.turn>>]
        /\ \E calls \in Calls(ready) : \E result \in [calls -> Results] :
             /\ timers.set + TimersSet(result) <= MaxTimers
             /\ timers' = [timers EXCEPT !.set = @ + TimersSet(result)]
             /\ IF \E c \in DOMAIN result : result[c] = "raise"
                THEN /\ Take("tool")
                     /\ IF chunk.final THEN Settle(chunk.turn, "lost") ELSE outcome' = outcome
                     /\ sent' = sent
                ELSE LET out == ResolveText(ready, calls)
                     IN /\ Pass("tool", "tts", [chunk EXCEPT !.text = out])
                        /\ sent' = [sent EXCEPT ![chunk.turn] =
                                      [text |-> @.text \o out, final |-> chunk.final]]
                        /\ outcome' = outcome
  /\ UNCHANGED <<toolFrame, outbox, cut>>

ToolStep == ToolFlush \/ ToolReceive \/ ToolNothing \/ ToolProcess

-----------------------------------------------------------------------------
(* The TTS node, TtsMixin.process.                                            *)

ttsFrame == <<stream, cwire, cancelled, speaker, writer, toolbox, player, late>>

\* _handle skips a chunk of a cancelled turn.
TtsSkip ==
  /\ inbox["tts"] # <<>>
  /\ Head(inbox["tts"]).turn \in cancelled["tts"]
  /\ Take("tts")
  /\ UNCHANGED <<ttsFrame, tts, outcome>>

\* The buffer with the chunk's text; a chunk of another turn starts it afresh.
\* Faulty variant: the buffer is not keyed by turn.
BufferedAnyTurn(chunk) == tts.buffer \o chunk.text

BufferedWith(chunk) == IF tts.key = <<chunk.turn>> THEN tts.buffer \o chunk.text ELSE chunk.text

\* A delta is buffered; the final chunk empties the buffer into one synthesis.
\* Nothing is heard if the text is empty, or if it is once _sanitize_for_speech
\* has stripped its markdown, or if synthesize() raises (~ok).
TtsProcess(ok) ==
  /\ inbox["tts"] # <<>>
  /\ Head(inbox["tts"]).turn \notin cancelled["tts"]
  /\ LET chunk == Head(inbox["tts"])
         text == BufferedWith(chunk)
     IN IF ~chunk.final
        THEN tts' = [buffer |-> text, key |-> <<chunk.turn>>] /\ Take("tts") /\ UNCHANGED outcome
        ELSE /\ tts' = [buffer |-> <<>>, key |-> <<>>]
             /\ IF text = <<>> \/ ~ok
                THEN Take("tts") /\ Settle(chunk.turn, "lost")
                ELSE /\ Pass("tts", "player", [turn |-> chunk.turn, text |-> text])
                     /\ UNCHANGED outcome
  /\ UNCHANGED ttsFrame

TtsStep == TtsSkip \/ \E ok \in BOOLEAN : TtsProcess(ok)

-----------------------------------------------------------------------------
(* The player, AudioPlayerNode.process: one block per piece of the text.      *)

playerFrame == <<stream, cwire, cancelled, speaker, writer, toolbox, tts>>
Idle == [pc |-> "idle", turn |-> 0, text |-> <<>>, pos |-> 0]

PlayTake ==
  /\ player.pc = "idle"
  /\ inbox["player"] # <<>>
  /\ LET audio == Head(inbox["player"])
     IN player' = IF audio.turn \in cancelled["player"] THEN Idle
                  ELSE [pc |-> "check", turn |-> audio.turn, text |-> audio.text, pos |-> 0]
  /\ Take("player")
  /\ UNCHANGED <<playerFrame, late, outcome>>

\* Before every block the turn is looked up again; after the last, process() ends.
\* Faulty variant: the turn is looked up before the first block only.
PlayCheckOnce ==
  /\ player.pc = "check"
  /\ IF player.pos = Len(player.text)
     THEN player' = Idle /\ Settle(player.turn, "heard")
     ELSE /\ player' = IF player.turn \in cancelled["player"] /\ player.pos = 0
                       THEN Idle ELSE [player EXCEPT !.pc = "write"]
          /\ UNCHANGED outcome
  /\ UNCHANGED <<playerFrame, inbox, late>>

PlayCheck ==
  /\ player.pc = "check"
  /\ IF player.pos = Len(player.text)
     THEN player' = Idle /\ Settle(player.turn, "heard")
     ELSE /\ player' = IF player.turn \in cancelled["player"] THEN Idle ELSE [player EXCEPT !.pc = "write"]
          /\ UNCHANGED outcome
  /\ UNCHANGED <<playerFrame, inbox, late>>

\* device.write of one block.
PlayWrite ==
  /\ player.pc = "write"
  /\ player' = [player EXCEPT !.pc = "check", !.pos = @ + 1]
  /\ late' = [t \in Turns |->
                IF t = player.turn /\ t \in cancelled["player"] THEN late[t] + 1 ELSE late[t]]
  /\ UNCHANGED <<playerFrame, inbox, outcome>>

\* device.write raises; what is left of the chunk is not played.
PlayRaise ==
  /\ player.pc = "write"
  /\ player' = Idle
  /\ Settle(player.turn, "lost")
  /\ UNCHANGED <<playerFrame, inbox, late>>

PlayerStep == PlayTake \/ PlayCheck \/ PlayWrite \/ PlayRaise

-----------------------------------------------------------------------------
AsrStep == AsrBuffer \/ \E result \in {"text", "blank", "raise"} : AsrFlush(result)
ControlStep == \E n \in ControlOutputs, t \in Turns : DeliverCancel(n, t)

Next ==
  \/ \E energy \in {"silence", "soft", "loud"}, clock \in BOOLEAN : Hear(energy, clock)
  \/ ControlStep \/ AsrStep \/ LlmStep \/ Fire \/ ToolStep \/ TtsStep \/ PlayerStep

Spec == Init /\ [][Next]_vars

-----------------------------------------------------------------------------
(* Every variable has its type; a turn's number never exceeds the VAD's.      *)
TypeOK ==
  /\ stream \in BOOLEAN
  /\ DOMAIN inbox = Nodes
  /\ inbox["asr"] \in Seq(AudioIn)
  /\ inbox["llm"] \in Seq(Utterance)
  /\ inbox["tool"] \in Seq(TextChunk)
  /\ inbox["tts"] \in Seq(TextChunk)
  /\ inbox["player"] \in Seq(Audio)
  /\ vad \in [turn : 0..MaxTurns, speech : BOOLEAN, cancelled : BOOLEAN]
  /\ cwire \in [ControlOutputs -> SUBSET (1..vad.turn - 1)]
  /\ cancelled \in [ControlOutputs -> SUBSET (1..vad.turn - 1)]
  /\ buffer \in Seq(1..vad.turn)
  /\ llm \in [turn : 0..vad.turn, n : 0..MaxDeltas]
  /\ history \in Seq([role : {"user", "assistant"}, turn : 1..vad.turn])
  /\ tool \in [pc : {"flush", "receive"}, pending : Seq(Piece), key : TurnKey]
  /\ timers \in [set : 0..MaxTimers, fired : 0..MaxTimers]
  /\ outbox \in 0..MaxTimers
  /\ tts \in [buffer : Seq(Piece), key : TurnKey]
  /\ player \in [pc : {"idle", "check", "write"}, turn : NONE..MaxTurns, text : Seq(Piece), pos : 0..MaxDeltas]
  /\ chunks \in 0..MaxChunks
  /\ said \in [Turns -> Seq(Piece)]
  /\ sent \in [Turns -> [text : Seq(Piece), final : BOOLEAN]]
  /\ cut \subseteq Turns
  /\ late \in [Turns -> Nat]
  /\ outcome \in [Turns -> {"none", "asked", "heard", "lost"}]

(* What is transcribed as one utterance was said in one turn: a new turn never *)
(* reaches the ASR buffer before the silence that ends the turn before it,      *)
(* because the VAD forwards silent chunks, marked, instead of dropping them.    *)
UtteranceOfOneTurn == \A i, j \in DOMAIN buffer : buffer[i] = buffer[j]

Audible ==
  {inbox["player"][i] : i \in DOMAIN inbox["player"]}
    \cup (IF player.pc = "idle" THEN {} ELSE {[turn |-> player.turn, text |-> player.text]})

IsTail(s, t) == \E k \in 0..Len(t) : s = SubSeq(t, k + 1, Len(t))

(* However turns are cancelled in the middle, fail in the middle or are         *)
(* overtaken by reminders, what the player is given for a turn is the end of    *)
(* that turn's own reply, with nothing of another turn and no gap in it; and    *)
(* it is the whole reply unless a reminder was sent in the middle of it.        *)
RepliesIntact ==
  \A a \in Audible : a.turn # NONE =>
    /\ IsTail(a.text, sent[a.turn].text)
    /\ a.turn \in cut \/ a.text = sent[a.turn].text

(* A marker the language model has completed is never passed on as text, in     *)
(* however many deltas it arrives and whatever is cancelled or sent in          *)
(* between, and what is passed on for a turn are pieces of its own reply, none   *)
(* twice and none out of order.                                                 *)
MarkersResolved ==
  \A t \in Turns :
    /\ \A i \in DOMAIN sent[t].text : sent[t].text[i].turn = t
    /\ \A i, j \in DOMAIN sent[t].text : i < j => sent[t].text[i].n < sent[t].text[j].n
    /\ \A i \in DOMAIN sent[t].text, m \in DOMAIN said[t] :
         /\ sent[t].text[i].kind = "open"
         /\ said[t][m].kind = "close" /\ m > sent[t].text[i].n
         => \E k \in sent[t].text[i].n + 1..m - 1 : said[t][k].kind \in {"open", "close"}

(* What is spoken for a turn is that turn's reply, with its markers resolved.    *)
RepliesSound == RepliesIntact /\ MarkersResolved

(* Barge-in: once the CANCEL of a turn has arrived at the player, at most the   *)
(* block that is already being written is still heard of it, however long the   *)
(* reply is and however much of it the nodes before, which may not have the     *)
(* CANCEL yet, still produce.                                                   *)
BargeInCutsPlayback == \A t \in Turns : late[t] <= 1

AtRest ==
  /\ \A n \in Nodes : inbox[n] = <<>>
  /\ \A n \in ControlOutputs : cwire[n] = {}
  /\ llm.turn = 0 /\ player.pc = "idle"

(* No question is forgotten: when every node waits for input, each utterance   *)
(* that was transcribed has been answered aloud, unless its turn was cancelled  *)
(* or something failed on the way: a blank text, a raising backend, tool or     *)
(* device, a reply of which nothing is left to say.                             *)
NoQuestionForgotten ==
  AtRest => \A t \in Turns : outcome[t] = "asked" => t \in cancelled["player"]

(* tts_mixin.py: the TTS "buffers text from every chunk" and makes one          *)
(* synthesis per reply; what is spoken for a turn is its reply.                 *)
ReplySpokenWhole == \A a \in Audible : a.turn # NONE => a.text = sent[a.turn].text
=============================================================================
