---------------------------- MODULE VoiceProofs ----------------------------
(***************************************************************************)
(* Three properties of the voice assistant for any number of turns,        *)
(* chunks, pieces and timers: an utterance never mixes turns, a barge-in   *)
(* cuts playback within one block, and no question is forgotten.           *)
(***************************************************************************)
EXTENDS Voice, SequenceTheorems, TLAPS

-----------------------------------------------------------------------------
MicChunk == [turn : Int, drop : BOOLEAN]

(* What the two proofs need to know of the types.                            *)
Shape ==
  /\ inbox = [n \in Nodes |-> inbox[n]]
  /\ inbox["asr"] \in Seq(MicChunk)
  /\ buffer \in Seq(Int)
  /\ vad.turn \in Int /\ vad.speech \in BOOLEAN
  /\ cancelled \in [ControlOutputs -> SUBSET Turns]
  /\ cwire \in [ControlOutputs -> SUBSET Turns]
  /\ late \in [Turns -> Nat]
  /\ player = [pc |-> player.pc, turn |-> player.turn, text |-> player.text, pos |-> player.pos]

\* Between speech of two turns on its way to the ASR, queue q, there is silence.
SilenceBetween(q) ==
  \A i, j \in 1..Len(q) :
    i < j /\ ~q[i].drop /\ ~q[j].drop /\ q[i].turn # q[j].turn => \E k \in i..j : q[k].drop

\* Between buffered speech b and speech of another turn there is silence.
SilenceAfterBuffer(b, q) ==
  \A h \in 1..Len(b), j \in 1..Len(q) :
    ~q[j].drop /\ q[j].turn # b[h] => \E k \in 1..j : q[k].drop

\* Speech that no silence follows is that of the turn going on.
LastIsCurrent(b, q, speech, turn) ==
  /\ \A i \in 1..Len(q) :
       (\A k \in i..Len(q) : ~q[k].drop) => speech /\ q[i].turn = turn
  /\ \A h \in 1..Len(b) :
       (\A k \in 1..Len(q) : ~q[k].drop) => speech /\ b[h] = turn

OneTurn(b) == \A h, i \in 1..Len(b) : b[h] = b[i]

Separated(b, q, speech, turn) ==
  SilenceBetween(q) /\ SilenceAfterBuffer(b, q) /\ LastIsCurrent(b, q, speech, turn) /\ OneTurn(b)

\* Blocks counted as late, and the block being written, belong to cancelled turns.
LateInv ==
  \A t \in Turns :
    /\ late[t] <= 1
    /\ t \notin cancelled["player"] => late[t] = 0
    /\ player.pc = "write" /\ player.turn = t => late[t] = 0

SpeechInv == Separated(buffer, inbox["asr"], vad.speech, vad.turn)

IInv == Shape /\ SpeechInv /\ LateInv

-----------------------------------------------------------------------------
(* Initially nothing is said and nothing cancelled.                          *)
LEMMA InitIInv == Init => IInv
<1> SUFFICES ASSUME Init PROVE IInv
  OBVIOUS
<1>1. Shape
  BY DEF Init, Shape, Nodes, ControlOutputs
<1>2. SpeechInv
  BY DEF Init, SpeechInv, Separated, SilenceBetween, SilenceAfterBuffer, LastIsCurrent, OneTurn, Nodes
<1>3. LateInv
  BY DEF Init, LateInv
<1> QED
  BY <1>1, <1>2, <1>3 DEF IInv

\* A step that has nothing to do with the microphone side.
NoSpeech == inbox'["asr"] = inbox["asr"] /\ UNCHANGED <<vad, buffer>>

\* A step of the llm, tool or tts node.
Elsewhere ==
  /\ inbox' = [n \in Nodes |-> inbox'[n]]
  /\ NoSpeech
  /\ UNCHANGED <<cwire, cancelled, player, late>>

(* The microphone side only changes in the VAD and the ASR.                  *)
LEMMA SpeechKept == SpeechInv /\ NoSpeech => SpeechInv'
BY DEF SpeechInv, NoSpeech

(* Blocks are only counted by the player.                                    *)
LEMMA LateKept == LateInv /\ UNCHANGED <<cancelled, player, late>> => LateInv'
BY DEF LateInv

(* A step away from the microphone and the player keeps the invariant.       *)
LEMMA ElsewhereKept == IInv /\ Elsewhere => IInv'
<1> SUFFICES ASSUME IInv, Elsewhere PROVE IInv'
  OBVIOUS
<1>1. Shape'
  BY DEF IInv, Shape, Elsewhere, NoSpeech
<1>2. SpeechInv' /\ LateInv'
  BY SpeechKept, LateKept DEF IInv, Elsewhere
<1> QED
  BY <1>1, <1>2 DEF IInv

-----------------------------------------------------------------------------
(* The llm, tool and tts nodes and the timers touch neither the microphone   *)
(* side nor the player.                                                      *)
LEMMA LlmElsewhere == Shape /\ LlmStep => Elsewhere
<1> SUFFICES ASSUME Shape, LlmStep PROVE Elsewhere
  OBVIOUS
<1> USE DEF Elsewhere, NoSpeech, llmFrame, speaker, Shape, Nodes, Take, ToTool
<1>1. CASE LlmTake
  BY <1>1 DEF LlmTake
<1>2. CASE LlmEnd
  BY <1>2 DEF LlmEnd
<1>3. CASE LlmCancelled
  BY <1>3 DEF LlmCancelled
<1>4. CASE LlmRaise
  BY <1>4 DEF LlmRaise
<1>5. ASSUME NEW k \in Kinds, LlmDelta(k) PROVE Elsewhere
  BY <1>5 DEF LlmDelta
<1>6. ASSUME NEW r \in Replies, LlmGenerate(r) PROVE Elsewhere
  BY <1>6 DEF LlmGenerate
<1> QED
  BY <1>1, <1>2, <1>3, <1>4, <1>5, <1>6 DEF LlmStep

(* So it is for the tool node and its timers ...                             *)
LEMMA ToolElsewhere == Shape /\ (ToolStep \/ Fire) => Elsewhere
<1> SUFFICES ASSUME Shape, ToolStep \/ Fire PROVE Elsewhere
  OBVIOUS
<1> USE DEF Elsewhere, NoSpeech, toolFrame, speaker, Shape, Nodes, Take, Pass
<1>1. CASE Fire
  BY <1>1 DEF Fire
<1>2. CASE ToolFlush
  BY <1>2 DEF ToolFlush
<1>3. CASE ToolReceive
  BY <1>3 DEF ToolReceive
<1>4. CASE ToolNothing
  BY <1>4 DEF ToolNothing
<1>5. CASE ToolProcess
  BY <1>5 DEF ToolProcess
<1> QED
  BY <1>1, <1>2, <1>3, <1>4, <1>5 DEF ToolStep

(* ... and for the TTS.                                                      *)
LEMMA TtsElsewhere == Shape /\ TtsStep => Elsewhere
<1> SUFFICES ASSUME Shape, TtsStep PROVE Elsewhere
  OBVIOUS
<1> USE DEF Elsewhere, NoSpeech, ttsFrame, speaker, Shape, Nodes, Take, Pass
<1>1. CASE TtsSkip
  BY <1>1 DEF TtsSkip
<1>2. ASSUME NEW ok \in BOOLEAN, TtsProcess(ok) PROVE Elsewhere
  BY <1>2 DEF TtsProcess
<1> QED
  BY <1>1, <1>2 DEF TtsStep

-----------------------------------------------------------------------------
(* The player: a block is started only for a turn it does not know to be     *)
(* cancelled, so the one being written is the only one that can be late.     *)
LEMMA PlayerKeeps == IInv /\ PlayerStep => IInv'
<1> SUFFICES ASSUME IInv, PlayerStep PROVE IInv'
  OBVIOUS
<1> USE DEF Nodes, Take, playerFrame, speaker
<1>1. NoSpeech /\ inbox' = [n \in Nodes |-> inbox'[n]] /\ UNCHANGED <<cwire, cancelled>>
  BY DEF IInv, Shape, NoSpeech, PlayerStep, PlayTake, PlayCheck, PlayWrite, PlayRaise
<1>2. Shape' /\ LateInv'
  <2>1. CASE PlayTake
    BY <1>1, <2>1 DEF IInv, Shape, NoSpeech, LateInv, PlayTake, Idle
  <2>2. CASE PlayCheck
    <3>1. /\ late' = late
          /\ player'.pc = "write" => player'.turn = player.turn /\ player.turn \notin cancelled["player"]
      BY <2>2 DEF IInv, Shape, PlayCheck, Idle
    <3>2. player' = [pc |-> player'.pc, turn |-> player'.turn, text |-> player'.text, pos |-> player'.pos]
      BY <2>2 DEF IInv, Shape, PlayCheck, Idle
    <3>3. Shape'
      BY <1>1, <3>1, <3>2 DEF IInv, Shape, NoSpeech
    <3> QED
      BY <1>1, <3>1, <3>3 DEF IInv, LateInv
  <2>3. CASE PlayWrite
    <3>1. player'.pc = "check"
      BY <2>3 DEF IInv, Shape, PlayWrite
    <3>2. player' = [pc |-> player'.pc, turn |-> player'.turn, text |-> player'.text, pos |-> player'.pos]
      BY <2>3 DEF IInv, Shape, PlayWrite
    <3>3. \A t \in Turns :
            late'[t] = IF t = player.turn /\ t \in cancelled["player"] THEN late[t] + 1 ELSE late[t]
      BY <2>3 DEF PlayWrite
    <3>4. late' \in [Turns -> Nat]
      BY <2>3 DEF PlayWrite, IInv, Shape
    <3>5. Shape'
      BY <1>1, <3>2, <3>4 DEF IInv, Shape, NoSpeech
    <3>6. player.pc = "write"
      BY <2>3 DEF PlayWrite
    <3> QED
      BY <1>1, <3>1, <3>3, <3>5, <3>6 DEF IInv, LateInv, Shape
  <2>4. CASE PlayRaise
    BY <1>1, <2>4 DEF IInv, Shape, NoSpeech, LateInv, PlayRaise, Idle
  <2> QED
    BY <2>1, <2>2, <2>3, <2>4 DEF PlayerStep
<1> QED
  BY <1>1, <1>2, SpeechKept DEF IInv

(* A CANCEL that arrives makes no block late by itself.                      *)
LEMMA CancelKeeps == IInv /\ ControlStep => IInv'
<1> SUFFICES ASSUME IInv, NEW n \in ControlOutputs, NEW t \in Turns, DeliverCancel(n, t)
             PROVE IInv'
  BY DEF ControlStep
<1>1. NoSpeech /\ UNCHANGED <<inbox, player, late>>
  BY DEF DeliverCancel, NoSpeech, speaker
<1>2. Shape'
  BY <1>1 DEF IInv, Shape, NoSpeech, DeliverCancel
<1>3. LateInv'
  BY <1>1 DEF IInv, Shape, LateInv, DeliverCancel, ControlOutputs
<1> QED
  BY <1>1, <1>2, <1>3, SpeechKept DEF IInv

-----------------------------------------------------------------------------
(* A place in a sequence that has grown by one is an old one or the last.      *)
LEMMA LastOrBefore ==
  ASSUME NEW n \in Nat, NEW j \in 1..n + 1
  PROVE  j <= n \/ j = n + 1
OBVIOUS

(* The VAD appends a chunk.  Speech is appended either to the turn going on,  *)
(* or, as a new turn, after the silence that ended the last one.              *)
LEMMA AppendChunk ==
  ASSUME NEW q \in Seq(MicChunk), NEW b \in Seq(Int), NEW speech \in BOOLEAN, NEW turn \in Int,
         NEW c \in MicChunk, c.turn # turn => ~speech,
         Separated(b, q, speech, turn)
  PROVE  Separated(b, Append(q, c), ~c.drop, c.turn)
<1> DEFINE new == Append(q, c)
<1>1. /\ Len(q) \in Nat /\ Len(b) \in Nat
      /\ Len(new) = Len(q) + 1 /\ new[Len(q) + 1] = c
      /\ \A i \in 1..Len(q) : new[i] = q[i]
  OBVIOUS
<1> HIDE DEF new
<1>2. SilenceBetween(new)
  <2> SUFFICES ASSUME NEW i \in 1..Len(new), NEW j \in 1..Len(new), i < j,
                      ~new[i].drop, ~new[j].drop, new[i].turn # new[j].turn
               PROVE  \E k \in i..j : new[k].drop
    BY DEF SilenceBetween
  <2>1. CASE j <= Len(q)
    <3>1. i \in 1..Len(q) /\ j \in 1..Len(q) /\ new[i] = q[i] /\ new[j] = q[j]
      BY <1>1, <2>1
    <3>2. PICK k \in i..j : q[k].drop
      BY <3>1 DEF Separated, SilenceBetween
    <3> QED
      BY <1>1, <2>1, <3>1, <3>2
  <2>2. CASE j = Len(q) + 1
    <3>1. i \in 1..Len(q) /\ new[i] = q[i] /\ new[j] = c
      BY <1>1, <2>2
    <3>2. PICK k \in i..Len(q) : q[k].drop
      BY <3>1 DEF Separated, LastIsCurrent
    <3> QED
      BY <1>1, <2>2, <3>1, <3>2
  <2>3. j <= Len(q) \/ j = Len(q) + 1
    <3>1. Len(q) \in Nat /\ Len(new) = Len(q) + 1
      BY <1>1
    <3>2. j \in 1..Len(q) + 1
      BY <3>1
    <3> QED
      BY <3>1, <3>2, LastOrBefore
  <2> QED
    BY <2>1, <2>2, <2>3
<1>3. SilenceAfterBuffer(b, new)
  <2> SUFFICES ASSUME NEW h \in 1..Len(b), NEW j \in 1..Len(new),
                      ~new[j].drop, new[j].turn # b[h]
               PROVE  \E k \in 1..j : new[k].drop
    BY DEF SilenceAfterBuffer
  <2>1. CASE j <= Len(q)
    <3>1. j \in 1..Len(q) /\ new[j] = q[j]
      BY <1>1, <2>1
    <3>2. PICK k \in 1..j : q[k].drop
      BY <3>1 DEF Separated, SilenceAfterBuffer
    <3> QED
      <4>1. k \in 1..Len(q) /\ Len(q) \in Nat
        BY <1>1, <3>1
      <4>2. new[k] = q[k]
        BY <1>1, <4>1
      <4> QED
        BY <3>2, <4>2
  <2>2. CASE j = Len(q) + 1
    <3>1. new[j] = c
      BY <1>1, <2>2
    <3>2. PICK k \in 1..Len(q) : q[k].drop
      BY <3>1 DEF Separated, LastIsCurrent
    <3> QED
      BY <1>1, <2>2, <3>1, <3>2
  <2> QED
    BY <1>1, <2>1, <2>2
<1>4. LastIsCurrent(b, new, ~c.drop, c.turn)
  <2>1. ASSUME NEW i \in 1..Len(new), \A k \in i..Len(new) : ~new[k].drop
        PROVE  ~c.drop /\ new[i].turn = c.turn
    <3>1. ~c.drop
      BY <1>1, <2>1
    <3>2. CASE i <= Len(q)
      <4>1. i \in 1..Len(q) /\ new[i] = q[i] /\ \A k \in i..Len(q) : ~q[k].drop
        BY <1>1, <2>1, <3>2
      <4> QED
        BY <3>1, <4>1 DEF Separated, LastIsCurrent
    <3> QED
      BY <1>1, <3>1, <3>2
  <2>2. ASSUME NEW h \in 1..Len(b), \A k \in 1..Len(new) : ~new[k].drop
        PROVE  ~c.drop /\ b[h] = c.turn
    <3>1. ~c.drop /\ \A k \in 1..Len(q) : ~q[k].drop
      BY <1>1, <2>2
    <3> QED
      BY <3>1 DEF Separated, LastIsCurrent
  <2> QED
    BY <2>1, <2>2 DEF LastIsCurrent
<1> QED
  BY <1>2, <1>3, <1>4 DEF Separated, new

(* The ASR takes speech from the head of its queue into its buffer.           *)
LEMMA BufferSpeech ==
  ASSUME NEW q \in Seq(MicChunk), NEW b \in Seq(Int), NEW speech \in BOOLEAN, NEW turn \in Int,
         q # <<>>, ~Head(q).drop,
         Separated(b, q, speech, turn)
  PROVE  Separated(Append(b, Head(q).turn), Tail(q), speech, turn)
<1> DEFINE rest == Tail(q)
           new == Append(b, Head(q).turn)
<1>1. /\ Len(q) \in Nat /\ Len(q) >= 1 /\ Len(b) \in Nat
      /\ Len(rest) = Len(q) - 1 /\ \A i \in 1..Len(rest) : rest[i] = q[i + 1]
      /\ Len(new) = Len(b) + 1 /\ new[Len(b) + 1] = q[1].turn
      /\ \A i \in 1..Len(b) : new[i] = b[i]
      /\ ~q[1].drop
  OBVIOUS
<1>a. \A k \in 2..Len(q) : k - 1 \in 1..Len(rest) /\ rest[k - 1] = q[k]
  <2> SUFFICES ASSUME NEW k \in 2..Len(q) PROVE k - 1 \in 1..Len(rest) /\ rest[k - 1] = q[k]
    OBVIOUS
  <2>1. k - 1 \in 1..Len(rest) /\ (k - 1) + 1 = k
    BY <1>1
  <2> QED
    BY <1>1, <2>1
<1> HIDE DEF new, rest
<1>2. SilenceBetween(rest)
  <2> SUFFICES ASSUME NEW i \in 1..Len(rest), NEW j \in 1..Len(rest), i < j,
                      ~rest[i].drop, ~rest[j].drop, rest[i].turn # rest[j].turn
               PROVE  \E k \in i..j : rest[k].drop
    BY DEF SilenceBetween
  <2>1. i + 1 \in 1..Len(q) /\ j + 1 \in 1..Len(q) /\ rest[i] = q[i + 1] /\ rest[j] = q[j + 1]
    BY <1>1
  <2>2. i + 1 < j + 1
    OBVIOUS
  <2>3. PICK k \in (i + 1)..(j + 1) : q[k].drop
    BY <2>1, <2>2 DEF Separated, SilenceBetween
  <2>4. k - 1 \in i..j /\ k \in 2..Len(q)
    BY <2>1, <2>3
  <2> QED
    BY <1>a, <2>3, <2>4
<1>3. SilenceAfterBuffer(new, rest)
  <2> SUFFICES ASSUME NEW h \in 1..Len(new), NEW j \in 1..Len(rest),
                      ~rest[j].drop, rest[j].turn # new[h]
               PROVE  \E k \in 1..j : rest[k].drop
    BY DEF SilenceAfterBuffer
  <2>1. j + 1 \in 1..Len(q) /\ rest[j] = q[j + 1]
    BY <1>1
  <2>2. PICK k \in 1..j + 1 : q[k].drop
    <3>a. SilenceBetween(q) /\ SilenceAfterBuffer(b, q)
      BY DEF Separated
    <3>b. ~q[j + 1].drop /\ q[j + 1].turn # new[h]
      BY <2>1
    <3>1. CASE h = Len(b) + 1
      <4>1. q[1].turn # q[j + 1].turn
        BY <1>1, <3>b, <3>1
      <4>2. 1 \in 1..Len(q) /\ 1 < j + 1
        BY <1>1
      <4> QED
        BY <1>1, <2>1, <3>a, <3>b, <4>1, <4>2 DEF SilenceBetween
    <3>2. CASE h \in 1..Len(b)
      <4>1. q[j + 1].turn # b[h]
        BY <1>1, <3>b, <3>2
      <4> QED
        BY <2>1, <3>a, <3>b, <3>2, <4>1 DEF SilenceAfterBuffer
    <3> QED
      BY <1>1, <3>1, <3>2
  <2>3. k # 1
    BY <1>1, <2>2
  <2>4. k - 1 \in 1..j /\ k \in 2..Len(q)
    BY <2>1, <2>2, <2>3
  <2> QED
    BY <1>a, <2>2, <2>4
<1>4. LastIsCurrent(new, rest, speech, turn)
  <2>1. ASSUME NEW i \in 1..Len(rest), \A k \in i..Len(rest) : ~rest[k].drop
        PROVE  speech /\ rest[i].turn = turn
    <3>1. i + 1 \in 1..Len(q) /\ rest[i] = q[i + 1]
      BY <1>1
    <3>2. ASSUME NEW k \in i + 1..Len(q) PROVE ~q[k].drop
      <4>1. k \in 2..Len(q) /\ k - 1 >= i
        OBVIOUS
      <4>2. k - 1 \in i..Len(rest) /\ rest[k - 1] = q[k]
        BY <1>a, <4>1
      <4> QED
        BY <2>1, <4>2
    <3> QED
      BY <3>1, <3>2 DEF Separated, LastIsCurrent
  <2>2. ASSUME NEW h \in 1..Len(new), \A k \in 1..Len(rest) : ~rest[k].drop
        PROVE  speech /\ new[h] = turn
    <3>1. ASSUME NEW k \in 1..Len(q) PROVE ~q[k].drop
      <4>1. k = 1 \/ k \in 2..Len(q)
        OBVIOUS
      <4> QED
        BY <1>1, <1>a, <2>2, <4>1
    <3>2. CASE h = Len(b) + 1
      BY <1>1, <3>1, <3>2 DEF Separated, LastIsCurrent
    <3>3. CASE h \in 1..Len(b)
      BY <1>1, <3>1, <3>3 DEF Separated, LastIsCurrent
    <3> QED
      BY <1>1, <3>2, <3>3
  <2> QED
    BY <2>1, <2>2 DEF LastIsCurrent
<1>5. OneTurn(new)
  <2>1. \A h \in 1..Len(b) : b[h] = q[1].turn
    <3> SUFFICES ASSUME NEW h \in 1..Len(b), q[1].turn # b[h] PROVE FALSE
      OBVIOUS
    <3>1. PICK k \in 1..1 : q[k].drop
      BY <1>1 DEF Separated, SilenceAfterBuffer
    <3> QED
      BY <1>1, <3>1
  <2> QED
    <3>1. \A h \in 1..Len(new) : h \in 1..Len(b) \/ h = Len(b) + 1
      BY <1>1
    <3>2. \A h \in 1..Len(new) : new[h] = q[1].turn
      BY ONLY <1>1, <2>1, <3>1
    <3> QED
      BY ONLY <3>2 DEF OneTurn
<1> QED
  BY <1>2, <1>3, <1>4, <1>5 DEF Separated, new, rest

(* Silence at the head of the queue goes, and with it the buffer.             *)
LEMMA DropSilence ==
  ASSUME NEW q \in Seq(MicChunk), NEW b \in Seq(Int), NEW speech \in BOOLEAN, NEW turn \in Int,
         q # <<>>,
         Separated(b, q, speech, turn)
  PROVE  Separated(<<>>, Tail(q), speech, turn)
<1> DEFINE rest == Tail(q)
<1>1. /\ Len(q) \in Nat /\ Len(q) >= 1
      /\ Len(rest) = Len(q) - 1 /\ \A i \in 1..Len(rest) : rest[i] = q[i + 1]
  OBVIOUS
<1>a. \A k \in 2..Len(q) : k - 1 \in 1..Len(rest) /\ rest[k - 1] = q[k]
  <2> SUFFICES ASSUME NEW k \in 2..Len(q) PROVE k - 1 \in 1..Len(rest) /\ rest[k - 1] = q[k]
    OBVIOUS
  <2>1. k - 1 \in 1..Len(rest) /\ (k - 1) + 1 = k
    BY <1>1
  <2> QED
    BY <1>1, <2>1
<1> HIDE DEF rest
<1>2. SilenceBetween(rest)
  <2> SUFFICES ASSUME NEW i \in 1..Len(rest), NEW j \in 1..Len(rest), i < j,
                      ~rest[i].drop, ~rest[j].drop, rest[i].turn # rest[j].turn
               PROVE  \E k \in i..j : rest[k].drop
    BY DEF SilenceBetween
  <2>1. i + 1 \in 1..Len(q) /\ j + 1 \in 1..Len(q) /\ rest[i] = q[i + 1] /\ rest[j] = q[j + 1]
    BY <1>1
  <2>2. i + 1 < j + 1
    OBVIOUS
  <2>3. PICK k \in (i + 1)..(j + 1) : q[k].drop
    BY <2>1, <2>2 DEF Separated, SilenceBetween
  <2>4. k - 1 \in i..j /\ k \in 2..Len(q)
    BY <2>1, <2>3
  <2> QED
    BY <1>a, <2>3, <2>4
<1>3. LastIsCurrent(<<>>, rest, speech, turn)
  <2>1. ASSUME NEW i \in 1..Len(rest), \A k \in i..Len(rest) : ~rest[k].drop
        PROVE  speech /\ rest[i].turn = turn
    <3>1. i + 1 \in 1..Len(q) /\ rest[i] = q[i + 1]
      BY <1>1
    <3>2. ASSUME NEW k \in i + 1..Len(q) PROVE ~q[k].drop
      <4>1. k \in 2..Len(q) /\ k - 1 >= i
        OBVIOUS
      <4>2. k - 1 \in i..Len(rest) /\ rest[k - 1] = q[k]
        BY <1>a, <4>1
      <4> QED
        BY <2>1, <4>2
    <3> QED
      BY <3>1, <3>2 DEF Separated, LastIsCurrent
  <2> QED
    BY <2>1 DEF LastIsCurrent
<1>4. SilenceAfterBuffer(<<>>, rest) /\ OneTurn(<<>>)
  BY DEF SilenceAfterBuffer, OneTurn
<1> QED
  BY <1>2, <1>3, <1>4 DEF Separated, rest

-----------------------------------------------------------------------------
(* One microphone chunk through the VAD.                                      *)
LEMMA HearKeeps ==
  ASSUME IInv, NEW energy, NEW clock, Hear(energy, clock)
  PROVE  IInv'
<1> DEFINE c == [turn |-> TurnOf(energy), drop |-> energy = "silence"]
<1>1. /\ inbox'["asr"] = Append(inbox["asr"], c)
      /\ inbox' = [n \in Nodes |-> inbox'[n]]
      /\ vad'.turn = c.turn /\ vad'.speech = ~c.drop
      /\ UNCHANGED <<buffer, cancelled, player, late>>
  BY DEF Hear, Forward, IInv, Shape, Nodes
<1>2. c \in MicChunk /\ (c.turn # vad.turn => ~vad.speech)
  BY DEF IInv, Shape, TurnOf, MicChunk
<1>3. cwire' \in [ControlOutputs -> SUBSET Turns]
  BY VoiceAssumption DEF Hear, CancelTurn, TurnOf, IInv, Shape, Turns
<1> HIDE DEF c
<1>4. Shape'
  <2>1. Append(inbox["asr"], c) \in Seq(MicChunk)
    BY <1>2 DEF IInv, Shape
  <2>2. vad'.turn \in Int /\ vad'.speech \in BOOLEAN
    BY <1>1, <1>2 DEF MicChunk
  <2> QED
    BY <1>1, <1>3, <2>1, <2>2 DEF IInv, Shape
<1>5. SpeechInv'
  BY <1>1, <1>2, AppendChunk DEF IInv, Shape, SpeechInv
<1> QED
  BY <1>1, <1>4, <1>5, LateKept DEF IInv

(* One chunk through the ASR.                                                 *)
LEMMA AsrKeeps == IInv /\ AsrStep => IInv'
<1> SUFFICES ASSUME IInv, AsrStep PROVE IInv'
  OBVIOUS
<1> DEFINE q == inbox["asr"]
<1>1. /\ q # <<>> /\ q \in Seq(MicChunk)
      /\ \/ ~Head(q).drop /\ buffer' = Append(buffer, Head(q).turn)
         \/ buffer' = <<>>
  BY DEF AsrStep, AsrBuffer, AsrFlush, IInv, Shape
<1>2. inbox'["asr"] = Tail(q) /\ inbox' = [n \in Nodes |-> inbox'[n]]
  BY DEF AsrStep, AsrBuffer, AsrFlush, Take, Pass, IInv, Shape, Nodes
<1>3. UNCHANGED <<vad, cwire, cancelled, player, late>>
  BY DEF AsrStep, AsrBuffer, AsrFlush, asrFrame
<1>4. Shape'
  <2>1. Tail(q) \in Seq(MicChunk) /\ Head(q) \in MicChunk
    BY <1>1
  <2>2. Head(q).turn \in Int /\ buffer \in Seq(Int)
    BY <2>1 DEF IInv, Shape, MicChunk
  <2>3. buffer' = <<>> \/ buffer' = Append(buffer, Head(q).turn)
    BY <1>1
  <2> HIDE DEF q
  <2>4. buffer' \in Seq(Int)
    <3>1. <<>> \in Seq(Int)
      OBVIOUS
    <3>2. ASSUME NEW s \in Seq(Int), NEW e \in Int PROVE Append(s, e) \in Seq(Int)
      OBVIOUS
    <3>3. Append(buffer, Head(q).turn) \in Seq(Int)
      BY <2>2, <3>2
    <3> QED
      BY <2>3, <3>1, <3>3
  <2> QED
    BY <1>2, <1>3, <2>1, <2>4 DEF IInv, Shape, q
<1>5. SpeechInv'
  BY <1>1, <1>2, <1>3, BufferSpeech, DropSilence DEF IInv, Shape, SpeechInv
<1> QED
  BY <1>3, <1>4, <1>5, LateKept DEF IInv

-----------------------------------------------------------------------------
(* The invariant is inductive.                                                *)
LEMMA NextIInv == IInv /\ [Next]_vars => IInv'
<1> SUFFICES ASSUME IInv, [Next]_vars PROVE IInv'
  OBVIOUS
<1>1. CASE UNCHANGED vars
  <2>1. Elsewhere
    BY <1>1 DEF vars, Elsewhere, NoSpeech, speaker, IInv, Shape
  <2> QED
    BY <2>1, ElsewhereKept
<1>2. CASE \E energy \in {"silence", "soft", "loud"}, clock \in BOOLEAN : Hear(energy, clock)
  BY <1>2, HearKeeps
<1>3. CASE LlmStep \/ Fire \/ ToolStep \/ TtsStep
  BY <1>3, LlmElsewhere, ToolElsewhere, TtsElsewhere, ElsewhereKept DEF IInv
<1>4. CASE ControlStep \/ AsrStep \/ PlayerStep
  BY <1>4, CancelKeeps, AsrKeeps, PlayerKeeps
<1> QED
  BY <1>1, <1>2, <1>3, <1>4 DEF Next

(* No utterance the ASR transcribes mixes speech of two turns, whatever the    *)
(* user does and however the nodes interleave: the VAD's marked silence        *)
(* always comes between two turns in the ASR's queue.                          *)
THEOREM UtterancesSeparate == Spec => []UtteranceOfOneTurn
<1>1. IInv => UtteranceOfOneTurn
  <2> SUFFICES ASSUME IInv PROVE UtteranceOfOneTurn
    OBVIOUS
  <2>1. buffer \in Seq(Int) /\ OneTurn(buffer)
    BY DEF IInv, Shape, SpeechInv, Separated
  <2> QED
    BY <2>1 DEF OneTurn, UtteranceOfOneTurn
<1> QED
  BY InitIInv, NextIInv, <1>1, PTL DEF Spec

(* After the CANCEL of a turn has arrived at the player, no more than the       *)
(* block being written is heard of that turn, for replies of any length.        *)
THEOREM BargeInPrompt == Spec => []BargeInCutsPlayback
<1>1. IInv => BargeInCutsPlayback
  BY DEF IInv, LateInv, BargeInCutsPlayback
<1> QED
  BY InitIInv, NextIInv, <1>1, PTL DEF Spec

-----------------------------------------------------------------------------
(* No question is forgotten.  The invariant follows a transcribed question:   *)
(* as long as nothing has settled it, some node still carries it, or its      *)
(* CANCEL was sent.                                                           *)

\* A sequence, whatever its elements are.
IsSeq(q) == q \in Seq({q[i] : i \in DOMAIN q})

\* The turns of the messages in a queue, and those whose final chunk is in it.
TurnsIn(q) == {q[i].turn : i \in DOMAIN q}
EndsIn(q) == {q[i].turn : i \in {j \in DOMAIN q : q[j].final = TRUE}}

IsChunk(m) == m = [turn |-> m.turn, text |-> m.text, final |-> m.final]

IsText(q) == IsSeq(q) /\ \A i \in DOMAIN q : IsChunk(q[i])

QueueShape ==
  /\ IsSeq(inbox["llm"]) /\ IsText(inbox["tool"]) /\ IsText(inbox["tts"]) /\ IsSeq(inbox["player"])
  /\ llm = [turn |-> llm.turn, n |-> llm.n]

\* The turns some node still has to answer: the final chunk is what counts, for
\* the deltas before it only fill buffers.
Playing == IF player.pc = "idle" THEN {} ELSE {player.turn}
Carriers ==
  TurnsIn(inbox["llm"]) \cup {llm.turn} \cup EndsIn(inbox["tool"]) \cup EndsIn(inbox["tts"])
    \cup TurnsIn(inbox["player"]) \cup Playing

\* The turns whose CANCEL the player has, or is going to have.
Doomed == cancelled["player"] \cup cwire["player"]

\* A CANCEL goes to every node: no node knows of one that the player will not see.
SameCancels == \A n \in ControlOutputs : cancelled[n] \cup cwire[n] \subseteq Doomed

Carried == \A t \in Turns : outcome[t] = "asked" => t \in Carriers \cup Doomed

CarryInv == QueueShape /\ SameCancels /\ Carried

(* A sequence is one over its own elements.                                  *)
LEMMA SeqOfOwn ==
  ASSUME NEW S, NEW q \in Seq(S)
  PROVE  IsSeq(q)
<1> DEFINE T == {q[i] : i \in DOMAIN q}
<1>1. q \in [1..Len(q) -> S] /\ Len(q) \in Nat /\ DOMAIN q = 1..Len(q)
  BY LenProperties
<1>2. q \in [1..Len(q) -> T]
  BY <1>1
<1>3. Seq(T) = UNION {[1..n -> T] : n \in Nat}
  BY SeqDef
<1> HIDE DEF T
<1>4. q \in Seq(T)
  BY <1>1, <1>2, <1>3
<1> QED
  BY <1>4 DEF IsSeq, T

(* What a send and a receive do to the turns a queue carries.                  *)
LEMMA QueueAppend ==
  ASSUME NEW q, IsSeq(q), NEW m
  PROVE  /\ IsSeq(Append(q, m))
         /\ TurnsIn(Append(q, m)) = TurnsIn(q) \cup {m.turn}
         /\ EndsIn(q) \subseteq EndsIn(Append(q, m))
         /\ m.final = TRUE => m.turn \in EndsIn(Append(q, m))
         /\ IsText(q) /\ IsChunk(m) => IsText(Append(q, m))
<1> DEFINE S == {q[i] : i \in DOMAIN q} \cup {m}
           new == Append(q, m)
<1>1. q \in Seq({q[i] : i \in DOMAIN q})
  BY DEF IsSeq
<1>2. q \in Seq(S) /\ m \in S
  <2>1. \A T, U : T \subseteq U => \A s \in Seq(T) : s \in Seq(U)
    OBVIOUS
  <2> QED
    BY <1>1, <2>1
<1> HIDE DEF S
<1>3. /\ Len(q) \in Nat /\ DOMAIN q = 1..Len(q) /\ DOMAIN new = 1..(Len(q) + 1)
      /\ Len(new) = Len(q) + 1 /\ new \in Seq(S)
      /\ new[Len(q) + 1] = m /\ \A i \in 1..Len(q) : new[i] = q[i]
  BY <1>2, AppendProperties, LenProperties
<1> HIDE DEF new
<1>4. IsSeq(new)
  BY <1>3, SeqOfOwn
<1>5. \A i \in DOMAIN new : (i \in DOMAIN q /\ new[i] = q[i]) \/ (i = Len(q) + 1 /\ new[i] = m)
  BY <1>3
<1>6. \A i \in DOMAIN q : i \in DOMAIN new /\ new[i] = q[i]
  BY <1>3
<1>7. Len(q) + 1 \in DOMAIN new /\ new[Len(q) + 1] = m
  BY <1>3
<1>8. TurnsIn(new) = TurnsIn(q) \cup {m.turn}
  BY <1>5, <1>6, <1>7 DEF TurnsIn
<1>9. EndsIn(q) \subseteq EndsIn(new) /\ (m.final = TRUE => m.turn \in EndsIn(new))
  BY <1>6, <1>7 DEF EndsIn
<1>10. IsText(q) /\ IsChunk(m) => IsText(new)
  BY <1>4, <1>5 DEF IsText
<1> QED
  BY <1>4, <1>8, <1>9, <1>10 DEF new

(* A receive takes no turn out of a queue but that of the head.              *)
LEMMA QueueTake ==
  ASSUME NEW q, IsSeq(q), q # <<>>
  PROVE  /\ IsSeq(Tail(q))
         /\ TurnsIn(q) = TurnsIn(Tail(q)) \cup {Head(q).turn}
         /\ EndsIn(q) \subseteq EndsIn(Tail(q)) \cup {Head(q).turn}
         /\ Head(q).final # TRUE => EndsIn(q) \subseteq EndsIn(Tail(q))
         /\ IsText(q) => IsChunk(Head(q)) /\ IsText(Tail(q))
<1> DEFINE S == {q[i] : i \in DOMAIN q}
           rest == Tail(q)
<1>1. q \in Seq(S)
  BY DEF IsSeq
<1> HIDE DEF S
<1>2. /\ Len(q) \in Nat /\ Len(q) >= 1 /\ DOMAIN q = 1..Len(q)
      /\ rest \in Seq(S) /\ Len(rest) = Len(q) - 1 /\ DOMAIN rest = 1..(Len(q) - 1)
      /\ \A i \in 1..(Len(q) - 1) : rest[i] = q[i + 1]
      /\ Head(q) = q[1]
  BY <1>1, HeadTailProperties, LenProperties, EmptySeq
<1> HIDE DEF rest
<1>3. IsSeq(rest)
  BY <1>2, SeqOfOwn
<1>4. ASSUME NEW i \in DOMAIN q
      PROVE  i = 1 \/ \E j \in DOMAIN rest : rest[j] = q[i]
  <2>1. CASE i = 1
    BY <2>1
  <2>2. CASE i # 1
    <3>1. i - 1 \in DOMAIN rest /\ (i - 1) + 1 = i
      BY <1>2, <2>2
    <3>2. rest[i - 1] = q[i]
      BY <1>2, <3>1
    <3> QED
      BY <3>1, <3>2
  <2> QED
    BY <2>1, <2>2
<1>5. \A j \in DOMAIN rest : \E i \in DOMAIN q : q[i] = rest[j]
  <2> TAKE j \in DOMAIN rest
  <2>1. j + 1 \in DOMAIN q /\ q[j + 1] = rest[j]
    BY <1>2
  <2> QED
    BY <2>1
<1>6. 1 \in DOMAIN q /\ q[1] = Head(q)
  BY <1>2
<1>7. TurnsIn(q) = TurnsIn(rest) \cup {Head(q).turn}
  BY <1>4, <1>5, <1>6 DEF TurnsIn
<1>8. EndsIn(q) \subseteq EndsIn(rest) \cup {Head(q).turn}
  BY <1>4, <1>6 DEF EndsIn
<1>9. Head(q).final # TRUE => EndsIn(q) \subseteq EndsIn(rest)
  BY <1>4, <1>6 DEF EndsIn
<1>10. IsText(q) => IsChunk(Head(q)) /\ IsText(rest)
  BY <1>3, <1>5, <1>6 DEF IsText
<1> QED
  BY <1>3, <1>7, <1>8, <1>9, <1>10 DEF rest

(* A step keeps every question carried if each turn it stops carrying is        *)
(* settled or cancelled.                                                        *)
LEMMA CarryStep ==
  ASSUME Carried, Doomed \subseteq Doomed',
         \A t \in Turns : outcome'[t] = "asked" =>
           \/ t \in Carriers'
           \/ outcome[t] = "asked" /\ (t \in Carriers => t \in Carriers' \cup Doomed')
  PROVE  Carried'
BY DEF Carried

(* A settled turn is not asked any more, and no other turn becomes asked.    *)
LEMMA SettleOne ==
  ASSUME NEW u, NEW o, Settle(u, o), o # "asked"
  PROVE  \A t \in Turns : outcome'[t] = "asked" => outcome[t] = "asked" /\ t # u
BY DEF Settle

(* Steps away from the control channel cancel nothing.                       *)
LEMMA CancelsKept ==
  ASSUME SameCancels, UNCHANGED <<cwire, cancelled>>
  PROVE  SameCancels' /\ Doomed' = Doomed
BY DEF SameCancels, Doomed

(* A CANCEL some node knows of is one the player has or gets.                   *)
LEMMA KnownIsDoomed ==
  ASSUME SameCancels, NEW n \in ControlOutputs, NEW t \in cancelled[n]
  PROVE  t \in Doomed
BY DEF SameCancels

(* Turn 0 is the generator at rest.                                          *)
LEMMA NoTurnZero == 0 \notin Turns
BY VoiceAssumption DEF Turns

(* The microphone side: a question comes up with the message that carries it.   *)
LEMMA AsrCarries ==
  ASSUME Shape, CarryInv, AsrStep
  PROVE  CarryInv'
<1>1. UNCHANGED <<cwire, cancelled, llm, player>>
  BY DEF AsrStep, AsrBuffer, AsrFlush, asrFrame, writer
<1>2. SameCancels' /\ Doomed' = Doomed
  BY <1>1, CancelsKept DEF CarryInv
<1>3. CASE Take("asr") /\ \A t \in Turns : outcome'[t] = "asked" => outcome[t] = "asked"
  <2>1. /\ inbox'["llm"] = inbox["llm"] /\ inbox'["tool"] = inbox["tool"]
        /\ inbox'["tts"] = inbox["tts"] /\ inbox'["player"] = inbox["player"]
    BY <1>3 DEF Shape, Nodes, Take
  <2>2. Carriers' = Carriers
    BY <1>1, <2>1 DEF Carriers, Playing
  <2>3. QueueShape'
    BY <1>1, <2>1 DEF CarryInv, QueueShape
  <2>4. Carried'
    BY <1>2, <1>3, <2>2, CarryStep DEF CarryInv
  <2> QED
    BY <1>2, <2>3, <2>4 DEF CarryInv
<1>4. ASSUME NEW m, Pass("asr", "llm", m), Settle(m.turn, "asked")
      PROVE  CarryInv'
  <2>1. /\ inbox'["llm"] = Append(inbox["llm"], m) /\ inbox'["tool"] = inbox["tool"]
        /\ inbox'["tts"] = inbox["tts"] /\ inbox'["player"] = inbox["player"]
    BY <1>4 DEF Shape, Nodes, Pass
  <2>2. IsSeq(Append(inbox["llm"], m)) /\ TurnsIn(Append(inbox["llm"], m)) = TurnsIn(inbox["llm"]) \cup {m.turn}
    BY QueueAppend DEF CarryInv, QueueShape
  <2>3. Carriers' = Carriers \cup {m.turn}
    BY <1>1, <2>1, <2>2 DEF Carriers, Playing
  <2>4. QueueShape'
    BY <1>1, <2>1, <2>2 DEF CarryInv, QueueShape
  <2>5. \A t \in Turns : outcome'[t] = "asked" => outcome[t] = "asked" \/ t = m.turn
    BY <1>4 DEF Settle
  <2>6. Carried'
    BY <1>2, <2>3, <2>5, CarryStep DEF CarryInv
  <2> QED
    BY <1>2, <2>4, <2>6 DEF CarryInv
<1>5. CASE AsrBuffer
  <2>1. Take("asr") /\ outcome' = outcome
    BY <1>5 DEF AsrBuffer
  <2> QED
    BY <1>3, <2>1
<1>6. ASSUME NEW result, AsrFlush(result)
      PROVE  CarryInv'
  <2> DEFINE turn == buffer[Len(buffer)]
             m == [turn |-> turn, text |-> result = "text"]
  <2>1. \/ Take("asr") /\ Settle(turn, "lost")
        \/ Pass("asr", "llm", m) /\ Settle(turn, "asked")
    BY <1>6 DEF AsrFlush
  <2>2. m.turn = turn
    OBVIOUS
  <2> HIDE DEF turn, m
  <2>3. CASE Take("asr") /\ Settle(turn, "lost")
    BY <1>3, <2>3, SettleOne
  <2>4. CASE Pass("asr", "llm", m) /\ Settle(turn, "asked")
    <3>1. Settle(m.turn, "asked")
      BY <2>2, <2>4
    <3> QED
      BY <1>4, <2>4, <3>1
  <2> QED
    BY <2>1, <2>3, <2>4
<1> QED
  BY <1>5, <1>6 DEF AsrStep

(* The VAD sends a CANCEL to every node or to none.                             *)
LEMMA HearCarries ==
  ASSUME Shape, CarryInv, NEW energy, NEW clock, Hear(energy, clock)
  PROVE  CarryInv'
<1>1. UNCHANGED <<cancelled, llm, player, outcome>>
  BY DEF Hear, writer
<1>2. /\ inbox'["llm"] = inbox["llm"] /\ inbox'["tool"] = inbox["tool"]
      /\ inbox'["tts"] = inbox["tts"] /\ inbox'["player"] = inbox["player"]
  BY DEF Hear, Forward, Shape, Nodes
<1>3. cwire' = cwire \/ cwire' = [n \in ControlOutputs |-> cwire[n] \cup {vad.turn}]
  BY DEF Hear, CancelTurn
<1>4. "player" \in ControlOutputs
  BY DEF ControlOutputs
<1>5. SameCancels' /\ Doomed \subseteq Doomed'
  <2>1. CASE cwire' = cwire
    BY <1>1, <2>1, CancelsKept DEF CarryInv
  <2>2. CASE cwire' = [n \in ControlOutputs |-> cwire[n] \cup {vad.turn}]
    BY <1>1, <1>4, <2>2 DEF CarryInv, SameCancels, Doomed
  <2> QED
    BY <1>3, <2>1, <2>2
<1>6. Carriers' = Carriers
  BY <1>1, <1>2 DEF Carriers, Playing
<1>7. QueueShape'
  BY <1>1, <1>2 DEF CarryInv, QueueShape
<1>8. Carried'
  BY <1>1, <1>5, <1>6, CarryStep DEF CarryInv
<1> QED
  BY <1>5, <1>7, <1>8 DEF CarryInv

(* A CANCEL on its way is as good as one that has arrived.                   *)
LEMMA CancelCarries ==
  ASSUME Shape, CarryInv, NEW n \in ControlOutputs, NEW t \in Turns, DeliverCancel(n, t)
  PROVE  CarryInv'
<1>1. UNCHANGED <<inbox, llm, player, outcome>>
  BY DEF DeliverCancel, writer
<1>2. /\ "player" \in ControlOutputs
      /\ \A k \in ControlOutputs : cancelled'[k] \cup cwire'[k] = cancelled[k] \cup cwire[k]
  BY DEF DeliverCancel, ControlOutputs, Shape
<1>3. SameCancels' /\ Doomed' = Doomed
  BY <1>2 DEF CarryInv, SameCancels, Doomed
<1>4. Carriers' = Carriers /\ QueueShape'
  BY <1>1 DEF Carriers, Playing, CarryInv, QueueShape
<1>5. Carried'
  BY <1>1, <1>3, <1>4, CarryStep DEF CarryInv
<1> QED
  BY <1>3, <1>4, <1>5 DEF CarryInv

(* The language model: taking a question keeps it in the generator, and the      *)
(* generator ends with a final chunk, a failure or a cancellation.                *)
LEMMA LlmCarries ==
  ASSUME Shape, CarryInv, LlmStep
  PROVE  CarryInv'
<1> DEFINE l == inbox["llm"]
           k == inbox["tool"]
<1>1. UNCHANGED <<cwire, cancelled, player>>
  BY DEF LlmStep, LlmTake, LlmEnd, LlmCancelled, LlmRaise, LlmDelta, LlmGenerate, llmFrame
<1>2. SameCancels' /\ Doomed' = Doomed
  BY <1>1, CancelsKept DEF CarryInv
<1>3. IsSeq(l) /\ IsText(k) /\ IsSeq(k) /\ llm = [turn |-> llm.turn, n |-> llm.n]
  BY DEF CarryInv, QueueShape, IsText
<1>4. Playing' = Playing
  BY <1>1 DEF Playing
<1>5. CASE LlmTake
  <2> DEFINE h == Head(l)
  <2>1. /\ l # <<>> /\ inbox'["llm"] = Tail(l) /\ inbox'["tool"] = k
        /\ inbox'["tts"] = inbox["tts"] /\ inbox'["player"] = inbox["player"]
        /\ llm.turn = 0
    BY <1>5 DEF LlmTake, Take, Shape, Nodes
  <2>2. \/ Settle(h.turn, "lost") /\ llm' = llm
        \/ llm' = [turn |-> h.turn, n |-> 0] /\ outcome' = outcome
    BY <1>5 DEF LlmTake
  <2>3. IsSeq(Tail(l)) /\ TurnsIn(l) = TurnsIn(Tail(l)) \cup {h.turn}
    BY <1>3, <2>1, QueueTake
  <2> HIDE DEF h
  <2>4. llm' = [turn |-> llm'.turn, n |-> llm'.n]
    BY <1>3, <2>2
  <2>5. QueueShape'
    BY <2>1, <2>3, <2>4 DEF CarryInv, QueueShape
  <2>6. Carried'
    <3>1. Carriers \subseteq Carriers' \cup {0, h.turn}
      BY <1>4, <2>1, <2>3 DEF Carriers
    <3>2. CASE Settle(h.turn, "lost")
      BY <1>2, <3>1, <3>2, SettleOne, NoTurnZero, CarryStep DEF CarryInv
    <3>3. CASE llm' = [turn |-> h.turn, n |-> 0] /\ outcome' = outcome
      <4>1. h.turn \in Carriers'
        BY <3>3 DEF Carriers
      <4> QED
        BY <1>2, <3>1, <3>3, <4>1, NoTurnZero, CarryStep DEF CarryInv
    <3> QED
      BY <2>2, <3>2, <3>3
  <2> QED
    BY <1>2, <2>5, <2>6 DEF CarryInv
<1>6. ASSUME NEW m, IsChunk(m), m.turn = llm.turn,
             inbox' = [inbox EXCEPT !["tool"] = Append(@, m)], outcome' = outcome,
             \/ llm' = [llm EXCEPT !.n = @ + 1]
             \/ llm' = [turn |-> 0, n |-> 0] /\ m.final = TRUE
      PROVE  CarryInv'
  <2>1. /\ inbox'["tool"] = Append(k, m) /\ inbox'["llm"] = l
        /\ inbox'["tts"] = inbox["tts"] /\ inbox'["player"] = inbox["player"]
    BY <1>6 DEF Shape, Nodes
  <2>2. /\ IsText(Append(k, m)) /\ EndsIn(k) \subseteq EndsIn(Append(k, m))
        /\ m.final = TRUE => m.turn \in EndsIn(Append(k, m))
    BY <1>3, <1>6, QueueAppend
  <2>3. llm' = [turn |-> llm'.turn, n |-> llm'.n] /\ (llm'.turn = llm.turn \/ m.final = TRUE)
    BY <1>3, <1>6
  <2>4. QueueShape'
    BY <2>1, <2>2, <2>3 DEF CarryInv, QueueShape
  <2>5. llm.turn \in Carriers'
    BY <1>6, <2>1, <2>2, <2>3 DEF Carriers
  <2>6. Carriers \subseteq Carriers'
    BY <1>4, <2>1, <2>2, <2>5 DEF Carriers
  <2>7. Carried'
    BY <1>2, <1>6, <2>6, CarryStep DEF CarryInv
  <2> QED
    BY <1>2, <2>4, <2>7 DEF CarryInv
<1>7. CASE LlmEnd
  <2> DEFINE m == [turn |-> llm.turn, text |-> <<>>, final |-> TRUE]
  <2>1. /\ inbox' = [inbox EXCEPT !["tool"] = Append(@, m)] /\ outcome' = outcome
        /\ llm' = [turn |-> 0, n |-> 0]
    BY <1>7 DEF LlmEnd, ToTool
  <2>2. IsChunk(m) /\ m.turn = llm.turn /\ m.final = TRUE
    BY DEF IsChunk
  <2> HIDE DEF m
  <2> QED
    BY <1>6, <2>1, <2>2
<1>8. ASSUME NEW kind \in Kinds, LlmDelta(kind) PROVE CarryInv'
  <2> DEFINE piece == [turn |-> llm.turn, n |-> llm.n + 1, kind |-> kind]
             m == [turn |-> llm.turn, text |-> <<piece>>, final |-> FALSE]
  <2>1. /\ inbox' = [inbox EXCEPT !["tool"] = Append(@, m)] /\ outcome' = outcome
        /\ llm' = [llm EXCEPT !.n = @ + 1]
    BY <1>8 DEF LlmDelta, ToTool
  <2>2. IsChunk(m) /\ m.turn = llm.turn
    BY DEF IsChunk
  <2> HIDE DEF m
  <2> QED
    BY <1>6, <2>1, <2>2
<1>9. ASSUME NEW r \in Replies, LlmGenerate(r) PROVE CarryInv'
  <2> DEFINE reply == [i \in DOMAIN r |-> [turn |-> llm.turn, n |-> i, kind |-> r[i]]]
             m == [turn |-> llm.turn, text |-> reply, final |-> TRUE]
  <2>1. /\ inbox' = [inbox EXCEPT !["tool"] = Append(@, m)] /\ outcome' = outcome
        /\ llm' = [turn |-> 0, n |-> 0]
    BY <1>9 DEF LlmGenerate, ToTool
  <2>2. IsChunk(m) /\ m.turn = llm.turn /\ m.final = TRUE
    BY DEF IsChunk
  <2> HIDE DEF m
  <2> QED
    BY <1>6, <2>1, <2>2
<1>10. CASE LlmCancelled \/ LlmRaise
  <2>1. /\ inbox' = inbox /\ llm' = [turn |-> 0, n |-> 0]
        /\ \/ outcome' = outcome /\ llm.turn \in cancelled["llm"]
           \/ Settle(llm.turn, "lost")
    BY <1>10 DEF LlmCancelled, LlmRaise, MayGoOn
  <2>2. QueueShape'
    BY <2>1 DEF CarryInv, QueueShape
  <2>3. Carriers \subseteq Carriers' \cup {llm.turn}
    BY <1>4, <2>1 DEF Carriers
  <2>4. Carried'
    <3>1. CASE outcome' = outcome /\ llm.turn \in cancelled["llm"]
      <4>1. llm.turn \in Doomed
        BY <3>1, KnownIsDoomed DEF CarryInv, ControlOutputs
      <4> QED
        BY <1>2, <2>3, <3>1, <4>1, CarryStep DEF CarryInv
    <3>2. CASE Settle(llm.turn, "lost")
      BY <1>2, <2>3, <3>2, SettleOne, CarryStep DEF CarryInv
    <3> QED
      BY <2>1, <3>1, <3>2
  <2> QED
    BY <1>2, <2>2, <2>4 DEF CarryInv
<1> QED
  BY <1>5, <1>7, <1>8, <1>9, <1>10 DEF LlmStep

(* The tool node passes a final chunk on, loses it to a raising tool, or skips    *)
(* it because its turn is cancelled.                                              *)
LEMMA ToolCarries ==
  ASSUME Shape, CarryInv, ToolStep \/ Fire
  PROVE  CarryInv'
<1> DEFINE k == inbox["tool"]
           s == inbox["tts"]
           h == Head(k)
<1>1. UNCHANGED <<cwire, cancelled, player, llm>>
  BY DEF ToolStep, Fire, ToolFlush, ToolReceive, ToolNothing, ToolProcess, toolFrame, writer
<1>2. SameCancels' /\ Doomed' = Doomed
  BY <1>1, CancelsKept DEF CarryInv
<1>3. IsText(k) /\ IsSeq(k) /\ IsText(s) /\ IsSeq(s)
  BY DEF CarryInv, QueueShape, IsText
<1>4. Playing' = Playing
  BY <1>1 DEF Playing
<1>5. CASE inbox' = inbox /\ outcome' = outcome
  <2>1. Carriers' = Carriers /\ QueueShape'
    BY <1>1, <1>4, <1>5 DEF Carriers, CarryInv, QueueShape
  <2>2. Carried'
    BY <1>2, <1>5, <2>1, CarryStep DEF CarryInv
  <2> QED
    BY <1>2, <2>1, <2>2 DEF CarryInv
<1>6. CASE ToolFlush
  <2>1. /\ inbox'["tts"] = Append(s, Reminder) /\ inbox'["tool"] = k
        /\ inbox'["llm"] = inbox["llm"] /\ inbox'["player"] = inbox["player"] /\ outcome' = outcome
    BY <1>6 DEF ToolFlush, Shape, Nodes
  <2>2. IsChunk(Reminder)
    BY DEF IsChunk, Reminder
  <2>3. IsText(Append(s, Reminder)) /\ EndsIn(s) \subseteq EndsIn(Append(s, Reminder))
    BY <1>3, <2>2, QueueAppend
  <2>4. QueueShape' /\ Carriers \subseteq Carriers'
    BY <1>1, <1>4, <2>1, <2>3 DEF CarryInv, QueueShape, Carriers
  <2>5. Carried'
    BY <1>2, <2>1, <2>4, CarryStep DEF CarryInv
  <2> QED
    BY <1>2, <2>4, <2>5 DEF CarryInv
<1>7. ASSUME k # <<>>, Take("tool"),
             \/ outcome' = outcome /\ (h.turn \in cancelled["tool"] \/ h.final # TRUE)
             \/ Settle(h.turn, "lost")
      PROVE  CarryInv'
  <2>1. /\ inbox'["tool"] = Tail(k) /\ inbox'["tts"] = s
        /\ inbox'["llm"] = inbox["llm"] /\ inbox'["player"] = inbox["player"]
    BY <1>7 DEF Take, Shape, Nodes
  <2>2. /\ IsText(Tail(k)) /\ EndsIn(k) \subseteq EndsIn(Tail(k)) \cup {h.turn}
        /\ h.final # TRUE => EndsIn(k) \subseteq EndsIn(Tail(k))
    BY <1>3, <1>7, QueueTake
  <2>3. /\ QueueShape' /\ Carriers \subseteq Carriers' \cup {h.turn}
        /\ h.final # TRUE => Carriers \subseteq Carriers'
    BY <1>1, <1>4, <2>1, <2>2 DEF CarryInv, QueueShape, Carriers
  <2>4. Carried'
    <3>1. CASE outcome' = outcome /\ h.turn \in cancelled["tool"]
      <4>1. h.turn \in Doomed
        BY <3>1, KnownIsDoomed DEF CarryInv, ControlOutputs
      <4> QED
        BY <1>2, <2>3, <3>1, <4>1, CarryStep DEF CarryInv
    <3>2. CASE outcome' = outcome /\ h.final # TRUE
      BY <1>2, <2>3, <3>2, CarryStep DEF CarryInv
    <3>3. CASE Settle(h.turn, "lost")
      BY <1>2, <2>3, <3>3, SettleOne, CarryStep DEF CarryInv
    <3> QED
      BY <1>7, <3>1, <3>2, <3>3
  <2> QED
    BY <1>2, <2>3, <2>4 DEF CarryInv
<1>8. ASSUME k # <<>>, NEW m, IsChunk(m), m.turn = h.turn, m.final = h.final,
             Pass("tool", "tts", m), outcome' = outcome
      PROVE  CarryInv'
  <2>1. /\ inbox'["tool"] = Tail(k) /\ inbox'["tts"] = Append(s, m)
        /\ inbox'["llm"] = inbox["llm"] /\ inbox'["player"] = inbox["player"]
    BY <1>8 DEF Pass, Shape, Nodes
  <2>2. /\ IsText(Tail(k)) /\ EndsIn(k) \subseteq EndsIn(Tail(k)) \cup {h.turn}
        /\ h.final # TRUE => EndsIn(k) \subseteq EndsIn(Tail(k))
    BY <1>3, <1>8, QueueTake
  <2>3. /\ IsText(Append(s, m)) /\ EndsIn(s) \subseteq EndsIn(Append(s, m))
        /\ m.final = TRUE => m.turn \in EndsIn(Append(s, m))
    BY <1>3, <1>8, QueueAppend
  <2>4. QueueShape'
    BY <1>1, <2>1, <2>2, <2>3 DEF CarryInv, QueueShape
  <2>5. EndsIn(k) \subseteq EndsIn(Tail(k)) \cup EndsIn(Append(s, m))
    BY <1>8, <2>2, <2>3
  <2>6. Carriers \subseteq Carriers'
    BY <1>1, <1>4, <2>1, <2>3, <2>5 DEF Carriers
  <2>7. Carried'
    BY <1>2, <1>8, <2>6, CarryStep DEF CarryInv
  <2> QED
    BY <1>2, <2>4, <2>7 DEF CarryInv
<1>9. CASE Fire \/ ToolReceive
  BY <1>5, <1>9 DEF Fire, ToolReceive
<1>10. CASE ToolNothing
  BY <1>5, <1>7, <1>10 DEF ToolNothing
<1>11. CASE ToolProcess
  <2>1. k # <<>>
    BY <1>11 DEF ToolProcess
  <2>2. IsChunk(h)
    BY <1>3, <2>1, QueueTake
  <2>3. \/ /\ Take("tool")
           /\ (h.final /\ Settle(h.turn, "lost")) \/ (~h.final /\ outcome' = outcome)
        \/ \E out : Pass("tool", "tts", [h EXCEPT !.text = out]) /\ outcome' = outcome
    BY <1>11 DEF ToolProcess
  <2> HIDE DEF h
  <2>4. CASE Take("tool") /\ ((h.final /\ Settle(h.turn, "lost")) \/ (~h.final /\ outcome' = outcome))
    BY <1>7, <2>1, <2>4
  <2>5. ASSUME NEW out, Pass("tool", "tts", [h EXCEPT !.text = out]), outcome' = outcome
        PROVE  CarryInv'
    <3> DEFINE m == [h EXCEPT !.text = out]
    <3>1. m = [turn |-> h.turn, text |-> out, final |-> h.final]
      BY <2>2 DEF IsChunk
    <3>2. IsChunk(m) /\ m.turn = h.turn /\ m.final = h.final
      BY <3>1 DEF IsChunk
    <3>3. Pass("tool", "tts", m)
      BY <2>5
    <3> HIDE DEF m
    <3> QED
      BY <1>8, <2>1, <2>5, <3>2, <3>3
  <2> QED
    BY <2>3, <2>4, <2>5
<1> QED
  BY <1>6, <1>9, <1>10, <1>11 DEF ToolStep

(* The TTS turns a final chunk into audio, or settles its turn.                   *)
LEMMA TtsCarries ==
  ASSUME Shape, CarryInv, TtsStep
  PROVE  CarryInv'
<1> DEFINE s == inbox["tts"]
           a == inbox["player"]
           h == Head(s)
<1>1. UNCHANGED <<cwire, cancelled, player, llm>>
  BY DEF TtsStep, TtsSkip, TtsProcess, ttsFrame, writer
<1>2. SameCancels' /\ Doomed' = Doomed
  BY <1>1, CancelsKept DEF CarryInv
<1>3. IsText(s) /\ IsSeq(s) /\ IsSeq(a)
  BY DEF CarryInv, QueueShape, IsText
<1>4. Playing' = Playing
  BY <1>1 DEF Playing
<1>5. s # <<>>
  BY DEF TtsStep, TtsSkip, TtsProcess
<1>6. /\ IsText(Tail(s)) /\ EndsIn(s) \subseteq EndsIn(Tail(s)) \cup {h.turn}
      /\ h.final # TRUE => EndsIn(s) \subseteq EndsIn(Tail(s))
  BY <1>3, <1>5, QueueTake
<1>7. ASSUME Take("tts"),
             \/ outcome' = outcome /\ (h.turn \in cancelled["tts"] \/ h.final # TRUE)
             \/ Settle(h.turn, "lost")
      PROVE  CarryInv'
  <2>1. /\ inbox'["tts"] = Tail(s) /\ inbox'["tool"] = inbox["tool"]
        /\ inbox'["llm"] = inbox["llm"] /\ inbox'["player"] = a
    BY <1>7 DEF Take, Shape, Nodes
  <2>2. /\ QueueShape' /\ Carriers \subseteq Carriers' \cup {h.turn}
        /\ h.final # TRUE => Carriers \subseteq Carriers'
    BY <1>1, <1>4, <1>6, <2>1 DEF CarryInv, QueueShape, Carriers
  <2>3. Carried'
    <3>1. CASE outcome' = outcome /\ h.turn \in cancelled["tts"]
      <4>1. h.turn \in Doomed
        BY <3>1, KnownIsDoomed DEF CarryInv, ControlOutputs
      <4> QED
        BY <1>2, <2>2, <3>1, <4>1, CarryStep DEF CarryInv
    <3>2. CASE outcome' = outcome /\ h.final # TRUE
      BY <1>2, <2>2, <3>2, CarryStep DEF CarryInv
    <3>3. CASE Settle(h.turn, "lost")
      BY <1>2, <2>2, <3>3, SettleOne, CarryStep DEF CarryInv
    <3> QED
      BY <1>7, <3>1, <3>2, <3>3
  <2> QED
    BY <1>2, <2>2, <2>3 DEF CarryInv
<1>8. ASSUME NEW m, m.turn = h.turn, Pass("tts", "player", m), outcome' = outcome
      PROVE  CarryInv'
  <2>1. /\ inbox'["tts"] = Tail(s) /\ inbox'["tool"] = inbox["tool"]
        /\ inbox'["llm"] = inbox["llm"] /\ inbox'["player"] = Append(a, m)
    BY <1>8 DEF Pass, Shape, Nodes
  <2>2. IsSeq(Append(a, m)) /\ TurnsIn(Append(a, m)) = TurnsIn(a) \cup {m.turn}
    BY <1>3, QueueAppend
  <2>3. QueueShape' /\ Carriers \subseteq Carriers'
    BY <1>1, <1>4, <1>6, <1>8, <2>1, <2>2 DEF CarryInv, QueueShape, Carriers
  <2>4. Carried'
    BY <1>2, <1>8, <2>3, CarryStep DEF CarryInv
  <2> QED
    BY <1>2, <2>3, <2>4 DEF CarryInv
<1>9. CASE TtsSkip
  BY <1>7, <1>9 DEF TtsSkip
<1>10. ASSUME NEW ok \in BOOLEAN, TtsProcess(ok) PROVE CarryInv'
  <2> DEFINE m == [turn |-> h.turn, text |-> BufferedWith(h)]
  <2>1. \/ Take("tts") /\ ~h.final /\ outcome' = outcome
        \/ Take("tts") /\ Settle(h.turn, "lost")
        \/ Pass("tts", "player", m) /\ outcome' = outcome
    BY <1>10 DEF TtsProcess
  <2>2. m.turn = h.turn
    OBVIOUS
  <2> HIDE DEF m
  <2> QED
    BY <1>7, <1>8, <2>1, <2>2
<1> QED
  BY <1>9, <1>10 DEF TtsStep

(* The player plays a turn to its end, or stops because it is cancelled or the     *)
(* device fails.                                                                   *)
LEMMA PlayerCarries ==
  ASSUME Shape, CarryInv, PlayerStep
  PROVE  CarryInv'
<1> DEFINE a == inbox["player"]
<1>1. UNCHANGED <<cwire, cancelled, llm>>
  BY DEF PlayerStep, PlayTake, PlayCheck, PlayWrite, PlayRaise, playerFrame, writer
<1>2. SameCancels' /\ Doomed' = Doomed
  BY <1>1, CancelsKept DEF CarryInv
<1>3. /\ player = [pc |-> player.pc, turn |-> player.turn, text |-> player.text, pos |-> player.pos]
      /\ IsSeq(a)
  BY DEF Shape, CarryInv, QueueShape
<1>4. ASSUME NEW t, t \in cancelled["player"] PROVE t \in Doomed'
  BY <1>2, <1>4 DEF Doomed
<1>5. CASE PlayTake
  <2> DEFINE h == Head(a)
  <2>1. /\ a # <<>> /\ inbox'["player"] = Tail(a) /\ inbox'["tool"] = inbox["tool"]
        /\ inbox'["llm"] = inbox["llm"] /\ inbox'["tts"] = inbox["tts"]
        /\ outcome' = outcome /\ player.pc = "idle"
    BY <1>5 DEF PlayTake, Take, Shape, Nodes
  <2>2. h.turn \in cancelled["player"] \/ h.turn \in Playing'
    BY <1>5 DEF PlayTake, Playing
  <2>3. IsSeq(Tail(a)) /\ TurnsIn(a) = TurnsIn(Tail(a)) \cup {h.turn}
    BY <1>3, <2>1, QueueTake
  <2> HIDE DEF h
  <2>4. Playing = {}
    BY <2>1 DEF Playing
  <2>5. QueueShape' /\ Carriers \subseteq Carriers' \cup Doomed'
    BY <1>1, <1>4, <2>1, <2>2, <2>3, <2>4 DEF CarryInv, QueueShape, Carriers
  <2>6. Carried'
    BY <1>2, <2>1, <2>5, CarryStep DEF CarryInv
  <2> QED
    BY <1>2, <2>5, <2>6 DEF CarryInv
<1>6. ASSUME inbox' = inbox,
             \/ outcome' = outcome /\ (player.turn \in Doomed' \/ player.turn \in Playing')
             \/ \E o \in {"heard", "lost"} : Settle(player.turn, o)
      PROVE  CarryInv'
  <2>1. QueueShape'
    BY <1>1, <1>6 DEF CarryInv, QueueShape
  <2>2. Carriers \subseteq Carriers' \cup {player.turn}
    BY <1>1, <1>6 DEF Carriers, Playing
  <2>3. Playing' \subseteq Carriers'
    BY DEF Carriers
  <2>4. Carried'
    <3>1. CASE outcome' = outcome /\ (player.turn \in Doomed' \/ player.turn \in Playing')
      BY <1>2, <2>2, <2>3, <3>1, CarryStep DEF CarryInv
    <3>2. CASE \E o \in {"heard", "lost"} : Settle(player.turn, o)
      BY <1>2, <2>2, <3>2, SettleOne, CarryStep DEF CarryInv
    <3> QED
      BY <1>6, <3>1, <3>2
  <2> QED
    BY <1>2, <2>1, <2>4 DEF CarryInv
<1>7. CASE PlayCheck
  <2>1. inbox' = inbox
    BY <1>7 DEF PlayCheck
  <2>2. CASE player.pos = Len(player.text)
    BY <1>6, <1>7, <2>1, <2>2 DEF PlayCheck
  <2>3. CASE player.pos # Len(player.text)
    <3>1. /\ outcome' = outcome
          /\ player.turn \in cancelled["player"] \/ player' = [player EXCEPT !.pc = "write"]
      BY <1>7, <2>3 DEF PlayCheck
    <3>2. player.turn \in cancelled["player"] \/ player.turn \in Playing'
      BY <1>3, <3>1 DEF Playing
    <3> QED
      BY <1>4, <1>6, <2>1, <3>1, <3>2
  <2> QED
    BY <2>2, <2>3
<1>8. CASE PlayWrite
  <2>1. inbox' = inbox /\ outcome' = outcome /\ player' = [player EXCEPT !.pc = "check", !.pos = @ + 1]
    BY <1>8 DEF PlayWrite
  <2>2. player.turn \in Playing'
    BY <1>3, <2>1 DEF Playing
  <2> QED
    BY <1>6, <2>1, <2>2
<1>9. CASE PlayRaise
  BY <1>6, <1>9 DEF PlayRaise
<1> QED
  BY <1>5, <1>7, <1>8, <1>9 DEF PlayerStep

(* Whatever the user says over it and whatever fails, a transcribed question is    *)
(* answered aloud, cancelled, or lost to something that failed; none is left over   *)
(* when the assistant comes to rest, for any number of turns, chunks and timers.    *)
THEOREM QuestionsAreSettled == Spec => []NoQuestionForgotten
<1>1. Init => CarryInv
  <2> SUFFICES ASSUME Init PROVE CarryInv
    OBVIOUS
  <2>1. IsSeq(<<>>) /\ IsText(<<>>)
    BY DEF IsSeq, IsText
  <2>2. QueueShape
    BY <2>1 DEF Init, QueueShape, Nodes
  <2>3. SameCancels /\ Carried
    BY DEF Init, SameCancels, Carried, ControlOutputs
  <2> QED
    BY <2>2, <2>3 DEF CarryInv
<1>2. IInv /\ CarryInv /\ [Next]_vars => CarryInv'
  <2> SUFFICES ASSUME Shape, CarryInv, [Next]_vars PROVE CarryInv'
    BY DEF IInv
  <2>1. CASE UNCHANGED vars
    <3>1. UNCHANGED <<inbox, llm, player, outcome, cwire, cancelled>>
      BY <2>1 DEF vars, writer
    <3>2. SameCancels' /\ Doomed' = Doomed
      BY <3>1, CancelsKept DEF CarryInv
    <3>3. Carriers' = Carriers /\ QueueShape'
      BY <3>1 DEF Carriers, Playing, CarryInv, QueueShape
    <3>4. Carried'
      BY <3>1, <3>2, <3>3, CarryStep DEF CarryInv
    <3> QED
      BY <3>2, <3>3, <3>4 DEF CarryInv
  <2>2. CASE \E energy \in {"silence", "soft", "loud"}, clock \in BOOLEAN : Hear(energy, clock)
    BY <2>2, HearCarries
  <2>3. CASE ControlStep
    BY <2>3, CancelCarries DEF ControlStep
  <2>4. CASE AsrStep \/ LlmStep \/ Fire \/ ToolStep \/ TtsStep \/ PlayerStep
    BY <2>4, AsrCarries, LlmCarries, ToolCarries, TtsCarries, PlayerCarries
  <2> QED
    BY <2>1, <2>2, <2>3, <2>4 DEF Next
<1>3. CarryInv => NoQuestionForgotten
  <2> SUFFICES ASSUME CarryInv, AtRest, NEW t \in Turns, outcome[t] = "asked"
               PROVE  t \in cancelled["player"]
    BY DEF NoQuestionForgotten
  <2>1. /\ inbox["llm"] = <<>> /\ inbox["tool"] = <<>> /\ inbox["tts"] = <<>> /\ inbox["player"] = <<>>
        /\ llm.turn = 0 /\ Playing = {} /\ cwire["player"] = {}
    BY DEF AtRest, Nodes, ControlOutputs, Playing
  <2>2. TurnsIn(<<>>) = {} /\ EndsIn(<<>>) = {}
    BY DEF TurnsIn, EndsIn
  <2>3. Carriers = {0}
    BY <2>1, <2>2 DEF Carriers
  <2> QED
    BY <2>1, <2>3, NoTurnZero DEF CarryInv, Carried, Doomed
<1> QED
  BY InitIInv, NextIInv, <1>1, <1>2, <1>3, PTL DEF Spec
=============================================================================
