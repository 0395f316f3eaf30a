----------------------------- MODULE Streaming -----------------------------
(***************************************************************************)
(* One streamed answer: the two nested generators of api/streaming.py.     *)
(* stream_llm_response turns the chunks of the provider into SSE frames    *)
(* and stream_and_capture yields each frame to the response that sends it, *)
(* captures its text once the response asks for the next frame, and calls  *)
(* on_complete with the whole text when the frames are exhausted.          *)
(*                                                                         *)
(* The task is suspended while it awaits the provider and while the frame  *)
(* it yielded is being sent; the client may hang up, and the task be       *)
(* cancelled, at either.  Everything between two such points is one        *)
(* action.                                                                 *)
(***************************************************************************)
EXTENDS Naturals, Sequences

CONSTANTS
    Delta,         \* texts a chunk may bring
    LooksLikeDone, \* those that contain the text "[DONE]"
    LooksLikeError,\* those whose JSON contains "error" in quotes: the text error
    MaxChunks,     \* bound on the chunks of one answer
    None           \* Python's None

ASSUME DeltaAssumption ==
    /\ LooksLikeDone \subseteq Delta
    /\ LooksLikeError \subseteq Delta
    /\ None \notin Delta
    /\ None \notin Seq(Delta)

ASSUME BoundAssumption == MaxChunks \in Nat

VARIABLES
    pc,               \* what the task awaits, or how it ended
    upstream,         \* the deltas the provider has sent, None among them
    frame,            \* the frame yielded and being sent, or None
    sent,             \* the frames the response has sent to the client
    collected_tokens, \* the texts captured so far
    full_response     \* what on_complete was called with, or None

vars == <<pc, upstream, frame, sent, collected_tokens, full_response>>

Content(delta) == [type |-> "content", text |-> delta]
Done == [type |-> "done"]
Error == [type |-> "error"]

Frame == [type : {"content"}, text : Delta] \cup {Done, Error}

ASSUME FrameAssumption == None \notin Frame

Stages == {"call", "iterate", "yield", "completed", "failed", "cancelled"}

-----------------------------------------------------------------------------
Init ==
    /\ pc = "call"
    /\ upstream = <<>>
    /\ frame = None
    /\ sent = <<>>
    /\ collected_tokens = <<>>
    /\ full_response = None

-----------------------------------------------------------------------------
(* stream_llm_response *)

\* acompletion is awaited for and returns the stream.
CallReturns ==
    /\ pc = "call"
    /\ pc' = "iterate"
    /\ UNCHANGED <<upstream, frame, sent, collected_tokens, full_response>>

Yield(f) ==
    /\ frame' = f
    /\ pc' = "yield"
    /\ UNCHANGED <<sent, full_response>>

\* Wrong: the text is captured before the frame is sent.
ChunkCapturedFirst(delta) ==
    /\ pc = "iterate"
    /\ Len(upstream) < MaxChunks
    /\ upstream' = Append(upstream, delta)
    /\ collected_tokens' = Append(collected_tokens, delta)
    /\ Yield(Content(delta))

\* A chunk with a text is yielded as a frame.
Chunk(delta) ==
    /\ pc = "iterate"
    /\ Len(upstream) < MaxChunks
    /\ upstream' = Append(upstream, delta)
    /\ Yield(Content(delta))
    /\ UNCHANGED collected_tokens

\* Wrong: a chunk without a text is yielded like any other.
EmptyChunkYielded ==
    /\ pc = "iterate"
    /\ Len(upstream) < MaxChunks
    /\ upstream' = Append(upstream, None)
    /\ Yield(Content(None))
    /\ UNCHANGED collected_tokens

\* A chunk without a text (a role, a finish reason) is skipped.
EmptyChunk ==
    /\ pc = "iterate"
    /\ Len(upstream) < MaxChunks
    /\ upstream' = Append(upstream, None)
    /\ UNCHANGED <<pc, frame, sent, collected_tokens, full_response>>

\* Wrong: the text is handed over before the sentinel is sent.
EndOfStreamCompletes ==
    /\ pc = "iterate"
    /\ frame' = Done
    /\ pc' = "yield"
    /\ full_response' = collected_tokens
    /\ UNCHANGED <<upstream, sent, collected_tokens>>

EndOfStream ==
    /\ pc = "iterate"
    /\ Yield(Done)
    /\ UNCHANGED <<upstream, collected_tokens>>

\* The call or the iteration raises: an error frame, and StreamingError once
\* it is sent.
UpstreamFails ==
    /\ pc \in {"call", "iterate"}
    /\ Yield(Error)
    /\ UNCHANGED <<upstream, collected_tokens>>

-----------------------------------------------------------------------------
(* stream_and_capture *)

\* The test on the text of the frame, which the frames of the protocol fail,
\* and so do two kinds of content.
IsCaptured(delta) == delta \notin LooksLikeDone \cup LooksLikeError

Captured(f) ==
    IF f.type = "content" /\ IsCaptured(f.text)
    THEN Append(collected_tokens, f.text)
    ELSE collected_tokens

SentNow == sent' = Append(sent, frame)

\* The frame has been sent: its text is captured, and the generators run on to
\* the next chunk.
ContentSent ==
    /\ pc = "yield"
    /\ frame.type = "content"
    /\ SentNow
    /\ collected_tokens' = Captured(frame)
    /\ frame' = None
    /\ pc' = "iterate"
    /\ UNCHANGED <<upstream, full_response>>

\* The sentinel has been sent and the frames are exhausted.
DoneSent ==
    /\ pc = "yield"
    /\ frame.type = "done"
    /\ SentNow
    /\ full_response' = collected_tokens
    /\ frame' = None
    /\ pc' = "completed"
    /\ UNCHANGED <<upstream, collected_tokens>>

\* Wrong: the text so far is handed over when the stream breaks.
ErrorSentCompletes ==
    /\ pc = "yield"
    /\ frame.type = "error"
    /\ SentNow
    /\ full_response' = collected_tokens
    /\ frame' = None
    /\ pc' = "failed"
    /\ UNCHANGED <<upstream, collected_tokens>>

\* StreamingError leaves both generators; on_complete is not called.
ErrorSent ==
    /\ pc = "yield"
    /\ frame.type = "error"
    /\ SentNow
    /\ frame' = None
    /\ pc' = "failed"
    /\ UNCHANGED <<upstream, collected_tokens, full_response>>

\* The client hangs up, and the task is cancelled where it is suspended.
Disconnect ==
    /\ pc \in {"call", "iterate", "yield"}
    /\ pc' = "cancelled"
    /\ UNCHANGED <<upstream, frame, sent, collected_tokens, full_response>>

-----------------------------------------------------------------------------
Next ==
    \/ CallReturns
    \/ \E delta \in Delta : Chunk(delta)
    \/ EmptyChunk
    \/ EndOfStream
    \/ UpstreamFails
    \/ ContentSent
    \/ DoneSent
    \/ ErrorSent
    \/ Disconnect

Spec == Init /\ [][Next]_vars

-----------------------------------------------------------------------------
(* Properties *)

\* Every variable has its type, and a task suspended at a yield has a frame.
\* What is captured are texts: "".join raises on anything else.
TypeOK ==
    /\ pc \in Stages
    /\ upstream \in Seq(Delta \cup {None})
    /\ frame \in Frame \cup {None}
    /\ pc = "yield" => frame # None
    /\ sent \in Seq(Frame)
    /\ collected_tokens \in Seq(Delta)
    /\ full_response \in Seq(Delta) \cup {None}

\* The elements of s at the places S are those of t at the places T, in order.
SameInOrder(s, S, t, T) ==
    \E place \in [S -> T] :
        /\ T = {place[i] : i \in S}
        /\ \A i, j \in S : i < j => place[i] < place[j]
        /\ \A i \in S : s[i] = t[place[i]]

Text(f) == IF f.type = "content" THEN f.text ELSE None

Texts(frames) == [i \in DOMAIN frames |-> Text(frames[i])]

WithText(texts) == {i \in DOMAIN texts : texts[i] # None}

Capturable(texts) == {i \in WithText(texts) : IsCaptured(texts[i])}

\* What is handed over for caching is the answer of a stream that came to its
\* own end and was sent to the last frame: no error frame among them, and the
\* sentinel at the end.  It is all that the provider sent and the test on the
\* frames lets through, in order: nothing got lost between the two generators.
OnlyWholeAnswersComplete ==
    full_response # None =>
        /\ sent # <<>>
        /\ sent[Len(sent)] = Done
        /\ \A i \in 1 .. Len(sent) : sent[i] # Error
        /\ SameInOrder(full_response, DOMAIN full_response, upstream, Capturable(upstream))

\* The frames sent, and the one on its way.
Offered == IF frame = None THEN sent ELSE Append(sent, frame)

\* The provider's texts are offered in order, none skipped or repeated, and
\* what is captured are the capturable texts of the frames that were sent, in
\* order: nothing that was not sent, even when the client hangs up while a
\* frame is on its way, and nothing left out or twice.
CaptureFollowsDelivery ==
    /\ SameInOrder(collected_tokens, DOMAIN collected_tokens,
                   Texts(sent), Capturable(Texts(sent)))
    /\ SameInOrder(Texts(Offered), WithText(Texts(Offered)), upstream, WithText(upstream))

\* api/streaming.py:120-122: once all tokens are delivered, on_complete is
\* called "with the full response text".
FullTextIsCaptured ==
    full_response # None =>
        SameInOrder(full_response, DOMAIN full_response, Texts(sent), WithText(Texts(sent)))

\* How much of the answer was sent.
Delivered ==
    IF sent = <<>> THEN "none" ELSE IF sent[Len(sent)] = Done THEN "whole" ELSE "part"

Answer == INSTANCE AnswerStream WITH
    body   <- Delivered,
    handed <- full_response # None,
    over   <- pc \in {"completed", "failed", "cancelled"}

\* The generators keep the promise that the handler relies on: on_complete is
\* called in the step in which the last frame has been sent and in no other,
\* and a stream that broke sends no more and hands nothing over.
ImplementsAnswerStream == Answer!Spec
=============================================================================
