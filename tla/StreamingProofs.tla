--------------------------- MODULE StreamingProofs ---------------------------
(***************************************************************************)
(* Streaming is typed, hands over whole answers only, and captures what it *)
(* sends.                                                                  *)
(***************************************************************************)
EXTENDS Streaming, TLAPS

\* Sending a frame keeps sent a sequence of frames, and adds that frame alone.
LEMMA SendOne ==
    ASSUME TypeOK, frame \in Frame, SentNow
    PROVE  /\ sent' \in Seq(Frame)
           /\ Len(sent') = Len(sent) + 1
           /\ sent'[Len(sent')] = frame
           /\ \A i \in 1 .. Len(sent) : sent'[i] = sent[i]
  BY DEF TypeOK, SentNow

\* The stages, frames and sequences keep their types: in particular a frame
\* whose text is captured brings a text and never None.
THEOREM StreamTyped == Spec => []TypeOK
<1>1. Init => TypeOK
  BY DEF Init, TypeOK, Stages
<1>2. ASSUME TypeOK, [Next]_vars
      PROVE  TypeOK'
  <2> USE <1>2 DEF TypeOK
  <2>1. CASE CallReturns
    BY <2>1 DEF CallReturns, Stages
  <2>2. ASSUME NEW delta \in Delta, Chunk(delta)
        PROVE  TypeOK'
    BY <2>2, FrameAssumption DEF Chunk, Yield, Content, Frame, Stages
  <2>3. CASE EmptyChunk
    BY <2>3 DEF EmptyChunk
  <2>4. CASE EndOfStream
    BY <2>4, FrameAssumption DEF EndOfStream, Yield, Frame, Stages
  <2>5. CASE UpstreamFails
    BY <2>5, FrameAssumption DEF UpstreamFails, Yield, Frame, Stages
  <2>6. CASE ContentSent
    <3>1. frame \in Frame
      BY <2>6 DEF ContentSent
    <3>2. frame.text \in Delta
      BY <3>1, <2>6 DEF ContentSent, Frame, Done, Error
    <3>3. collected_tokens' \in Seq(Delta)
      BY <3>2, <2>6 DEF ContentSent, Captured
    <3>4. sent' \in Seq(Frame)
      BY <3>1, <2>6, SendOne DEF ContentSent
    <3> QED
      BY <2>6, <3>3, <3>4 DEF ContentSent, Stages
  <2>7. CASE DoneSent
    <3>1. frame \in Frame
      BY <2>7 DEF DoneSent
    <3>2. sent' \in Seq(Frame)
      BY <3>1, <2>7, SendOne DEF DoneSent
    <3> QED
      BY <2>7, <3>2 DEF DoneSent, Stages
  <2>8. CASE ErrorSent
    <3>1. frame \in Frame
      BY <2>8 DEF ErrorSent
    <3>2. sent' \in Seq(Frame)
      BY <3>1, <2>8, SendOne DEF ErrorSent
    <3> QED
      BY <2>8, <3>2 DEF ErrorSent, Stages
  <2>9. CASE Disconnect
    BY <2>9 DEF Disconnect, Stages
  <2>10. CASE UNCHANGED vars
    BY <2>10 DEF vars
  <2> QED
    BY <1>2, <2>1, <2>2, <2>3, <2>4, <2>5, <2>6, <2>7, <2>8, <2>9, <2>10 DEF Next
<1> QED
  BY <1>1, <1>2, PTL DEF Spec

-----------------------------------------------------------------------------
\* An error frame is the last one of a failed stream, and on_complete is called
\* on the way into "completed", with the sentinel just sent.
Ending ==
    /\ pc # "failed" => \A i \in 1 .. Len(sent) : sent[i] # Error
    /\ pc # "completed" => full_response = None
    /\ pc = "completed" => sent # <<>> /\ sent[Len(sent)] = Done

\* The invariant behind OnlyWholeAnswersComplete, but for the order of the texts.
LEMMA EndingInvariant == Spec => []Ending
<1>1. Init => Ending
  BY DEF Init, Ending
<1>2. ASSUME TypeOK, Ending, [Next]_vars
      PROVE  Ending'
  <2> USE <1>2
  <2>1. CASE CallReturns
    BY <2>1 DEF CallReturns, Ending
  <2>2. ASSUME NEW delta \in Delta, Chunk(delta)
        PROVE  Ending'
    BY <2>2 DEF Chunk, Yield, Ending
  <2>3. CASE EmptyChunk
    BY <2>3 DEF EmptyChunk, Ending
  <2>4. CASE EndOfStream
    BY <2>4 DEF EndOfStream, Yield, Ending
  <2>5. CASE UpstreamFails
    BY <2>5 DEF UpstreamFails, Yield, Ending
  <2>6. CASE ContentSent
    <3>1. frame \in Frame /\ frame # Error
      BY <2>6 DEF ContentSent, TypeOK, Error
    <3>2. \A i \in 1 .. Len(sent') : sent'[i] # Error
      BY <3>1, <2>6, SendOne DEF ContentSent, TypeOK, Ending
    <3> QED
      BY <3>2, <2>6 DEF ContentSent, Ending
  <2>7. CASE DoneSent
    <3>1. frame \in Frame /\ frame = Done /\ frame # Error
      BY <2>7 DEF DoneSent, TypeOK, Frame, Done, Error
    <3>2. \A i \in 1 .. Len(sent') : sent'[i] # Error
      BY <3>1, <2>7, SendOne DEF DoneSent, TypeOK, Ending
    <3>3. sent' # <<>> /\ sent'[Len(sent')] = Done
      BY <3>1, <2>7, SendOne DEF DoneSent, TypeOK
    <3> QED
      BY <3>2, <3>3, <2>7 DEF DoneSent, Ending
  <2>8. CASE ErrorSent
    BY <2>8 DEF ErrorSent, Ending
  <2>9. CASE Disconnect
    BY <2>9 DEF Disconnect, Ending
  <2>10. CASE UNCHANGED vars
    BY <2>10 DEF vars, Ending
  <2> QED
    BY <2>1, <2>2, <2>3, <2>4, <2>5, <2>6, <2>7, <2>8, <2>9, <2>10 DEF Next
<1> QED
  BY <1>1, <1>2, StreamTyped, PTL DEF Spec

-----------------------------------------------------------------------------
(* What the handler relies on *)

\* A sentinel among the frames sent is the last, and only a completed stream
\* has sent it.
SentinelEnds ==
    /\ pc # "completed" => sent = <<>> \/ sent[Len(sent)] # Done
    /\ pc = "completed" => sent # <<>> /\ sent[Len(sent)] = Done
    /\ pc # "completed" => full_response = None
    /\ pc = "completed" => full_response # None

\* Sending another frame than the sentinel leaves the answer delivered in part.
LEMMA PartSent ==
    ASSUME TypeOK, frame \in Frame, frame # Done, SentNow
    PROVE  Delivered' = "part" /\ sent' # <<>> /\ sent'[Len(sent')] # Done
BY SendOne DEF Delivered, TypeOK

\* Sending the sentinel makes it whole.
LEMMA WholeSent ==
    ASSUME TypeOK, frame = Done, SentNow
    PROVE  Delivered' = "whole" /\ sent' # <<>> /\ sent'[Len(sent')] = Done
<1>1. frame \in Frame
  BY DEF Frame
<1> QED
  BY <1>1, SendOne DEF Delivered, TypeOK

\* A stream of this module is a streamed answer as the handler takes it to be:
\* handed over in the step that completes it, and left alone once it is over.
THEOREM StreamIsAnswer == Spec => ImplementsAnswerStream
<1>1. Init => SentinelEnds /\ Answer!Init
  BY DEF Init, SentinelEnds, Answer!Init, Delivered
<1>2. ASSUME TypeOK, SentinelEnds, [Next]_vars
      PROVE  SentinelEnds' /\ [Answer!Next]_(Answer!vars)
  <2> USE <1>2
  <2> USE DEF Answer!vars
  <2>1. CASE \/ CallReturns \/ EmptyChunk \/ EndOfStream \/ UpstreamFails
             \/ \E delta \in Delta : Chunk(delta)
    BY <2>1 DEF CallReturns, EmptyChunk, EndOfStream, UpstreamFails, Chunk, Yield,
       SentinelEnds, Delivered
  <2>2. CASE ContentSent
    <3>1. frame \in Frame /\ frame # Done
      BY <2>2 DEF ContentSent, TypeOK, Done
    <3>2. Delivered' = "part" /\ sent' # <<>> /\ sent'[Len(sent')] # Done
      BY <2>2, <3>1, PartSent DEF ContentSent
    <3> QED
      BY <2>2, <3>2 DEF ContentSent, SentinelEnds, Answer!Next, Answer!Send
  <2>3. CASE DoneSent
    <3>1. frame = Done
      BY <2>3 DEF DoneSent, TypeOK, Frame, Done, Error
    <3>2. Delivered' = "whole" /\ sent' # <<>> /\ sent'[Len(sent')] = Done
      BY <2>3, <3>1, WholeSent DEF DoneSent
    <3>3. full_response' # None
      BY <2>3, DeltaAssumption DEF DoneSent, TypeOK
    <3> QED
      BY <2>3, <3>2, <3>3 DEF DoneSent, SentinelEnds, Answer!Next, Answer!Complete
  <2>4. CASE ErrorSent
    <3>1. frame \in Frame /\ frame # Done
      BY <2>4 DEF ErrorSent, TypeOK, Done
    <3>2. Delivered' = "part" /\ sent' # <<>> /\ sent'[Len(sent')] # Done
      BY <2>4, <3>1, PartSent DEF ErrorSent
    <3> QED
      BY <2>4, <3>2 DEF ErrorSent, SentinelEnds, Answer!Next, Answer!Break
  <2>5. CASE Disconnect
    BY <2>5 DEF Disconnect, SentinelEnds, Delivered, Answer!Next, Answer!Break
  <2>6. CASE UNCHANGED vars
    BY <2>6 DEF vars, SentinelEnds, Delivered
  <2> QED
    BY <2>1, <2>2, <2>3, <2>4, <2>5, <2>6 DEF Next
<1> QED
  BY <1>1, <1>2, StreamTyped, PTL DEF Spec, ImplementsAnswerStream, Answer!Spec

-----------------------------------------------------------------------------
(* What is captured, sent and received, in order *)

\* The order is kept by sequences that keep the places compared.
LEMMA SameOrderKept ==
    ASSUME NEW s, NEW S, NEW t, NEW T, NEW ss, NEW tt,
           SameInOrder(s, S, t, T),
           \A i \in S : ss[i] = s[i],
           \A i \in T : tt[i] = t[i]
    PROVE  SameInOrder(ss, S, tt, T)
<1>1. PICK place \in [S -> T] :
          /\ T = {place[i] : i \in S}
          /\ \A i, j \in S : i < j => place[i] < place[j]
          /\ \A i \in S : s[i] = t[place[i]]
  BY DEF SameInOrder
<1>2. \A i \in S : ss[i] = tt[place[i]]
  BY <1>1
<1> QED
  BY <1>1, <1>2 DEF SameInOrder

\* And by sequences that agree at one more place each, beyond the others.
LEMMA SameOrderGrows ==
    ASSUME NEW s, NEW S \in SUBSET Nat, NEW t, NEW T \in SUBSET Nat, NEW ss, NEW tt,
           SameInOrder(s, S, t, T),
           \A i \in S : ss[i] = s[i],
           \A i \in T : tt[i] = t[i],
           NEW a \in Nat, NEW b \in Nat,
           \A i \in S : i < a, \A i \in T : i < b,
           ss[a] = tt[b]
    PROVE  SameInOrder(ss, S \cup {a}, tt, T \cup {b})
<1>1. PICK place \in [S -> T] :
          /\ T = {place[i] : i \in S}
          /\ \A i, j \in S : i < j => place[i] < place[j]
          /\ \A i \in S : s[i] = t[place[i]]
  BY DEF SameInOrder
<1> DEFINE longer == [i \in S \cup {a} |-> IF i = a THEN b ELSE place[i]]
<1>2. a \notin S
  <2>1. ~(a < a)
    OBVIOUS
  <2> QED
    BY <2>1
<1>3. longer[a] = b /\ \A i \in S : longer[i] = place[i] /\ place[i] \in T
  BY <1>2
<1>4. longer \in [S \cup {a} -> T \cup {b}]
  BY <1>1
<1> HIDE DEF longer
<1>5. T \cup {b} = {longer[i] : i \in S \cup {a}}
  <2>1. ASSUME NEW x \in T
        PROVE  \E i \in S : longer[i] = x
    <3>1. PICK i \in S : place[i] = x
      BY <1>1
    <3> QED
      BY <1>3, <3>1
  <2>2. \A i \in S \cup {a} : longer[i] \in T \cup {b}
    BY <1>3
  <2>3. \A x \in T \cup {b} : \E i \in S \cup {a} : longer[i] = x
    BY <2>1, <1>3
  <2> QED
    BY <2>2, <2>3
<1>6. ASSUME NEW i \in S \cup {a}, NEW j \in S \cup {a}, i < j
      PROVE  longer[i] < longer[j]
  <2>1. CASE i \in S /\ j \in S
    BY <1>1, <1>3, <1>6, <2>1
  <2>2. CASE i \in S /\ j = a
    BY <1>3, <2>2
  <2>3. CASE i = a
    <3>1. j = a \/ j < a
      OBVIOUS
    <3> QED
      BY <1>6, <2>3, <3>1
  <2> QED
    BY <2>1, <2>2, <2>3
<1>7. ASSUME NEW i \in S \cup {a}
      PROVE  ss[i] = tt[longer[i]]
  <2>1. CASE i \in S
    <3>1. ss[i] = s[i] /\ s[i] = t[place[i]] /\ place[i] \in T
      BY <1>1, <1>3, <2>1
    <3>2. tt[place[i]] = t[place[i]]
      BY <3>1
    <3> QED
      BY <1>3, <2>1, <3>1, <3>2
  <2>2. CASE i = a
    BY <1>3, <2>2
  <2> QED
    BY <2>1, <2>2
<1> QED
  BY <1>4, <1>5, <1>6, <1>7 DEF SameInOrder

\* The texts of frames, when one more is sent.
LEMMA TextsGrow ==
    ASSUME NEW frames \in Seq(Frame), NEW f \in Frame
    PROVE  /\ Texts(frames) \in Seq(Delta \cup {None})
           /\ DOMAIN Texts(frames) = 1 .. Len(frames)
           /\ Texts(Append(frames, f)) = Append(Texts(frames), Text(f))
           /\ Text(f) \in Delta \cup {None}
<1>1. \A g \in Frame : Text(g) \in Delta \cup {None}
  BY DEF Frame, Text, Done, Error
<1>2. Texts(frames) = [i \in 1 .. Len(frames) |-> Text(frames[i])]
  BY DEF Texts
<1>3. \A i \in 1 .. Len(frames) : frames[i] \in Frame
  OBVIOUS
<1>4. Texts(frames) \in [1 .. Len(frames) -> Delta \cup {None}]
  BY <1>1, <1>2, <1>3
<1>5. Len(frames) \in Nat
  OBVIOUS
<1>6. Texts(frames) \in Seq(Delta \cup {None}) /\ Len(Texts(frames)) = Len(frames)
  BY <1>2, <1>4, <1>5
<1>7. /\ DOMAIN Append(frames, f) = 1 .. Len(frames) + 1
      /\ Append(frames, f)[Len(frames) + 1] = f
      /\ \A i \in 1 .. Len(frames) : Append(frames, f)[i] = frames[i]
  OBVIOUS
<1>8. Texts(Append(frames, f)) =
          [i \in 1 .. Len(frames) + 1 |->
              IF i = Len(frames) + 1 THEN Text(f) ELSE Text(frames[i])]
  BY <1>5, <1>7 DEF Texts
<1>9. Append(Texts(frames), Text(f)) =
          [i \in 1 .. Len(frames) + 1 |->
              IF i = Len(frames) + 1 THEN Text(f) ELSE Texts(frames)[i]]
  <2> DEFINE texts == Texts(frames)
             more == Append(texts, Text(f))
  <2>1. texts \in Seq(Delta \cup {None}) /\ Text(f) \in Delta \cup {None}
    BY <1>1, <1>6
  <2>2. Len(texts) = Len(frames)
    BY <1>6
  <2> HIDE DEF texts
  <2>3. /\ more \in Seq(Delta \cup {None}) /\ Len(more) = Len(frames) + 1
        /\ more[Len(frames) + 1] = Text(f)
        /\ \A i \in 1 .. Len(frames) : more[i] = texts[i]
    BY <2>1, <2>2
  <2> HIDE DEF more
  <2>4. more = [i \in 1 .. Len(frames) + 1 |-> more[i]]
    BY <2>3
  <2>5. \A i \in 1 .. Len(frames) + 1 :
            more[i] = IF i = Len(frames) + 1 THEN Text(f) ELSE texts[i]
    BY <1>5, <2>3
  <2>6. more = [i \in 1 .. Len(frames) + 1 |->
                   IF i = Len(frames) + 1 THEN Text(f) ELSE texts[i]]
    BY <2>4, <2>5
  <2> QED
    BY <2>6 DEF more, texts
<1>10. \A i \in 1 .. Len(frames) : Texts(frames)[i] = Text(frames[i])
  BY <1>2
<1> QED
  BY <1>1, <1>2, <1>6, <1>8, <1>9, <1>10

\* One more element is one more place with a text, or with one to capture, if
\* it is one.
LEMMA PlacesGrow ==
    ASSUME NEW t \in Seq(Delta \cup {None}), NEW x \in Delta \cup {None}
    PROVE  /\ Append(t, x) \in Seq(Delta \cup {None})
           /\ Len(t) + 1 \in Nat /\ Append(t, x)[Len(t) + 1] = x
           /\ WithText(t) \in SUBSET Nat /\ Capturable(t) \in SUBSET Nat
           /\ \A i \in WithText(t) : i < Len(t) + 1 /\ Append(t, x)[i] = t[i]
           /\ \A i \in Capturable(t) : i < Len(t) + 1 /\ Append(t, x)[i] = t[i]
           /\ WithText(Append(t, x)) =
                  IF x = None THEN WithText(t) ELSE WithText(t) \cup {Len(t) + 1}
           /\ Capturable(Append(t, x)) =
                  IF x = None \/ ~IsCaptured(x) THEN Capturable(t)
                  ELSE Capturable(t) \cup {Len(t) + 1}
<1> DEFINE u == Append(t, x)
           n == Len(t) + 1
<1>1. /\ u \in Seq(Delta \cup {None}) /\ n \in Nat
      /\ DOMAIN t = 1 .. Len(t) /\ DOMAIN u = DOMAIN t \cup {n}
      /\ u[n] = x /\ \A i \in DOMAIN t : i \in Nat /\ i < n /\ u[i] = t[i]
  OBVIOUS
<1> HIDE DEF u, n
<1>2. n \notin DOMAIN t
  BY <1>1
<1>3. WithText(t) \subseteq DOMAIN t /\ Capturable(t) \subseteq DOMAIN t
  BY DEF WithText, Capturable
<1>4. WithText(u) = IF x = None THEN WithText(t) ELSE WithText(t) \cup {n}
  <2>1. CASE x = None
    BY <1>1, <2>1 DEF WithText
  <2>2. CASE x # None
    BY <1>1, <2>2 DEF WithText
  <2> QED
    BY <2>1, <2>2
<1>5. Capturable(u) = IF x = None \/ ~IsCaptured(x) THEN Capturable(t)
                      ELSE Capturable(t) \cup {n}
  <2>1. \A i \in WithText(t) : u[i] = t[i]
    BY <1>1, <1>3
  <2>2. CASE x = None
    BY <1>4, <2>1, <2>2 DEF Capturable
  <2>3. CASE x # None
    BY <1>1, <1>4, <2>1, <2>3 DEF Capturable
  <2> QED
    BY <2>2, <2>3
<1> QED
  BY <1>1, <1>3, <1>4, <1>5 DEF u, n

-----------------------------------------------------------------------------
\* The inductive invariant: a task that awaits the provider has no frame on its
\* way.
Order ==
    /\ CaptureFollowsDelivery
    /\ pc \in {"call", "iterate"} => frame = None

LEMMA CaptureText ==
    CaptureFollowsDelivery <=>
        /\ SameInOrder(collected_tokens, DOMAIN collected_tokens,
                       Texts(sent), Capturable(Texts(sent)))
        /\ SameInOrder(Texts(Offered), WithText(Texts(Offered)), upstream, WithText(upstream))
  BY DEF CaptureFollowsDelivery, Capturable

\* A frame that has been sent is offered no longer, and was offered before.
LEMMA SendingOffersNothing ==
    ASSUME TypeOK, frame # None, SentNow, frame' = None
    PROVE  Offered' = Offered
  BY DEF Offered, SentNow

\* A frame yielded while none is on its way is offered.
LEMMA YieldOffers ==
    ASSUME TypeOK, Order, pc \in {"call", "iterate"}, NEW f \in Frame, Yield(f)
    PROVE  Offered = sent /\ Offered' = Append(sent, f)
  BY FrameAssumption DEF Order, Offered, Yield

\* The texts offered stay those received if a frame without one is offered.
LEMMA NothingMoreOffered ==
    ASSUME TypeOK, Order, pc \in {"call", "iterate"},
           NEW f \in {Done, Error}, Yield(f), UNCHANGED <<upstream, collected_tokens>>
    PROVE  CaptureFollowsDelivery'
<1>1. f \in Frame /\ Text(f) = None
  BY DEF Frame, Text, Done, Error
<1>2. Offered = sent /\ Offered' = Append(sent, f) /\ sent \in Seq(Frame)
  BY <1>1, YieldOffers DEF TypeOK
<1>3. SameInOrder(Texts(sent), WithText(Texts(sent)), upstream, WithText(upstream))
  BY <1>2 DEF Order, CaptureFollowsDelivery
<1> DEFINE t == Texts(sent)
<1>4. t \in Seq(Delta \cup {None}) /\ Texts(Append(sent, f)) = Append(t, None)
  BY <1>1, <1>2, TextsGrow
<1> HIDE DEF t
<1>5. WithText(Append(t, None)) = WithText(t) /\ \A i \in WithText(t) : Append(t, None)[i] = t[i]
  BY <1>4, PlacesGrow
<1>6. SameInOrder(Append(t, None), WithText(t), upstream, WithText(upstream))
  BY <1>3, <1>5, SameOrderKept DEF t
<1>7. SameInOrder(Texts(Offered), WithText(Texts(Offered)), upstream, WithText(upstream))'
  BY <1>2, <1>4, <1>5, <1>6
<1>8. UNCHANGED <<sent, collected_tokens>>
  BY DEF Yield
<1> QED
  BY <1>7, <1>8 DEF Order, CaptureFollowsDelivery

\* What is captured stays what was sent if a frame is sent whose text, if it has
\* one, is not captured.
LEMMA NothingMoreCaptured ==
    ASSUME TypeOK, Order, frame \in Frame, SentNow, frame' = None,
           Text(frame) = None \/ ~IsCaptured(Text(frame)),
           UNCHANGED <<upstream, collected_tokens>>
    PROVE  CaptureFollowsDelivery'
<1> DEFINE t == Texts(sent)
           x == Text(frame)
<1>1. t \in Seq(Delta \cup {None}) /\ x \in Delta \cup {None}
  BY TextsGrow DEF TypeOK
<1>2. sent' = Append(sent, frame) /\ Texts(sent') = Append(t, x)
  BY TextsGrow DEF TypeOK, SentNow
<1>3. SameInOrder(collected_tokens, DOMAIN collected_tokens, t, Capturable(t))
  BY CaptureText DEF Order
<1>4. x = None \/ ~IsCaptured(x)
  OBVIOUS
<1> HIDE DEF t, x
<1>5. /\ Capturable(Append(t, x)) = Capturable(t)
      /\ \A i \in Capturable(t) : Append(t, x)[i] = t[i]
  BY <1>1, <1>4, PlacesGrow
<1>6. SameInOrder(collected_tokens, DOMAIN collected_tokens, Append(t, x), Capturable(t))
  BY <1>3, <1>5, SameOrderKept
<1>7. Offered' = Offered
  BY SendingOffersNothing, FrameAssumption
<1> QED
  BY <1>2, <1>5, <1>6, <1>7 DEF Order, CaptureFollowsDelivery, Capturable

-----------------------------------------------------------------------------
\* The provider's texts go out in order and complete, and what is captured is
\* exactly what was sent of the capturable ones, in every state of every stream.
THEOREM CapturesWhatIsSent == Spec => []CaptureFollowsDelivery
<1>1. Init => Order
  <2> SUFFICES ASSUME Init
               PROVE  Order
    OBVIOUS
  <2>1. Offered = <<>> /\ upstream = <<>> /\ sent = <<>> /\ collected_tokens = <<>> /\ frame = None
    BY DEF Init, Offered
  <2>2. Texts(<<>>) = <<>> /\ WithText(<<>>) = {} /\ DOMAIN <<>> = {}
    BY DEF Texts, WithText
  <2>3. Capturable(<<>>) = {}
    BY <2>2 DEF Capturable
  <2>4. SameInOrder(<<>>, {}, <<>>, {})
    <3> DEFINE none == [i \in {} |-> i]
    <3>1. none \in [{} -> {}] /\ {} = {none[i] : i \in {}}
      OBVIOUS
    <3> QED
      BY <3>1 DEF SameInOrder
  <2> QED
    BY <2>1, <2>2, <2>3, <2>4, CaptureText DEF Order
<1>2. ASSUME TypeOK, Order, [Next]_vars
      PROVE  Order'
  <2> USE <1>2
  <2>1. CASE CallReturns
    BY <2>1 DEF CallReturns, Order, CaptureFollowsDelivery, Offered
  <2>2. ASSUME NEW delta \in Delta, Chunk(delta)
        PROVE  Order'
    <3> DEFINE t == Texts(sent)
    <3>1. Content(delta) \in Frame /\ Text(Content(delta)) = delta /\ delta # None
      BY DeltaAssumption DEF Content, Frame, Text
    <3>2. Offered = sent /\ Offered' = Append(sent, Content(delta)) /\ sent \in Seq(Frame)
      BY <2>2, <3>1, YieldOffers DEF Chunk, TypeOK
    <3>3. SameInOrder(t, WithText(t), upstream, WithText(upstream))
      BY <3>2 DEF Order, CaptureFollowsDelivery
    <3>4. t \in Seq(Delta \cup {None}) /\ Texts(Append(sent, Content(delta))) = Append(t, delta)
      BY <3>1, <3>2, TextsGrow
    <3> HIDE DEF t
    <3>5. upstream \in Seq(Delta \cup {None}) /\ delta \in Delta \cup {None}
          /\ upstream' = Append(upstream, delta)
      BY <2>2 DEF TypeOK, Chunk
    <3>6. SameInOrder(Append(t, delta), WithText(t) \cup {Len(t) + 1},
                      Append(upstream, delta), WithText(upstream) \cup {Len(upstream) + 1})
      <4>1. /\ Len(t) + 1 \in Nat /\ WithText(t) \in SUBSET Nat
            /\ Append(t, delta)[Len(t) + 1] = delta
            /\ \A i \in WithText(t) : i < Len(t) + 1
            /\ \A i \in WithText(t) : Append(t, delta)[i] = t[i]
        BY <3>4, <3>5, PlacesGrow
      <4>2. /\ Len(upstream) + 1 \in Nat /\ WithText(upstream) \in SUBSET Nat
            /\ Append(upstream, delta)[Len(upstream) + 1] = delta
            /\ \A i \in WithText(upstream) : i < Len(upstream) + 1
            /\ \A i \in WithText(upstream) : Append(upstream, delta)[i] = upstream[i]
        BY <3>5, PlacesGrow
      <4>3. Append(t, delta)[Len(t) + 1] = Append(upstream, delta)[Len(upstream) + 1]
        BY <4>1, <4>2
      <4> QED
        BY <3>3, <4>1, <4>2, <4>3, SameOrderGrows
    <3>7. /\ WithText(Append(t, delta)) = WithText(t) \cup {Len(t) + 1}
          /\ WithText(Append(upstream, delta)) = WithText(upstream) \cup {Len(upstream) + 1}
      BY <3>1, <3>4, <3>5, PlacesGrow
    <3>8. UNCHANGED <<sent, collected_tokens>> /\ pc' = "yield"
      BY <2>2 DEF Chunk, Yield
    <3> QED
      BY <3>2, <3>4, <3>5, <3>6, <3>7, <3>8 DEF Order, CaptureFollowsDelivery
  <2>3. CASE EmptyChunk
    <3>1. upstream \in Seq(Delta \cup {None}) /\ upstream' = Append(upstream, None)
      BY <2>3 DEF EmptyChunk, TypeOK
    <3>2. /\ WithText(upstream') = WithText(upstream)
          /\ \A i \in WithText(upstream) : upstream'[i] = upstream[i]
      BY <3>1, PlacesGrow
    <3>3. SameInOrder(Texts(Offered), WithText(Texts(Offered)), upstream', WithText(upstream))
      <4>1. SameInOrder(Texts(Offered), WithText(Texts(Offered)), upstream, WithText(upstream))
        BY DEF Order, CaptureFollowsDelivery
      <4> QED
        BY <3>2, <4>1, SameOrderKept
    <3>4. Offered' = Offered /\ UNCHANGED <<pc, frame, sent, collected_tokens>>
      BY <2>3 DEF EmptyChunk, Offered
    <3> QED
      BY <3>2, <3>3, <3>4 DEF Order, CaptureFollowsDelivery
  <2>4. CASE EndOfStream
    <3>1. pc \in {"call", "iterate"} /\ Done \in {Done, Error} /\ Yield(Done)
          /\ UNCHANGED <<upstream, collected_tokens>>
      BY <2>4 DEF EndOfStream
    <3>2. CaptureFollowsDelivery'
      BY <3>1, NothingMoreOffered
    <3> QED
      BY <3>1, <3>2 DEF Order, Yield
  <2>5. CASE UpstreamFails
    <3>1. pc \in {"call", "iterate"} /\ Error \in {Done, Error} /\ Yield(Error)
          /\ UNCHANGED <<upstream, collected_tokens>>
      BY <2>5 DEF UpstreamFails
    <3>2. CaptureFollowsDelivery'
      BY <3>1, NothingMoreOffered
    <3> QED
      BY <3>1, <3>2 DEF Order, Yield
  <2>6. CASE ContentSent
    <3>1. frame \in Frame /\ frame # None /\ Text(frame) = frame.text /\ frame.text \in Delta
          /\ SentNow /\ frame' = None /\ upstream' = upstream
      BY <2>6, FrameAssumption DEF ContentSent, TypeOK, Text, Frame, Done, Error
    <3>2. CASE ~IsCaptured(frame.text)
      <4>1. collected_tokens' = collected_tokens
        BY <2>6, <3>2 DEF ContentSent, Captured
      <4>2. CaptureFollowsDelivery'
        BY <3>1, <3>2, <4>1, NothingMoreCaptured
      <4> QED
        BY <3>1, <4>2 DEF Order
    <3>3. CASE IsCaptured(frame.text)
      <4> DEFINE t == Texts(sent)
                 x == frame.text
                 c == collected_tokens
      <4>1. /\ t \in Seq(Delta \cup {None}) /\ x \in Delta \cup {None} /\ x # None
            /\ sent' = Append(sent, frame) /\ Texts(sent') = Append(t, x)
        BY <3>1, TextsGrow, DeltaAssumption DEF TypeOK, SentNow
      <4>2. c \in Seq(Delta) /\ c' = Append(c, x)
        BY <2>6, <3>3 DEF ContentSent, Captured, TypeOK
      <4>3. SameInOrder(c, DOMAIN c, t, Capturable(t))
        BY CaptureText DEF Order
      <4>4. Offered' = Offered
        BY <3>1, SendingOffersNothing
      <4>5. /\ DOMAIN c \in SUBSET Nat /\ Len(c) + 1 \in Nat
            /\ \A i \in DOMAIN c : i < Len(c) + 1
            /\ \A i \in DOMAIN c : Append(c, x)[i] = c[i]
            /\ Append(c, x)[Len(c) + 1] = x
            /\ DOMAIN Append(c, x) = DOMAIN c \cup {Len(c) + 1}
        BY <4>2
      <4> HIDE DEF t, x, c
      <4>6. /\ Len(t) + 1 \in Nat /\ Capturable(t) \in SUBSET Nat
            /\ Append(t, x)[Len(t) + 1] = x
            /\ \A i \in Capturable(t) : i < Len(t) + 1
            /\ \A i \in Capturable(t) : Append(t, x)[i] = t[i]
            /\ Capturable(Append(t, x)) = Capturable(t) \cup {Len(t) + 1}
        BY <3>3, <4>1, PlacesGrow DEF x
      <4>7. Append(c, x)[Len(c) + 1] = Append(t, x)[Len(t) + 1]
        BY <4>5, <4>6
      <4>8. SameInOrder(Append(c, x), DOMAIN c \cup {Len(c) + 1},
                        Append(t, x), Capturable(t) \cup {Len(t) + 1})
        <5> DEFINE S == DOMAIN c
                   T == Capturable(t)
                   cc == Append(c, x)
                   tt == Append(t, x)
                   m == Len(c) + 1
                   n == Len(t) + 1
        <5>1. /\ SameInOrder(c, S, t, T) /\ S \in SUBSET Nat /\ T \in SUBSET Nat
              /\ \A i \in S : cc[i] = c[i]
              /\ \A i \in T : tt[i] = t[i]
              /\ m \in Nat /\ n \in Nat /\ cc[m] = tt[n]
          BY <4>3, <4>5, <4>6, <4>7
        <5>2. (\A i \in S : i < m) /\ (\A i \in T : i < n)
          BY <4>5, <4>6
        <5> HIDE DEF S, T, cc, tt, m, n
        <5>3. SameInOrder(cc, S \cup {m}, tt, T \cup {n})
          BY <5>1, <5>2, SameOrderGrows
        <5> QED
          BY <5>3 DEF S, T, cc, tt, m, n
      <4>9. SameInOrder(c', DOMAIN c', Texts(sent'), Capturable(Texts(sent')))
        BY <4>1, <4>2, <4>5, <4>6, <4>8
      <4> QED
        BY <3>1, <4>4, <4>9 DEF Order, CaptureFollowsDelivery, Capturable, c
    <3> QED
      BY <3>2, <3>3
  <2>7. CASE DoneSent
    <3>1. frame \in Frame /\ Text(frame) = None /\ SentNow /\ frame' = None
          /\ UNCHANGED <<upstream, collected_tokens>>
      BY <2>7 DEF DoneSent, TypeOK, Text
    <3>2. CaptureFollowsDelivery'
      BY <3>1, NothingMoreCaptured
    <3> QED
      BY <3>1, <3>2 DEF Order
  <2>8. CASE ErrorSent
    <3>1. frame \in Frame /\ Text(frame) = None /\ SentNow /\ frame' = None
          /\ UNCHANGED <<upstream, collected_tokens>>
      BY <2>8 DEF ErrorSent, TypeOK, Text
    <3>2. CaptureFollowsDelivery'
      BY <3>1, NothingMoreCaptured
    <3> QED
      BY <3>1, <3>2 DEF Order
  <2>9. CASE Disconnect
    BY <2>9 DEF Disconnect, Order, CaptureFollowsDelivery, Offered
  <2>10. CASE UNCHANGED vars
    BY <2>10 DEF vars, Order, CaptureFollowsDelivery, Offered
  <2> QED
    BY <2>1, <2>2, <2>3, <2>4, <2>5, <2>6, <2>7, <2>8, <2>9, <2>10 DEF Next
<1>3. Order => CaptureFollowsDelivery
  BY DEF Order
<1> QED
  BY <1>1, <1>2, <1>3, StreamTyped, PTL DEF Spec

-----------------------------------------------------------------------------
(* What is handed over *)

\* Orders compose: what agrees with t agrees with what t agrees with.
LEMMA SameOrderComposes ==
    ASSUME NEW s, NEW S \in SUBSET Nat, NEW t, NEW T \in SUBSET Nat,
           NEW u, NEW U \in SUBSET Nat,
           SameInOrder(s, S, t, T), SameInOrder(t, T, u, U)
    PROVE  SameInOrder(s, S, u, U)
<1>1. PICK f \in [S -> T] :
          /\ T = {f[i] : i \in S}
          /\ \A i, j \in S : i < j => f[i] < f[j]
          /\ \A i \in S : s[i] = t[f[i]]
  BY DEF SameInOrder
<1>2. PICK g \in [T -> U] :
          /\ U = {g[i] : i \in T}
          /\ \A i, j \in T : i < j => g[i] < g[j]
          /\ \A i \in T : t[i] = u[g[i]]
  BY DEF SameInOrder
<1> DEFINE h == [i \in S |-> g[f[i]]]
<1>3. h \in [S -> U] /\ \A i \in S : f[i] \in T /\ h[i] = g[f[i]]
  OBVIOUS
<1> HIDE DEF h
<1>4. U = {h[i] : i \in S}
  <2>1. ASSUME NEW x \in U
        PROVE  \E i \in S : h[i] = x
    <3>1. PICK k \in T : g[k] = x
      BY <1>2
    <3>2. PICK i \in S : f[i] = k
      BY <1>1
    <3> QED
      BY <1>3, <3>1, <3>2
  <2> QED
    BY <1>3, <2>1
<1>5. \A i, j \in S : i < j => h[i] < h[j]
  BY <1>1, <1>2, <1>3
<1>6. \A i \in S : s[i] = u[h[i]]
  BY <1>1, <1>2, <1>3
<1> QED
  BY <1>3, <1>4, <1>5, <1>6 DEF SameInOrder

\* Texts that agree agree on the capturable ones among them.
LEMMA CapturableAgree ==
    ASSUME NEW t, NEW u, SameInOrder(t, WithText(t), u, WithText(u))
    PROVE  SameInOrder(t, Capturable(t), u, Capturable(u))
<1>1. PICK f \in [WithText(t) -> WithText(u)] :
          /\ WithText(u) = {f[i] : i \in WithText(t)}
          /\ \A i, j \in WithText(t) : i < j => f[i] < f[j]
          /\ \A i \in WithText(t) : t[i] = u[f[i]]
  BY DEF SameInOrder
<1> DEFINE g == [i \in Capturable(t) |-> f[i]]
<1>2. \A i \in WithText(t) : i \in Capturable(t) <=> f[i] \in Capturable(u)
  BY <1>1 DEF Capturable
<1>3. /\ Capturable(t) \subseteq WithText(t)
      /\ Capturable(u) \subseteq WithText(u)
  BY DEF Capturable
<1>4. g \in [Capturable(t) -> Capturable(u)] /\ \A i \in Capturable(t) : g[i] = f[i]
  BY <1>2, <1>3
<1> HIDE DEF g
<1>5. Capturable(u) = {g[i] : i \in Capturable(t)}
  <2>1. ASSUME NEW x \in Capturable(u)
        PROVE  \E i \in Capturable(t) : g[i] = x
    <3>1. PICK i \in WithText(t) : f[i] = x
      BY <1>1, <1>3
    <3> QED
      BY <1>2, <1>4, <3>1
  <2> QED
    BY <1>4, <2>1
<1>6. \A i, j \in Capturable(t) : i < j => g[i] < g[j]
  BY <1>1, <1>3, <1>4
<1>7. \A i \in Capturable(t) : t[i] = u[g[i]]
  BY <1>1, <1>3, <1>4
<1> QED
  BY <1>4, <1>5, <1>6, <1>7 DEF SameInOrder

\* The stream that called on_complete captures, sends and receives no more.
HandedOver ==
    full_response # None =>
        pc = "completed" /\ full_response = collected_tokens /\ frame = None

LEMMA HandedOverInvariant == Spec => []HandedOver
<1>1. Init => HandedOver
  BY DEF Init, HandedOver
<1>2. HandedOver /\ [Next]_vars => HandedOver'
  BY DEF HandedOver, Next, CallReturns, Chunk, EmptyChunk, EndOfStream, UpstreamFails,
         Yield, ContentSent, DoneSent, ErrorSent, Disconnect, vars
<1> QED
  BY <1>1, <1>2, PTL DEF Spec

\* What on_complete is called with is an answer that came to its own end, and
\* all that its provider sent of what passes the test on the frames.
THEOREM WholeAnswers == Spec => []OnlyWholeAnswersComplete
<1>1. TypeOK /\ Ending /\ HandedOver /\ CaptureFollowsDelivery => OnlyWholeAnswersComplete
  <2> SUFFICES ASSUME TypeOK, Ending, HandedOver, CaptureFollowsDelivery, full_response # None
               PROVE  /\ sent # <<>>
                      /\ sent[Len(sent)] = Done
                      /\ \A i \in 1 .. Len(sent) : sent[i] # Error
                      /\ SameInOrder(full_response, DOMAIN full_response,
                                     upstream, Capturable(upstream))
    BY DEF OnlyWholeAnswersComplete
  <2> DEFINE c == collected_tokens
             t == Texts(sent)
  <2>1. full_response = c /\ Offered = sent
    BY DEF HandedOver, Offered
  <2>2. SameInOrder(c, DOMAIN c, t, Capturable(t))
    BY DEF CaptureFollowsDelivery
  <2>3. SameInOrder(t, Capturable(t), upstream, Capturable(upstream))
    BY <2>1, CapturableAgree DEF CaptureFollowsDelivery
  <2>4. /\ DOMAIN c \in SUBSET Nat
        /\ Capturable(t) \in SUBSET Nat
        /\ Capturable(upstream) \in SUBSET Nat
    BY DEF TypeOK, Capturable, WithText, Texts
  <2>5. SameInOrder(c, DOMAIN c, upstream, Capturable(upstream))
    <3> HIDE DEF c, t
    <3> QED
      BY <2>2, <2>3, <2>4, SameOrderComposes
  <2> QED
    BY <2>1, <2>5 DEF Ending, HandedOver
<1> QED
  BY <1>1, StreamTyped, EndingInvariant, HandedOverInvariant, CapturesWhatIsSent, PTL

\* The test on the frames takes no text of the provider's for the sentinel or
\* for an error.
OrdinaryAnswer == \A i \in WithText(upstream) : IsCaptured(upstream[i])

\* Nothing but that test keeps a text that was sent out of the cache: of an
\* answer without such a text the full text is captured, as the docstring says.
THEOREM OrdinaryAnswersAreCaptured == Spec => [](OrdinaryAnswer => FullTextIsCaptured)
<1>1. HandedOver /\ CaptureFollowsDelivery => (OrdinaryAnswer => FullTextIsCaptured)
  <2> SUFFICES ASSUME HandedOver, CaptureFollowsDelivery, OrdinaryAnswer, full_response # None
               PROVE  SameInOrder(full_response, DOMAIN full_response,
                                  Texts(sent), WithText(Texts(sent)))
    BY DEF FullTextIsCaptured
  <2>1. full_response = collected_tokens /\ Offered = sent
    BY DEF HandedOver, Offered
  <2>2. Capturable(Texts(sent)) = WithText(Texts(sent))
    BY <2>1 DEF CaptureFollowsDelivery, SameInOrder, OrdinaryAnswer, Capturable
  <2> QED
    BY <2>1, <2>2 DEF CaptureFollowsDelivery
<1> QED
  BY <1>1, HandedOverInvariant, CapturesWhatIsSent, PTL
=============================================================================
