------------------------- MODULE ChannelClientProofs -------------------------
(***************************************************************************)
(* Theorems about ChannelClient.  Types and acknowledgements are proved for *)
(* every bound and every choice of the peers that send in the background;   *)
(* that nothing is lost, for at most one outage and no such peer.           *)
(***************************************************************************)
EXTENDS ChannelClient, SequenceTheorems, WellFoundedInduction, TLAPS

-----------------------------------------------------------------------------
(* Sequences as sets of elements.                                           *)

(* Appending adds exactly the new element. *)
LEMMA ElementsAppend ==
    ASSUME NEW S, NEW seq \in Seq(S), NEW e \in S
    PROVE  /\ Append(seq, e) \in Seq(S)
           /\ Elements(Append(seq, e)) = Elements(seq) \cup {e}
  <1>1. /\ Append(seq, e) \in Seq(S)
        /\ Len(Append(seq, e)) = Len(seq) + 1
        /\ Len(seq) \in Nat
        /\ \A i \in 1 .. Len(seq) : Append(seq, e)[i] = seq[i]
        /\ Append(seq, e)[Len(seq) + 1] = e
    BY AppendProperties, LenProperties
  <1>2. 1 .. Len(Append(seq, e)) = (1 .. Len(seq)) \cup {Len(seq) + 1}
    BY <1>1
  <1> QED BY <1>1, <1>2 DEF Elements

(* Concatenating joins the elements. *)
LEMMA ElementsConcat ==
    ASSUME NEW S, NEW s \in Seq(S), NEW t \in Seq(S)
    PROVE  /\ s \o t \in Seq(S)
           /\ Elements(s \o t) = Elements(s) \cup Elements(t)
  <1>1. /\ s \o t \in Seq(S)
        /\ Len(s \o t) = Len(s) + Len(t)
        /\ Len(s) \in Nat /\ Len(t) \in Nat
        /\ \A i \in 1 .. Len(s) + Len(t) :
              (s \o t)[i] = IF i <= Len(s) THEN s[i] ELSE t[i - Len(s)]
    BY ConcatProperties, LenProperties
  <1>2. \A x \in Elements(s \o t) : x \in Elements(s) \cup Elements(t)
    <2> TAKE x \in Elements(s \o t)
    <2>1. PICK i \in 1 .. Len(s) + Len(t) : x = (s \o t)[i]
      BY <1>1 DEF Elements
    <2>2. CASE i <= Len(s)
      BY <1>1, <2>1, <2>2 DEF Elements
    <2>3. CASE ~(i <= Len(s))
      <3>1. i - Len(s) \in 1 .. Len(t) /\ x = t[i - Len(s)]
        BY <1>1, <2>1, <2>3
      <3> QED BY <3>1 DEF Elements
    <2> QED BY <2>2, <2>3
  <1>3. \A x \in Elements(s) : x \in Elements(s \o t)
    <2> TAKE x \in Elements(s)
    <2>1. PICK i \in 1 .. Len(s) : x = s[i]
      BY DEF Elements
    <2>2. i \in 1 .. Len(s) + Len(t) /\ x = (s \o t)[i]
      BY <1>1, <2>1
    <2> QED BY <1>1, <2>2 DEF Elements
  <1>4. \A x \in Elements(t) : x \in Elements(s \o t)
    <2> TAKE x \in Elements(t)
    <2>1. PICK i \in 1 .. Len(t) : x = t[i]
      BY DEF Elements
    <2>2. i + Len(s) \in 1 .. Len(s) + Len(t) /\ x = (s \o t)[i + Len(s)]
      BY <1>1, <2>1
    <2> QED BY <1>1, <2>2 DEF Elements
  <1> QED BY <1>1, <1>2, <1>3, <1>4

(* A subsequence has no new elements. *)
LEMMA ElementsSubSeq ==
    ASSUME NEW S, NEW seq \in Seq(S), NEW m \in Nat \ {0}, NEW n \in 0 .. Len(seq)
    PROVE  /\ SubSeq(seq, m, n) \in Seq(S)
           /\ Elements(SubSeq(seq, m, n)) \subseteq Elements(seq)
  <1>1. Len(seq) \in Nat /\ \A i \in m .. n : seq[i] \in S
    BY LenProperties, ElementOfSeq
  <1>2. /\ SubSeq(seq, m, n) \in Seq(S)
        /\ Len(SubSeq(seq, m, n)) = IF m <= n THEN n - m + 1 ELSE 0
        /\ \A i \in 1 .. n - m + 1 : SubSeq(seq, m, n)[i] = seq[m + i - 1]
    BY <1>1, SubSeqProperties
  <1>3. \A i \in 1 .. Len(SubSeq(seq, m, n)) :
            SubSeq(seq, m, n)[i] \in Elements(seq)
    <2> TAKE i \in 1 .. Len(SubSeq(seq, m, n))
    <2>1. m + i - 1 \in 1 .. Len(seq) /\ SubSeq(seq, m, n)[i] = seq[m + i - 1]
      BY <1>1, <1>2
    <2> QED BY <2>1 DEF Elements
  <1> QED BY <1>2, <1>3 DEF Elements

(* The head is an element and the tail has no new ones. *)
LEMMA ElementsHeadTail ==
    ASSUME NEW S, NEW seq \in Seq(S), seq # <<>>
    PROVE  /\ Head(seq) \in S
           /\ Tail(seq) \in Seq(S)
           /\ Head(seq) \in Elements(seq)
           /\ Elements(Tail(seq)) \subseteq Elements(seq)
           /\ Elements(seq) = {Head(seq)} \cup Elements(Tail(seq))
  <1>1. /\ Head(seq) \in S
        /\ Tail(seq) \in Seq(S)
        /\ Len(Tail(seq)) = Len(seq) - 1
        /\ Len(seq) \in Nat \ {0}
        /\ Head(seq) = seq[1]
        /\ \A i \in 1 .. Len(Tail(seq)) : Tail(seq)[i] = seq[i + 1]
    BY HeadTailProperties, EmptySeq
  <1>2. Head(seq) \in Elements(seq)
    BY <1>1 DEF Elements
  <1>3. \A x \in Elements(Tail(seq)) : x \in Elements(seq)
    <2> TAKE x \in Elements(Tail(seq))
    <2>1. PICK i \in 1 .. Len(Tail(seq)) : x = Tail(seq)[i]
      BY DEF Elements
    <2>2. i + 1 \in 1 .. Len(seq) /\ x = seq[i + 1]
      BY <1>1, <2>1
    <2> QED BY <2>2 DEF Elements
  <1>4. \A x \in Elements(seq) : x = Head(seq) \/ x \in Elements(Tail(seq))
    <2> TAKE x \in Elements(seq)
    <2>1. PICK i \in 1 .. Len(seq) : x = seq[i]
      BY DEF Elements
    <2>2. CASE i = 1
      BY <1>1, <2>1, <2>2
    <2>3. CASE i # 1
      <3>1. i - 1 \in 1 .. Len(Tail(seq)) /\ Tail(seq)[i - 1] = x
        BY <1>1, <2>1, <2>3
      <3> QED BY <3>1 DEF Elements
    <2> QED BY <2>2, <2>3
  <1> QED BY <1>1, <1>2, <1>3, <1>4

(* Nothing is an element of the empty sequence. *)
LEMMA ElementsEmpty ==
    ASSUME NEW S
    PROVE  <<>> \in Seq(S) /\ Elements(<<>>) = {}
  BY EmptySeq DEF Elements

-----------------------------------------------------------------------------
(* What an acknowledgement does to a buffer.                                *)

(* A nonempty set of naturals has a least element. *)
LEMMA LeastNatural ==
    ASSUME NEW T, T \subseteq Nat, T # {}
    PROVE  \E x \in T : \A y \in T : x <= y
  <1> DEFINE R == {ss \in Nat \X Nat : ss[1] < ss[2]}
  <1>1. R = OpToRel(<, Nat)
    BY Zenon DEF OpToRel
  <1>2. IsWellFoundedOn(R, Nat)
    BY <1>1, NatLessThanWellFounded, Zenon
  <1>3. \E x \in T : \A y \in T : ~ (<<y, x>> \in R)
    BY <1>2, WFMin, Zenon
  <1>4. \A x, y \in Nat : y < x => <<y, x>> \in R
    OBVIOUS
  <1>5. \A x, y \in Nat : x <= y \/ y < x
    OBVIOUS
  <1> QED BY <1>3, <1>4, <1>5, Zenon

(* The loop over buffer.front() stops somewhere. *)
LEMMA AckedPrefixExists ==
    ASSUME NEW buf \in Seq(Envelopes), NEW ack \in Nat
    PROVE  /\ AckedPrefix(buf, ack) \in 0 .. Len(buf)
           /\ \A i \in 1 .. AckedPrefix(buf, ack) : buf[i].id <= ack
           /\ AckedPrefix(buf, ack) < Len(buf) =>
                 buf[AckedPrefix(buf, ack) + 1].id > ack
  <1> DEFINE Good(n) == /\ \A i \in 1 .. n : buf[i].id <= ack
                        /\ n < Len(buf) => buf[n + 1].id > ack
             T == {i \in 1 .. Len(buf) : buf[i].id > ack}
  <1>1. Len(buf) \in Nat /\ \A i \in 1 .. Len(buf) : buf[i].id \in Nat
    <2>1. \A i \in 1 .. Len(buf) : buf[i] \in Envelopes
      BY ElementOfSeq
    <2>2. \A e \in Envelopes : e.id \in Nat
      BY DEF Envelopes
    <2> QED BY <2>1, <2>2, LenProperties
  <1>2. \E n \in 0 .. Len(buf) : Good(n)
    <2>1. CASE T = {}
      <3>1. Good(Len(buf))
        BY <1>1, <2>1
      <3> QED BY <1>1, <3>1
    <2>2. CASE T # {}
      <3>1. PICK x \in T : \A y \in T : x <= y
        <4>1. T \subseteq Nat
          BY <1>1
        <4> QED BY <2>2, <4>1, LeastNatural
      <3>2. x - 1 \in 0 .. Len(buf) /\ Good(x - 1)
        BY <1>1, <3>1
      <3> QED BY <3>2
    <2> QED BY <2>1, <2>2
  <1>3. AckedPrefix(buf, ack) = CHOOSE n \in 0 .. Len(buf) : Good(n)
    BY DEF AckedPrefix
  <1> HIDE DEF Good
  <1>4. AckedPrefix(buf, ack) \in 0 .. Len(buf) /\ Good(AckedPrefix(buf, ack))
    BY <1>2, <1>3
  <1> QED BY <1>4 DEF Good

(* Trimming keeps a suffix; what it drops is numbered at most ack. *)
LEMMA PopAckedTrims ==
    ASSUME NEW buf \in Seq(Envelopes), NEW ack \in Nat \cup {None}
    PROVE  /\ PopAcked(buf, ack) \in Seq(Envelopes)
           /\ Elements(PopAcked(buf, ack)) \subseteq Elements(buf)
           /\ ack = None => PopAcked(buf, ack) = buf
           /\ \A e \in Elements(buf) :
                 \/ e \in Elements(PopAcked(buf, ack))
                 \/ ack # None /\ e.id <= ack
  <1>1. CASE ack = None
    BY <1>1 DEF PopAcked
  <1>2. CASE ack # None
    <2> DEFINE n == AckedPrefix(buf, ack)
               rest == SubSeq(buf, n + 1, Len(buf))
    <2>1. ack \in Nat /\ Len(buf) \in Nat
      BY <1>2, LenProperties
    <2>2. n \in 0 .. Len(buf) /\ \A i \in 1 .. n : buf[i].id <= ack
      BY <2>1, AckedPrefixExists
    <2>3. PopAcked(buf, ack) = rest
      BY <1>2 DEF PopAcked
    <2> HIDE DEF n
    <2>4. rest \in Seq(Envelopes) /\ Elements(rest) \subseteq Elements(buf)
      BY <2>1, <2>2, ElementsSubSeq
    <2>5. /\ Len(rest) = IF n + 1 <= Len(buf) THEN Len(buf) - (n + 1) + 1 ELSE 0
          /\ \A i \in 1 .. Len(buf) - (n + 1) + 1 : rest[i] = buf[(n + 1) + i - 1]
      <3>1. \A i \in n + 1 .. Len(buf) : buf[i] \in Envelopes
        BY <2>1, <2>2, ElementOfSeq
      <3> QED BY <2>1, <2>2, <3>1, SubSeqProperties
    <2>6. \A i \in 1 .. Len(buf) : i <= n \/ buf[i] \in Elements(rest)
      <3> SUFFICES ASSUME NEW i \in 1 .. Len(buf), ~ (i <= n)
                   PROVE  buf[i] \in Elements(rest)
        OBVIOUS
      <3>1. i - n \in 1 .. Len(rest) /\ rest[i - n] = buf[i]
        BY <2>1, <2>2, <2>5
      <3> QED BY <3>1 DEF Elements
    <2>7. \A e \in Elements(buf) : e \in Elements(rest) \/ e.id <= ack
      <3> TAKE e \in Elements(buf)
      <3>1. PICK i \in 1 .. Len(buf) : e = buf[i]
        BY DEF Elements
      <3> QED BY <2>1, <2>2, <2>6, <3>1
    <2> QED BY <1>2, <2>3, <2>4, <2>7
  <1> QED BY <1>1, <1>2

-----------------------------------------------------------------------------
(* Type correctness.                                                        *)

(* An envelope built from typed parts is one. *)
LEMMA EnvelopeType ==
    ASSUME NEW id \in Nat, NEW kind \in Kinds,
           NEW ack \in Nat \cup {None}, NEW re \in Nat \cup {None}
    PROVE  Envelope(id, kind, ack, re) \in Envelopes
  BY DEF Envelope, Envelopes, Kinds

(* The fields of an envelope have their types. *)
LEMMA EnvelopeFields ==
    ASSUME NEW e \in Envelopes
    PROVE  /\ e.id \in Nat /\ e.kind \in Kinds
           /\ e.ack \in Nat \cup {None} /\ e.re \in Nat \cup {None}
  BY DEF Envelopes

(* The variables a buffered send touches keep their types. *)
LEMMA SendBufferedType ==
    ASSUME TypeOK, NEW p \in Peers, NEW kind \in Kinds,
           NEW re \in Nat \cup {None}, SendBuffered(p, kind, re)
    PROVE  /\ nextMessageId' \in [Peers -> Nat]
           /\ buffer' \in [Peers -> Seq(Envelopes)]
           /\ outgoing' \in [Peers -> Seq(Envelopes)]
           /\ sent' \in [Peers -> SUBSET Envelopes]
  <1> DEFINE e == Envelope(nextMessageId[p], kind, maxReceived[p], re)
  <1>1. e \in Envelopes
    BY EnvelopeType DEF TypeOK
  <1> HIDE DEF e
  <1>2. /\ Append(buffer[p], e) \in Seq(Envelopes)
        /\ Append(outgoing[p], e) \in Seq(Envelopes)
    BY <1>1, ElementsAppend DEF TypeOK
  <1>3. /\ nextMessageId' = [nextMessageId EXCEPT ![p] = nextMessageId[p] + 1]
        /\ buffer' = [buffer EXCEPT ![p] = Append(buffer[p], e)]
        /\ outgoing' = [outgoing EXCEPT ![p] = Append(outgoing[p], e)]
        /\ sent' = [sent EXCEPT ![p] = sent[p] \cup {e}]
    BY DEF SendBuffered, e
  <1>4. sent[p] \cup {e} \in SUBSET Envelopes
    BY <1>1 DEF TypeOK
  <1>5. nextMessageId' \in [Peers -> Nat]
    BY <1>3 DEF TypeOK
  <1>6. buffer' \in [Peers -> Seq(Envelopes)] /\ outgoing' \in [Peers -> Seq(Envelopes)]
    BY <1>2, <1>3 DEF TypeOK
  <1>7. sent' \in [Peers -> SUBSET Envelopes]
    BY <1>3, <1>4 DEF TypeOK
  <1> QED BY <1>5, <1>6, <1>7

(* The envelope being read, the rest of the inbox and the trimmed buffer. *)
LEMMA ReadsType ==
    ASSUME TypeOK, NEW p \in Peers, Reads(p)
    PROVE  /\ inbox' \in [Peers -> Seq(Envelopes)]
           /\ Head(inbox[p]) \in Envelopes
           /\ Head(inbox[p]) \in Elements(inbox[p])
           /\ Head(inbox[p]).id \in Nat
           /\ Head(inbox[p]).ack \in Nat \cup {None}
           /\ Head(inbox[p]).re \in Nat \cup {None}
           /\ Trimmed(p, Head(inbox[p])) \in [Peers -> Seq(Envelopes)]
           /\ AckTo(p, Head(inbox[p])) \in Envelopes
  <1>1. inbox[p] \in Seq(Envelopes) /\ inbox[p] # <<>>
    BY DEF TypeOK, Reads
  <1>2. /\ Head(inbox[p]) \in Envelopes
        /\ Tail(inbox[p]) \in Seq(Envelopes)
        /\ Head(inbox[p]) \in Elements(inbox[p])
    BY <1>1, ElementsHeadTail
  <1>3. /\ Head(inbox[p]).id \in Nat
        /\ Head(inbox[p]).ack \in Nat \cup {None}
        /\ Head(inbox[p]).re \in Nat \cup {None}
    BY <1>2, EnvelopeFields
  <1>4. PopAcked(buffer[p], Head(inbox[p]).ack) \in Seq(Envelopes)
    <2>1. buffer[p] \in Seq(Envelopes)
      BY DEF TypeOK
    <2> QED BY <1>3, <2>1, PopAckedTrims
  <1>5. Trimmed(p, Head(inbox[p])) \in [Peers -> Seq(Envelopes)]
    BY <1>4 DEF Trimmed, TypeOK
  <1>6. AckTo(p, Head(inbox[p])) \in Envelopes
    <2>1. nextMessageId[p] \in Nat /\ "ack" \in Kinds
      BY DEF TypeOK, Kinds
    <2> QED BY <1>3, <2>1, EnvelopeType DEF AckTo
  <1>7. inbox' \in [Peers -> Seq(Envelopes)]
    BY <1>2 DEF Reads, TypeOK
  <1> QED BY <1>2, <1>3, <1>5, <1>6, <1>7

(* Every step keeps the types. *)
LEMMA TypeStep ==
    ASSUME TypeOK, [Next]_vars
    PROVE  TypeOK'
  <1> USE BoundsAssumption
  <1>1. ASSUME NEW p \in Peers, StartHandlingMessages(p)
        PROVE  TypeOK'
    <2>1. Envelope(nextMessageId[p], "started", None, None) \in Envelopes
      BY EnvelopeType DEF TypeOK, Kinds
    <2>2. Append(outgoing[p], Envelope(nextMessageId[p], "started", None, None))
             \in Seq(Envelopes)
      BY <2>1, ElementsAppend DEF TypeOK
    <2>3. outgoing' \in [Peers -> Seq(Envelopes)]
      BY <1>1, <2>2 DEF TypeOK, StartHandlingMessages
    <2>4. handshakeId' \in [Peers -> Nat \cup {None}] /\ nextMessageId' \in [Peers -> Nat]
      BY <1>1 DEF TypeOK, StartHandlingMessages
    <2> QED BY <1>1, <2>3, <2>4 DEF TypeOK, StartHandlingMessages, connection, history
  <1>2. ASSUME NEW p \in Peers, Send(p)
        PROVE  TypeOK'
    <2>1. SendBuffered(p, "notification", None) /\ "notification" \in Kinds
      BY <1>2 DEF Send, Kinds
    <2> QED BY <1>2, <2>1, SendBufferedType DEF TypeOK, Send, connection
  <1>3. ASSUME NEW p \in Peers, Request(p)
        PROVE  TypeOK'
    <2>1. SendBuffered(p, "request", None) /\ "request" \in Kinds
      BY <1>3 DEF Request, Kinds
    <2>2. responseChannels' \in [Peers -> SUBSET Nat]
      BY <1>3, SMTT(30) DEF TypeOK, Request
    <2> QED BY <1>3, <2>1, <2>2, SendBufferedType DEF TypeOK, Request, connection
  <1>4. ASSUME NEW p \in Peers, Respond(p)
        PROVE  TypeOK'
    <2>1. PICK i \in 1 .. Len(running[p]) :
             /\ SendBuffered(p, "response", running[p][i])
             /\ running' = [running EXCEPT ![p] =
                   SubSeq(@, 1, i - 1) \o SubSeq(@, i + 1, Len(@))]
             /\ UNCHANGED <<inbox, maxReceived, responseChannels, handshakeId,
                            remoteStarted, draft, connection, received, answered>>
      BY <1>4 DEF Respond
    <2>2. running[p] \in Seq(Nat) /\ Len(running[p]) \in Nat
      BY LenProperties DEF TypeOK
    <2>3. running[p][i] \in Nat /\ "response" \in Kinds
      BY <2>2, ElementOfSeq DEF Kinds
    <2>4. /\ SubSeq(running[p], 1, i - 1) \in Seq(Nat)
          /\ SubSeq(running[p], i + 1, Len(running[p])) \in Seq(Nat)
      BY <2>2, ElementsSubSeq
    <2>5. SubSeq(running[p], 1, i - 1) \o SubSeq(running[p], i + 1, Len(running[p]))
             \in Seq(Nat)
      BY <2>4, ElementsConcat
    <2>6. running' \in [Peers -> Seq(Nat)]
      BY <2>1, <2>5 DEF TypeOK
    <2> QED BY <2>1, <2>3, <2>6, SendBufferedType DEF TypeOK, connection
  <1>5. ASSUME NEW p \in Peers, BackgroundNumber(p)
        PROVE  TypeOK'
    <2>1. Envelope(nextMessageId[p], "notification", None, None) \in Envelopes
      BY EnvelopeType DEF TypeOK, Kinds
    <2>2. [stage |-> "numbered",
           envelope |-> Envelope(nextMessageId[p], "notification", None, None)]
             \in Drafts
      BY <2>1 DEF Drafts
    <2> QED BY <1>5, <2>2, SMTT(30) DEF TypeOK, BackgroundNumber, connection, history
  <1>6. ASSUME NEW p \in Peers, BackgroundStamp(p)
        PROVE  TypeOK'
    <2>1. draft[p].envelope \in Envelopes
      BY DEF TypeOK, Drafts
    <2>2. [draft[p].envelope EXCEPT !.ack = maxReceived[p]] \in Envelopes
      BY <2>1 DEF TypeOK, Envelopes
    <2>3. [stage |-> "stamped",
           envelope |-> [draft[p].envelope EXCEPT !.ack = maxReceived[p]]] \in Drafts
      BY <2>2 DEF Drafts
    <2> QED BY <1>6, <2>3 DEF TypeOK, BackgroundStamp, connection, history
  <1>7. ASSUME NEW p \in Peers, BackgroundBuffer(p)
        PROVE  TypeOK'
    <2>1. draft[p] \in Drafts /\ draft[p].envelope \in Envelopes
      BY DEF TypeOK, Drafts
    <2>2. Append(buffer[p], draft[p].envelope) \in Seq(Envelopes)
      BY <2>1, ElementsAppend DEF TypeOK
    <2>3. [draft[p] EXCEPT !.stage = "buffered"] \in Drafts
      BY <2>1 DEF Drafts
    <2>4. draft' = [draft EXCEPT ![p] = [draft[p] EXCEPT !.stage = "buffered"]]
      BY <1>7 DEF BackgroundBuffer
    <2>5. draft' \in [Peers -> Drafts]
      BY <2>3, <2>4 DEF TypeOK
    <2>6. sent' \in [Peers -> SUBSET Envelopes]
      BY <1>7, <2>1 DEF TypeOK, BackgroundBuffer
    <2> QED BY <1>7, <2>2, <2>5, <2>6 DEF TypeOK, BackgroundBuffer, connection
  <1>8. ASSUME NEW p \in Peers, BackgroundQueue(p)
        PROVE  TypeOK'
    <2>1. draft[p].envelope \in Envelopes
      BY DEF TypeOK, Drafts
    <2>2. Append(outgoing[p], draft[p].envelope) \in Seq(Envelopes)
      BY <2>1, ElementsAppend DEF TypeOK
    <2>3. NoDraft \in Drafts
      BY EnvelopeType DEF NoDraft, Drafts, Kinds
    <2> QED BY <1>8, <2>2, <2>3 DEF TypeOK, BackgroundQueue, connection, history
  <1>9. ASSUME NEW p \in Peers, SkipHandshakeAck(p)
        PROVE  TypeOK'
    <2>1. Reads(p)
      BY <1>9 DEF SkipHandshakeAck
    <2> QED BY <1>9, <2>1, ReadsType DEF TypeOK, SkipHandshakeAck, connection, history
  <1>10. ASSUME NEW p \in Peers, HandleFlush(p)
         PROVE  TypeOK'
    <2> DEFINE m == Head(inbox[p])
    <2>1. Reads(p) /\ buffer' = Trimmed(p, m)
      BY <1>10 DEF HandleFlush
    <2>2. buffer' \in [Peers -> Seq(Envelopes)] /\ AckTo(p, m) \in Envelopes
      BY <2>1, ReadsType
    <2>3. Append(buffer'[p], AckTo(p, m)) \in Seq(Envelopes)
      BY <2>2, ElementsAppend
    <2>4. outgoing[p] \o Append(buffer'[p], AckTo(p, m)) \in Seq(Envelopes)
      BY <2>3, ElementsConcat DEF TypeOK
    <2>5. outgoing' \in [Peers -> Seq(Envelopes)]
      BY <1>10, <2>4 DEF TypeOK, HandleFlush
    <2>6. inbox' \in [Peers -> Seq(Envelopes)]
      BY <2>1, ReadsType
    <2>7. nextMessageId' \in [Peers -> Nat]
      BY <1>10 DEF TypeOK, HandleFlush
    <2> QED BY <1>10, <2>2, <2>5, <2>6, <2>7
            DEF TypeOK, HandleFlush, connection, history
  <1>11. ASSUME NEW p \in Peers, HandleRemoteStarted(p)
         PROVE  TypeOK'
    <2> DEFINE m == Head(inbox[p])
    <2>1. Reads(p) /\ buffer' = Trimmed(p, m)
      BY <1>11 DEF HandleRemoteStarted
    <2>2. AckTo(p, m) \in Envelopes
      BY <2>1, ReadsType
    <2>3. Append(outgoing[p], AckTo(p, m)) \in Seq(Envelopes)
      BY <2>2, ElementsAppend DEF TypeOK
    <2>4. outgoing' \in [Peers -> Seq(Envelopes)]
      BY <1>11, <2>3 DEF TypeOK, HandleRemoteStarted
    <2>5. inbox' \in [Peers -> Seq(Envelopes)] /\ buffer' \in [Peers -> Seq(Envelopes)]
      BY <2>1, ReadsType
    <2>6. remoteStarted' \in [Peers -> BOOLEAN] /\ nextMessageId' \in [Peers -> Nat]
      BY <1>11 DEF TypeOK, HandleRemoteStarted
    <2> QED BY <1>11, <2>4, <2>5, <2>6
            DEF TypeOK, HandleRemoteStarted, connection, history
  <1>12. ASSUME NEW p \in Peers, HandleIncoming(p)
         PROVE  TypeOK'
    <2> DEFINE m == Head(inbox[p])
    <2>1. Reads(p) /\ buffer' = Trimmed(p, m) /\ Counts(p, m)
      BY <1>12 DEF HandleIncoming
    <2>2. m.id \in Nat
      BY <2>1, ReadsType
    <2>3. Append(running[p], m.id) \in Seq(Nat)
      BY <2>2, ElementsAppend DEF TypeOK
    <2>4. running' \in [Peers -> Seq(Nat)]
      BY <1>12, <2>3 DEF TypeOK, HandleIncoming
    <2>5. maxReceived' \in [Peers -> Nat] /\ received' \in [Peers -> SUBSET Nat]
      BY <2>1, <2>2 DEF TypeOK, Counts
    <2>6. inbox' \in [Peers -> Seq(Envelopes)] /\ buffer' \in [Peers -> Seq(Envelopes)]
      BY <2>1, ReadsType
    <2> QED BY <1>12, <2>4, <2>5, <2>6 DEF TypeOK, HandleIncoming, connection
  <1>13. ASSUME NEW p \in Peers, HandleResponse(p)
         PROVE  TypeOK'
    <2> DEFINE m == Head(inbox[p])
    <2>1. Reads(p) /\ buffer' = Trimmed(p, m) /\ Counts(p, m)
      BY <1>13 DEF HandleResponse
    <2>2. m.id \in Nat
      BY <2>1, ReadsType
    <2>3. maxReceived' \in [Peers -> Nat] /\ received' \in [Peers -> SUBSET Nat]
      BY <2>1, <2>2 DEF TypeOK, Counts
    <2>4. responseChannels' \in [Peers -> SUBSET Nat] /\ answered' \in [Peers -> SUBSET Nat]
      BY <1>13 DEF TypeOK, HandleResponse
    <2>5. inbox' \in [Peers -> Seq(Envelopes)] /\ buffer' \in [Peers -> Seq(Envelopes)]
      BY <2>1, ReadsType
    <2> QED BY <1>13, <2>3, <2>4, <2>5 DEF TypeOK, HandleResponse, connection
  <1>14. ASSUME NEW p \in Peers, Transmit(p)
         PROVE  TypeOK'
    <2>1. /\ Head(outgoing[p]) \in Envelopes
          /\ Tail(outgoing[p]) \in Seq(Envelopes)
      BY <1>14, ElementsHeadTail DEF TypeOK, Transmit
    <2>2. Peer(p) \in Peers
      BY DEF Peer, Peers
    <2>3. Append(inbox[Peer(p)], Head(outgoing[p])) \in Seq(Envelopes)
      BY <2>1, <2>2, ElementsAppend DEF TypeOK
    <2>4. outgoing' \in [Peers -> Seq(Envelopes)]
      BY <1>14, <2>1 DEF TypeOK, Transmit
    <2>5. inbox' \in [Peers -> Seq(Envelopes)]
      BY <1>14, <2>2, <2>3 DEF TypeOK, Transmit
    <2> QED BY <1>14, <2>4, <2>5 DEF TypeOK, Transmit, connection, history
  <1>15. CASE CompleteResync
    <2> DEFINE p == "client"
               m == Head(inbox[p])
    <2>1. /\ Reads(p) /\ buffer' = Trimmed(p, m) /\ Counts(p, m) /\ AwaitsResync(p, m)
          /\ p \in Peers
      BY <1>15 DEF CompleteResync, Peers
    <2>2. m.id \in Nat /\ buffer' \in [Peers -> Seq(Envelopes)]
      BY <2>1, ReadsType
    <2>3. maxReceived' \in [Peers -> Nat] /\ received' \in [Peers -> SUBSET Nat]
      BY <2>1, <2>2 DEF TypeOK, Counts
    <2>4. outgoing[p] \o buffer'[p] \in Seq(Envelopes)
      BY <2>1, <2>2, ElementsConcat DEF TypeOK
    <2>5. outgoing' \in [Peers -> Seq(Envelopes)]
      BY <1>15, <2>1, <2>4 DEF TypeOK, CompleteResync
    <2>6. resync' \in [status : {"idle", "waiting", "done", "failed"},
                       flush : Nat \cup {None}]
      BY <1>15 DEF TypeOK, CompleteResync
    <2>7. responseChannels' \in [Peers -> SUBSET Nat] /\ answered' \in [Peers -> SUBSET Nat]
      BY <1>15, <2>1 DEF TypeOK, CompleteResync
    <2> QED BY <1>15, <2>1, <2>2, <2>3, <2>5, <2>6, <2>7, ReadsType
            DEF TypeOK, CompleteResync
  <1>16. ASSUME NEW n \in 0 .. Len(outgoing["server"]), Lose(n)
         PROVE  /\ outgoing' \in [Peers -> Seq(Envelopes)]
                /\ link' \in {"up", "down"} /\ outages' \in Nat
    <2>1. outgoing["server"] \in Seq(Envelopes) /\ Len(outgoing["server"]) \in Nat
      BY LenProperties DEF TypeOK, Peers
    <2>2. SubSeq(outgoing["server"], n + 1, Len(outgoing["server"])) \in Seq(Envelopes)
      BY <2>1, ElementsSubSeq
    <2>3. outgoing' \in [Peers -> Seq(Envelopes)]
      BY <1>16, <2>2 DEF TypeOK, Lose, Peers
    <2>4. link' \in {"up", "down"} /\ outages' \in Nat
      BY <1>16 DEF TypeOK, Lose
    <2> QED BY <2>3, <2>4
  <1>17. CASE DropConnection
    BY <1>16, <1>17 DEF TypeOK, DropConnection, history
  <1>18. CASE ResyncTimeout
    <2>1. resync' \in [status : {"idle", "waiting", "done", "failed"},
                       flush : Nat \cup {None}]
      BY <1>18 DEF TypeOK, ResyncTimeout
    <2>2. /\ outgoing' \in [Peers -> Seq(Envelopes)]
          /\ link' \in {"up", "down"} /\ outages' \in Nat
      BY <1>16, <1>18 DEF TypeOK, ResyncTimeout
    <2> QED BY <1>18, <2>1, <2>2 DEF TypeOK, ResyncTimeout, history
  <1>19. CASE Reconnect
    <2> DEFINE id == nextMessageId["client"]
    <2>1. id \in Nat /\ maxReceived["client"] \in Nat /\ "client" \in Peers
      BY DEF TypeOK, Peers
    <2>2. /\ Envelope(id, "started", None, None) \in Envelopes
          /\ Envelope(id + 1, "flush", maxReceived["client"], None) \in Envelopes
      <3>1. "started" \in Kinds /\ "flush" \in Kinds /\ id + 1 \in Nat
        BY <2>1 DEF Kinds
      <3> QED BY <2>1, <3>1, EnvelopeType
    <2>3. outgoing' \in [Peers -> Seq(Envelopes)]
      <3> DEFINE a == Envelope(id, "started", None, None)
                 b == Envelope(id + 1, "flush", maxReceived["client"], None)
      <3>1. outgoing' = [outgoing EXCEPT !["client"] = <<a, b>>]
        BY <1>19 DEF Reconnect
      <3> HIDE DEF a, b
      <3>2. <<a, b>> \in Seq(Envelopes)
        BY <2>2 DEF a, b
      <3> QED BY <3>1, <3>2 DEF TypeOK
    <2>4. responseChannels' \in [Peers -> SUBSET Nat]
      BY <1>19, <2>1 DEF TypeOK, Reconnect
    <2> QED BY <1>19, <2>1, <2>3, <2>4, SMTT(30) DEF TypeOK, Reconnect, history
  <1>20. CASE UNCHANGED vars
    BY <1>20 DEF TypeOK, vars, connection, history
  <1> QED BY <1>1, <1>2, <1>3, <1>4, <1>5, <1>6, <1>7, <1>8, <1>9, <1>10, <1>11,
             <1>12, <1>13, <1>14, <1>15, <1>17, <1>18, <1>19, <1>20
          DEF Next, SendStep, BackgroundStep, ReadStep

(* The initial state is typed. *)
LEMMA TypeInit == Init => TypeOK
  <1>1. NoDraft \in Drafts
    <2>1. Envelope(0, "notification", None, None) \in Envelopes
      BY EnvelopeType DEF Kinds
    <2> QED BY <2>1 DEF NoDraft, Drafts
  <1>2. <<>> \in Seq(Envelopes) /\ <<>> \in Seq(Nat)
    BY ElementsEmpty
  <1> QED BY <1>1, <1>2 DEF Init, TypeOK

(* Every reachable state of the message layer is typed. *)
THEOREM TypeCorrect == Spec => []TypeOK
  BY TypeInit, TypeStep, PTL DEF Spec

-----------------------------------------------------------------------------
(* Acknowledging is sound.                                                  *)

(* A peer's peer is another peer, whose peer it is. *)
LEMMA PeerProperties ==
    \A p \in Peers : Peer(p) \in Peers /\ Peer(Peer(p)) = p /\ Peer(p) # p
  BY DEF Peers, Peer

(* Envelopes in flight stay sound when the only new ones are stamped with   *)
(* max_received, or not at all.                                             *)
LEMMA AckedFrame ==
    ASSUME AckedWasReceived,
           \A p \in Peers : received[p] \subseteq received'[p],
           \A p \in Peers : maxReceived'[p] \in received'[p] \cup {0},
           \A p \in Peers : \A e \in InFlight(p)' :
               e \in InFlight(p) \/ e.ack = None \/ e.ack = maxReceived[p]
    PROVE  AckedWasReceived'
  <1> SUFFICES ASSUME NEW p \in Peers, NEW e \in InFlight(p)', e.ack # None
               PROVE  e.ack \in received'[p] \cup {0}
    BY DEF AckedWasReceived
  <1> QED BY DEF AckedWasReceived

(* Reading adds nothing to what is in flight. *)
LEMMA ReadsInFlight ==
    ASSUME TypeOK, NEW p \in Peers, Reads(p)
    PROVE  /\ Elements(inbox'[p]) \subseteq Elements(inbox[p])
           /\ \A q \in Peers : q # p => inbox'[q] = inbox[q]
           /\ Elements(Trimmed(p, Head(inbox[p]))[p]) \subseteq Elements(buffer[p])
           /\ \A q \in Peers : q # p => Trimmed(p, Head(inbox[p]))[q] = buffer[q]
           /\ Head(inbox[p]) \in InFlight(Peer(p))
  <1>1. inbox[p] \in Seq(Envelopes) /\ inbox[p] # <<>> /\ buffer[p] \in Seq(Envelopes)
    BY DEF TypeOK, Reads
  <1>2. Elements(Tail(inbox[p])) \subseteq Elements(inbox[p])
    BY <1>1, ElementsHeadTail
  <1>3. inbox' = [inbox EXCEPT ![p] = Tail(inbox[p])]
    BY DEF Reads
  <1>4. Head(inbox[p]).ack \in Nat \cup {None} /\ Head(inbox[p]) \in Elements(inbox[p])
    BY ReadsType
  <1>5. Elements(PopAcked(buffer[p], Head(inbox[p]).ack)) \subseteq Elements(buffer[p])
    BY <1>1, <1>4, PopAckedTrims
  <1>6. Head(inbox[p]) \in InFlight(Peer(p))
    BY <1>4, PeerProperties DEF InFlight
  <1> QED BY <1>2, <1>3, <1>5, <1>6 DEF Trimmed, TypeOK

(* A buffered send adds one envelope, stamped with max_received. *)
LEMMA SendBufferedAcked ==
    ASSUME TypeOK, NEW p \in Peers, NEW kind \in Kinds,
           NEW re \in Nat \cup {None}, SendBuffered(p, kind, re),
           inbox' = inbox, draft' = draft
    PROVE  \A q \in Peers : \A e \in InFlight(q)' :
               e \in InFlight(q) \/ e.ack = maxReceived[q]
  <1> DEFINE e == Envelope(nextMessageId[p], kind, maxReceived[p], re)
  <1>1. e \in Envelopes /\ e.ack = maxReceived[p]
    BY EnvelopeType DEF TypeOK, Envelope
  <1>2. /\ buffer' = [buffer EXCEPT ![p] = Append(buffer[p], e)]
        /\ outgoing' = [outgoing EXCEPT ![p] = Append(outgoing[p], e)]
    BY DEF SendBuffered
  <1> HIDE DEF e
  <1>3. /\ Elements(Append(buffer[p], e)) = Elements(buffer[p]) \cup {e}
        /\ Elements(Append(outgoing[p], e)) = Elements(outgoing[p]) \cup {e}
    BY <1>1, ElementsAppend DEF TypeOK
  <1>4. \A q \in Peers : /\ Elements(buffer'[q]) \subseteq
                                Elements(buffer[q]) \cup {x \in {e} : q = p}
                         /\ Elements(outgoing'[q]) \subseteq
                                Elements(outgoing[q]) \cup {x \in {e} : q = p}
    BY <1>2, <1>3 DEF TypeOK
  <1> QED BY <1>1, <1>4 DEF InFlight

(* Every step keeps acknowledgements sound. *)
LEMMA AckedStep ==
    ASSUME TypeOK, AckedWasReceived, [Next]_vars
    PROVE  AckedWasReceived'
  <1> DEFINE Grown ==
               \A q \in Peers : \A e \in InFlight(q)' :
                   e \in InFlight(q) \/ e.ack = None \/ e.ack = maxReceived[q]
             Kept == received' = received /\ maxReceived' = maxReceived
  <1>a. ASSUME Grown, Kept
        PROVE  AckedWasReceived'
    <2>1. /\ \A p \in Peers : received[p] \subseteq received'[p]
          /\ \A p \in Peers : maxReceived'[p] \in received'[p] \cup {0}
      BY <1>a DEF AckedWasReceived
    <2> QED BY <1>a, <2>1, AckedFrame
  <1>b. ASSUME Grown, NEW p \in Peers, NEW m, Counts(p, m)
        PROVE  AckedWasReceived'
    <2>1. /\ \A q \in Peers : received[q] \subseteq received'[q]
          /\ \A q \in Peers : maxReceived'[q] \in received'[q] \cup {0}
      BY <1>b DEF AckedWasReceived, Counts, TypeOK
    <2> QED BY <1>b, <2>1, AckedFrame
  <1>c. ASSUME NEW p \in Peers, NEW e \in Envelopes, e.ack = None,
               outgoing' = [outgoing EXCEPT ![p] = Append(outgoing[p], e)]
        PROVE  \A q \in Peers : \A x \in Elements(outgoing'[q]) :
                   x \in Elements(outgoing[q]) \/ x.ack = None
    <2>1. Elements(Append(outgoing[p], e)) = Elements(outgoing[p]) \cup {e}
      BY <1>c, ElementsAppend DEF TypeOK
    <2> QED BY <1>c, <2>1 DEF TypeOK
  <1>1. ASSUME NEW p \in Peers, StartHandlingMessages(p)
        PROVE  AckedWasReceived'
    <2> DEFINE e == Envelope(nextMessageId[p], "started", None, None)
    <2>1. e \in Envelopes /\ e.ack = None
      BY EnvelopeType DEF TypeOK, Kinds, Envelope
    <2>2. /\ outgoing' = [outgoing EXCEPT ![p] = Append(outgoing[p], e)]
          /\ inbox' = inbox /\ buffer' = buffer /\ draft' = draft /\ Kept
      BY <1>1 DEF StartHandlingMessages, history
    <2> HIDE DEF e
    <2>3. Grown
      BY <1>c, <2>1, <2>2 DEF InFlight
    <2> QED BY <1>a, <2>2, <2>3
  <1>2. ASSUME NEW p \in Peers, SendStep(p)
        PROVE  AckedWasReceived'
    <2>1. /\ \E kind \in Kinds, re \in Nat \cup {None} : SendBuffered(p, kind, re)
          /\ inbox' = inbox /\ draft' = draft /\ Kept
      <3>1. CASE Send(p)
        BY <3>1 DEF Send, Kinds
      <3>2. CASE Request(p)
        BY <3>2 DEF Request, Kinds
      <3>3. CASE Respond(p)
        <4>1. PICK i \in 1 .. Len(running[p]) :
                 /\ SendBuffered(p, "response", running[p][i])
                 /\ inbox' = inbox /\ draft' = draft /\ Kept
          BY <3>3 DEF Respond
        <4>2. running[p][i] \in Nat
          BY ElementOfSeq DEF TypeOK
        <4> QED BY <4>1, <4>2 DEF Kinds
      <3> QED BY <1>2, <3>1, <3>2, <3>3 DEF SendStep
    <2>2. Grown
      BY <2>1, SendBufferedAcked
    <2> QED BY <1>a, <2>1, <2>2
  <1>3. ASSUME NEW p \in Peers, BackgroundNumber(p)
        PROVE  AckedWasReceived'
    <2>1. /\ draft'[p].envelope.ack = None
          /\ \A q \in Peers : q # p => draft'[q] = draft[q]
          /\ inbox' = inbox /\ buffer' = buffer /\ outgoing' = outgoing /\ Kept
      BY <1>3 DEF BackgroundNumber, history, Envelope, TypeOK
    <2>2. Grown
      BY <2>1 DEF InFlight
    <2> QED BY <1>a, <2>1, <2>2
  <1>4. ASSUME NEW p \in Peers, BackgroundStamp(p)
        PROVE  AckedWasReceived'
    <2>1. draft[p].envelope \in Envelopes
      BY DEF TypeOK, Drafts
    <2>2. /\ draft'[p].envelope.ack = maxReceived[p]
          /\ \A q \in Peers : q # p => draft'[q] = draft[q]
          /\ inbox' = inbox /\ buffer' = buffer /\ outgoing' = outgoing /\ Kept
      BY <1>4, <2>1 DEF BackgroundStamp, history, Envelopes, TypeOK
    <2>3. Grown
      BY <2>2 DEF InFlight
    <2> QED BY <1>a, <2>2, <2>3
  <1>5. ASSUME NEW p \in Peers, BackgroundBuffer(p)
        PROVE  AckedWasReceived'
    <2> DEFINE e == draft[p].envelope
    <2>1. e \in Envelopes
      BY DEF TypeOK, Drafts
    <2>2. Elements(Append(buffer[p], e)) = Elements(buffer[p]) \cup {e}
      BY <2>1, ElementsAppend DEF TypeOK
    <2>3. /\ buffer' = [buffer EXCEPT ![p] = Append(buffer[p], e)]
          /\ draft' = [draft EXCEPT ![p].stage = "buffered"]
          /\ inbox' = inbox /\ outgoing' = outgoing /\ Kept
      BY <1>5 DEF BackgroundBuffer
    <2>4. \A q \in Peers : draft'[q].envelope = draft[q].envelope
      BY <2>3 DEF TypeOK, Drafts
    <2>5. Grown
      BY <2>2, <2>3, <2>4 DEF InFlight, TypeOK
    <2> QED BY <1>a, <2>3, <2>5
  <1>6. ASSUME NEW p \in Peers, BackgroundQueue(p)
        PROVE  AckedWasReceived'
    <2> DEFINE e == draft[p].envelope
    <2>1. e \in Envelopes
      BY DEF TypeOK, Drafts
    <2>2. Elements(Append(outgoing[p], e)) = Elements(outgoing[p]) \cup {e}
      BY <2>1, ElementsAppend DEF TypeOK
    <2>3. /\ outgoing' = [outgoing EXCEPT ![p] = Append(outgoing[p], e)]
          /\ draft' = [draft EXCEPT ![p] = NoDraft]
          /\ inbox' = inbox /\ buffer' = buffer /\ Kept
      BY <1>6 DEF BackgroundQueue, history
    <2>4. NoDraft.envelope.ack = None
      BY DEF NoDraft, Envelope
    <2>5. \A q \in Peers : draft'[q].envelope = draft[q].envelope
                           \/ draft'[q].envelope.ack = None
      BY <2>3, <2>4 DEF TypeOK
    <2>6. Grown
      BY <2>2, <2>3, <2>5 DEF InFlight, TypeOK
    <2> QED BY <1>a, <2>3, <2>6
  <1>7. ASSUME NEW p \in Peers, SkipHandshakeAck(p)
        PROVE  AckedWasReceived'
    <2>1. Reads(p) /\ outgoing' = outgoing /\ buffer' = buffer /\ draft' = draft /\ Kept
      BY <1>7 DEF SkipHandshakeAck, history
    <2>2. Grown
      BY <2>1, ReadsInFlight, PeerProperties DEF InFlight
    <2> QED BY <1>a, <2>1, <2>2
  <1>8. ASSUME NEW p \in Peers, HandleFlush(p)
        PROVE  AckedWasReceived'
    <2> DEFINE m == Head(inbox[p])
    <2>1. /\ Reads(p) /\ buffer' = Trimmed(p, m) /\ draft' = draft /\ Kept
          /\ outgoing' = [outgoing EXCEPT ![p] =
                outgoing[p] \o Append(buffer'[p], AckTo(p, m))]
      BY <1>8 DEF HandleFlush, history
    <2>2. AckTo(p, m) \in Envelopes /\ AckTo(p, m).ack = None /\ buffer'[p] \in Seq(Envelopes)
      BY <2>1, ReadsType DEF AckTo, Envelope
    <2>3. /\ Append(buffer'[p], AckTo(p, m)) \in Seq(Envelopes)
          /\ Elements(Append(buffer'[p], AckTo(p, m))) =
                Elements(buffer'[p]) \cup {AckTo(p, m)}
      BY <2>2, ElementsAppend
    <2>4. Elements(outgoing[p] \o Append(buffer'[p], AckTo(p, m))) =
             Elements(outgoing[p]) \cup Elements(buffer'[p]) \cup {AckTo(p, m)}
      <3>1. outgoing[p] \in Seq(Envelopes)
        BY DEF TypeOK
      <3>2. Elements(outgoing[p] \o Append(buffer'[p], AckTo(p, m))) =
               Elements(outgoing[p]) \cup Elements(Append(buffer'[p], AckTo(p, m)))
        BY <2>3, <3>1, ElementsConcat, ZenonT(60)
      <3> QED BY <2>3, <3>2
    <2>5. /\ Elements(buffer'[p]) \subseteq Elements(buffer[p])
          /\ \A q \in Peers : q # p => buffer'[q] = buffer[q] /\ inbox'[q] = inbox[q]
          /\ Elements(inbox'[p]) \subseteq Elements(inbox[p])
      BY <2>1, ReadsInFlight
    <2>6. \A q \in Peers : \A x \in Elements(outgoing'[q]) :
             x \in InFlight(q) \/ x.ack = None
      BY <2>1, <2>2, <2>4, <2>5 DEF InFlight, TypeOK
    <2>7. Grown
      BY <2>1, <2>5, <2>6, PeerProperties DEF InFlight
    <2> QED BY <1>a, <2>1, <2>7
  <1>9. ASSUME NEW p \in Peers, HandleRemoteStarted(p)
        PROVE  AckedWasReceived'
    <2> DEFINE m == Head(inbox[p])
    <2>1. /\ Reads(p) /\ buffer' = Trimmed(p, m) /\ draft' = draft /\ Kept
          /\ outgoing' = [outgoing EXCEPT ![p] = Append(outgoing[p], AckTo(p, m))]
      BY <1>9 DEF HandleRemoteStarted, history
    <2>2. AckTo(p, m) \in Envelopes /\ AckTo(p, m).ack = None
      BY <2>1, ReadsType DEF AckTo, Envelope
    <2>3. \A q \in Peers : \A x \in Elements(outgoing'[q]) :
             x \in Elements(outgoing[q]) \/ x.ack = None
      BY <1>c, <2>1, <2>2
    <2>4. Grown
      BY <2>1, <2>3, ReadsInFlight, PeerProperties DEF InFlight
    <2> QED BY <1>a, <2>1, <2>4
  <1>10. ASSUME NEW p \in Peers, HandleIncoming(p) \/ HandleResponse(p)
         PROVE  AckedWasReceived'
    <2> DEFINE m == Head(inbox[p])
    <2>1. /\ Reads(p) /\ buffer' = Trimmed(p, m) /\ draft' = draft
          /\ outgoing' = outgoing /\ Counts(p, m)
      BY <1>10 DEF HandleIncoming, HandleResponse
    <2>2. Grown
      BY <2>1, ReadsInFlight, PeerProperties DEF InFlight
    <2> QED BY <1>b, <2>1, <2>2
  <1>11. ASSUME NEW p \in Peers, Transmit(p)
         PROVE  AckedWasReceived'
    <2> DEFINE h == Head(outgoing[p])
    <2>1. /\ h \in Envelopes /\ h \in Elements(outgoing[p])
          /\ Elements(Tail(outgoing[p])) \subseteq Elements(outgoing[p])
      BY <1>11, ElementsHeadTail DEF Transmit, TypeOK
    <2>2. Elements(Append(inbox[Peer(p)], h)) = Elements(inbox[Peer(p)]) \cup {h}
      BY <2>1, ElementsAppend, PeerProperties DEF TypeOK
    <2>3. /\ inbox' = [inbox EXCEPT ![Peer(p)] = Append(inbox[Peer(p)], h)]
          /\ outgoing' = [outgoing EXCEPT ![p] = Tail(outgoing[p])]
          /\ buffer' = buffer /\ draft' = draft /\ Kept
      BY <1>11 DEF Transmit, history
    <2> HIDE DEF h
    <2>4. /\ \A q \in Peers : Elements(outgoing'[q]) \subseteq Elements(outgoing[q])
          /\ \A q \in Peers : \A x \in Elements(inbox'[Peer(q)]) :
                x \in Elements(inbox[Peer(q)]) \/ (q = p /\ x = h)
      BY <2>1, <2>2, <2>3, PeerProperties DEF TypeOK
    <2>5. Grown
      BY <2>1, <2>3, <2>4 DEF InFlight
    <2> QED BY <1>a, <2>3, <2>5
  <1>12. CASE CompleteResync
    <2> DEFINE p == "client"
               m == Head(inbox[p])
    <2>1. /\ Reads(p) /\ buffer' = Trimmed(p, m) /\ draft' = draft /\ Counts(p, m)
          /\ outgoing' = [outgoing EXCEPT ![p] = outgoing[p] \o buffer'[p]]
          /\ p \in Peers
      BY <1>12 DEF CompleteResync, Peers
    <2> HIDE DEF p
    <2>2. buffer'[p] \in Seq(Envelopes)
      BY <2>1, ReadsType
    <2>3. Elements(outgoing[p] \o buffer'[p]) = Elements(outgoing[p]) \cup Elements(buffer'[p])
      BY <2>1, <2>2, ElementsConcat DEF TypeOK
    <2>4. /\ Elements(buffer'[p]) \subseteq Elements(buffer[p])
          /\ \A q \in Peers : q # p => buffer'[q] = buffer[q] /\ inbox'[q] = inbox[q]
          /\ Elements(inbox'[p]) \subseteq Elements(inbox[p])
      BY <2>1, ReadsInFlight
    <2>5. \A q \in Peers : \A x \in Elements(outgoing'[q]) : x \in InFlight(q)
      BY <2>1, <2>3, <2>4 DEF InFlight, TypeOK
    <2>6. Grown
      BY <2>1, <2>4, <2>5, PeerProperties DEF InFlight
    <2> QED BY <1>b, <2>1, <2>6
  <1>13. ASSUME NEW n \in 0 .. Len(outgoing["server"]), Lose(n)
         PROVE  \A q \in Peers : Elements(outgoing'[q]) \subseteq Elements(outgoing[q])
    <2>1. outgoing["server"] \in Seq(Envelopes) /\ Len(outgoing["server"]) \in Nat
      BY LenProperties DEF TypeOK, Peers
    <2>2. Elements(SubSeq(outgoing["server"], n + 1, Len(outgoing["server"])))
             \subseteq Elements(outgoing["server"])
      BY <2>1, ElementsSubSeq
    <2> QED BY <1>13, <2>2 DEF TypeOK, Lose, Peers
  <1>14. CASE DropConnection \/ ResyncTimeout
    <2>1. /\ \A q \in Peers : Elements(outgoing'[q]) \subseteq Elements(outgoing[q])
          /\ inbox' = inbox /\ buffer' = buffer /\ draft' = draft /\ Kept
      BY <1>13, <1>14 DEF DropConnection, ResyncTimeout, history
    <2>2. Grown
      BY <2>1 DEF InFlight
    <2> QED BY <1>a, <2>1, <2>2
  <1>15. CASE Reconnect
    <2> DEFINE id == nextMessageId["client"]
               a == Envelope(id, "started", None, None)
               b == Envelope(id + 1, "flush", maxReceived["client"], None)
    <2>1. a.ack = None /\ b.ack = maxReceived["client"]
      BY DEF Envelope
    <2>2. /\ outgoing' = [outgoing EXCEPT !["client"] = <<a, b>>]
          /\ inbox' = [inbox EXCEPT !["client"] = <<>>]
          /\ buffer' = buffer /\ draft' = draft /\ Kept
      BY <1>15 DEF Reconnect, history
    <2> HIDE DEF a, b
    <2>3. Elements(<<a, b>>) = {a, b} /\ Elements(<<>>) = {}
      BY ElementsEmpty DEF Elements
    <2>4. /\ \A q \in Peers : Elements(inbox'[q]) \subseteq Elements(inbox[q])
          /\ \A q \in Peers : \A x \in Elements(outgoing'[q]) :
                x \in Elements(outgoing[q]) \/ x.ack = None \/ x.ack = maxReceived[q]
      BY <2>1, <2>2, <2>3 DEF TypeOK
    <2>5. Grown
      BY <2>2, <2>4, PeerProperties DEF InFlight
    <2> QED BY <1>a, <2>2, <2>5
  <1>16. CASE UNCHANGED vars
    <2>1. /\ outgoing' = outgoing /\ inbox' = inbox /\ buffer' = buffer
          /\ draft' = draft /\ Kept
      BY <1>16 DEF vars, history
    <2> QED BY <1>a, <2>1 DEF InFlight
  <1> QED BY <1>1, <1>2, <1>3, <1>4, <1>5, <1>6, <1>7, <1>8, <1>9, <1>10, <1>11,
             <1>12, <1>14, <1>15, <1>16
          DEF Next, BackgroundStep, ReadStep

(* The discard property survives a step that pushes what it sends and that  *)
(* discards only what the peer has overtaken.                               *)
LEMMA DiscardFrame ==
    ASSUME DiscardedWhenOvertaken,
           \A p \in Peers : received[p] \subseteq received'[p],
           \A p \in Peers : sent'[p] \subseteq sent[p] \cup Elements(buffer'[p]),
           \A p \in Peers : \A e \in Elements(buffer[p]) :
               \/ e \in Elements(buffer'[p])
               \/ \E n \in received'[Peer(p)] \cup {0} : e.id <= n
    PROVE  DiscardedWhenOvertaken'
  <1> SUFFICES ASSUME NEW p \in Peers, NEW e \in sent'[p], e.id \notin Ids(buffer'[p])
               PROVE  \E n \in received'[Peer(p)] \cup {0} : e.id <= n
    BY DEF DiscardedWhenOvertaken
  <1>1. e \in sent[p]
    BY DEF Ids
  <1>2. CASE e.id \in Ids(buffer[p])
    <2>1. PICK x \in Elements(buffer[p]) : x.id = e.id
      BY <1>2 DEF Ids
    <2>2. x \notin Elements(buffer'[p])
      BY <2>1 DEF Ids
    <2> QED BY <2>1, <2>2
  <1>3. CASE e.id \notin Ids(buffer[p])
    BY <1>1, <1>3, PeerProperties DEF DiscardedWhenOvertaken
  <1> QED BY <1>2, <1>3

(* Trimming by the ack_id of the envelope read discards only such messages. *)
LEMMA TrimOvertaken ==
    ASSUME TypeOK, AckedWasReceived, NEW p \in Peers, Reads(p)
    PROVE  \A q \in Peers : \A e \in Elements(buffer[q]) :
               \/ e \in Elements(Trimmed(p, Head(inbox[p]))[q])
               \/ \E n \in received[Peer(q)] \cup {0} : e.id <= n
  <1> DEFINE m == Head(inbox[p])
  <1>1. m.ack \in Nat \cup {None}
    BY ReadsType
  <1>2. buffer[p] \in Seq(Envelopes)
    BY DEF TypeOK
  <1>3. \A e \in Elements(buffer[p]) :
            e \in Elements(PopAcked(buffer[p], m.ack)) \/ (m.ack # None /\ e.id <= m.ack)
    BY <1>1, <1>2, PopAckedTrims
  <1>4. m.ack # None => m.ack \in received[Peer(p)] \cup {0}
    BY ReadsInFlight, PeerProperties DEF AckedWasReceived
  <1>5. \A q \in Peers : q # p => Trimmed(p, m)[q] = buffer[q]
    BY ReadsInFlight
  <1>6. Trimmed(p, m)[p] = PopAcked(buffer[p], m.ack)
    BY DEF Trimmed, TypeOK
  <1> QED BY <1>3, <1>4, <1>5, <1>6

(* Every step keeps the discard property. *)
LEMMA DiscardStep ==
    ASSUME TypeOK, AckedWasReceived, DiscardedWhenOvertaken, [Next]_vars
    PROVE  DiscardedWhenOvertaken'
  <1>a. ASSUME NEW p \in Peers, NEW e \in Envelopes,
               buffer' = [buffer EXCEPT ![p] = Append(buffer[p], e)],
               sent' = [sent EXCEPT ![p] = sent[p] \cup {e}],
               received' = received
        PROVE  DiscardedWhenOvertaken'
    <2>1. Elements(Append(buffer[p], e)) = Elements(buffer[p]) \cup {e}
      BY ElementsAppend DEF TypeOK
    <2>2. /\ \A q \in Peers : sent'[q] \subseteq sent[q] \cup Elements(buffer'[q])
          /\ \A q \in Peers : Elements(buffer[q]) \subseteq Elements(buffer'[q])
      BY <1>a, <2>1 DEF TypeOK
    <2> QED BY <1>a, <2>2, DiscardFrame
  <1>b. ASSUME buffer' = buffer, sent' = sent, received' = received
        PROVE  DiscardedWhenOvertaken'
    BY <1>b, DiscardFrame
  <1>c. ASSUME NEW p \in Peers, Reads(p), buffer' = Trimmed(p, Head(inbox[p])),
               sent' = sent, \A q \in Peers : received[q] \subseteq received'[q]
        PROVE  DiscardedWhenOvertaken'
    <2>1. \A q \in Peers : \A e \in Elements(buffer[q]) :
             \/ e \in Elements(buffer'[q])
             \/ \E n \in received'[Peer(q)] \cup {0} : e.id <= n
      BY <1>c, TrimOvertaken, PeerProperties
    <2> QED BY <1>c, <2>1, DiscardFrame
  <1>d. ASSUME NEW p \in Peers, NEW m, Counts(p, m)
        PROVE  \A q \in Peers : received[q] \subseteq received'[q]
    BY <1>d DEF Counts, TypeOK
  <1>1. ASSUME NEW p \in Peers, SendStep(p)
        PROVE  DiscardedWhenOvertaken'
    <2>1. /\ received' = received
          /\ \E kind \in Kinds, re \in Nat \cup {None} : SendBuffered(p, kind, re)
      <3>1. CASE Send(p)
        BY <3>1 DEF Send, Kinds
      <3>2. CASE Request(p)
        BY <3>2 DEF Request, Kinds
      <3>3. CASE Respond(p)
        <4>1. PICK i \in 1 .. Len(running[p]) :
                 SendBuffered(p, "response", running[p][i]) /\ received' = received
          BY <3>3 DEF Respond
        <4>2. running[p][i] \in Nat
          BY ElementOfSeq DEF TypeOK
        <4> QED BY <4>1, <4>2 DEF Kinds
      <3> QED BY <1>1, <3>1, <3>2, <3>3 DEF SendStep
    <2>2. PICK kind \in Kinds, re \in Nat \cup {None} : SendBuffered(p, kind, re)
      BY <2>1
    <2> DEFINE e == Envelope(nextMessageId[p], kind, maxReceived[p], re)
    <2>3. e \in Envelopes
      BY EnvelopeType DEF TypeOK
    <2>4. /\ buffer' = [buffer EXCEPT ![p] = Append(buffer[p], e)]
          /\ sent' = [sent EXCEPT ![p] = sent[p] \cup {e}]
      BY <2>2 DEF SendBuffered
    <2> HIDE DEF e
    <2> QED BY <1>a, <2>1, <2>3, <2>4
  <1>2. ASSUME NEW p \in Peers, BackgroundBuffer(p)
        PROVE  DiscardedWhenOvertaken'
    <2>1. draft[p].envelope \in Envelopes
      BY DEF TypeOK, Drafts
    <2> QED BY <1>a, <1>2, <2>1 DEF BackgroundBuffer
  <1>3. ASSUME NEW p \in Peers,
               HandleFlush(p) \/ HandleRemoteStarted(p)
        PROVE  DiscardedWhenOvertaken'
    BY <1>3, <1>c DEF HandleFlush, HandleRemoteStarted, history
  <1>4. ASSUME NEW p \in Peers, HandleIncoming(p) \/ HandleResponse(p)
        PROVE  DiscardedWhenOvertaken'
    <2>1. /\ Reads(p) /\ buffer' = Trimmed(p, Head(inbox[p])) /\ sent' = sent
          /\ Counts(p, Head(inbox[p]))
      BY <1>4 DEF HandleIncoming, HandleResponse
    <2> QED BY <1>c, <1>d, <2>1
  <1>5. CASE CompleteResync
    <2>1. /\ Reads("client") /\ buffer' = Trimmed("client", Head(inbox["client"]))
          /\ sent' = sent /\ Counts("client", Head(inbox["client"])) /\ "client" \in Peers
      BY <1>5 DEF CompleteResync, Peers
    <2> QED BY <1>c, <1>d, <2>1
  <1>6. ASSUME NEW p \in Peers,
               \/ StartHandlingMessages(p) \/ BackgroundNumber(p) \/ BackgroundStamp(p)
               \/ BackgroundQueue(p) \/ SkipHandshakeAck(p) \/ Transmit(p)
        PROVE  DiscardedWhenOvertaken'
    BY <1>6, <1>b DEF StartHandlingMessages, BackgroundNumber, BackgroundStamp,
                      BackgroundQueue, SkipHandshakeAck, Transmit, history
  <1>7. CASE DropConnection \/ ResyncTimeout \/ Reconnect \/ UNCHANGED vars
    BY <1>7, <1>b DEF DropConnection, ResyncTimeout, Reconnect, vars, history
  <1> QED BY <1>1, <1>2, <1>3, <1>4, <1>5, <1>6, <1>7
          DEF Next, BackgroundStep, ReadStep

(* A message leaves its sender's buffer only once the peer has handled it   *)
(* or a later one, and every ack_id in flight names a message its sender    *)
(* handled: for any number of messages, outages and background senders.     *)
THEOREM AcknowledgementSound == Spec => [](AckedWasReceived /\ DiscardedWhenOvertaken)
  <1>1. Init => AckedWasReceived /\ DiscardedWhenOvertaken
    <2> SUFFICES ASSUME Init PROVE AckedWasReceived /\ DiscardedWhenOvertaken
      OBVIOUS
    <2>1. \A p \in Peers : InFlight(p) = {NoDraft.envelope}
      BY ElementsEmpty, PeerProperties DEF Init, InFlight
    <2>2. NoDraft.envelope.ack = None
      BY DEF NoDraft, Envelope
    <2> QED BY <2>1, <2>2 DEF Init, AckedWasReceived, DiscardedWhenOvertaken
  <1>2. TypeOK /\ AckedWasReceived /\ DiscardedWhenOvertaken /\ [Next]_vars
           => (AckedWasReceived /\ DiscardedWhenOvertaken)'
    BY AckedStep, DiscardStep
  <1> QED BY <1>1, <1>2, TypeCorrect, PTL DEF Spec

-----------------------------------------------------------------------------
(* One outage.  Until the server has handled the flush, what is missing is   *)
(* in a buffer and every ack_id is honest; afterwards it is in the pipe the  *)
(* replay went into, in front of whatever is numbered after it.              *)

(* What p sent and its peer has not read yet, oldest first.                 *)
Pipe(p) == inbox[Peer(p)] \o outgoing[p]
Buffered == {"notification", "request", "response"}
Places(p) == Elements(Pipe(p)) \cup Elements(buffer[p])

(* Ids are handed out once, and only what was sent through the buffer has    *)
(* the id of something sent.                                                 *)
Numbered ==
    \A p \in Peers :
        /\ handshakeId[p] # None \/ remoteStarted[p] \/ running[p] # <<>>
              => nextMessageId[p] > 0
        /\ \A e \in sent[p] : 0 < e.id /\ e.id < nextMessageId[p] /\ e.kind \in Buffered
        /\ \A m \in Elements(Pipe(p)) :
              /\ m.id < nextMessageId[p]
              /\ \A e \in sent[p] : m.id = e.id => m.kind \in Buffered
        /\ Elements(buffer[p]) \subseteq sent[p]

(* What p has heard of, acknowledges and answers are ids its peer used.      *)
Heard ==
    \A p \in Peers :
        /\ maxReceived[p] = 0 \/ maxReceived[p] < nextMessageId[Peer(p)]
        /\ \A x \in Elements(running[p]) : x < nextMessageId[Peer(p)]
        /\ \A m \in Places(p) :
              /\ m.ack # None => m.ack = 0 \/ m.ack < nextMessageId[Peer(p)]
              /\ m.re # None => m.re < nextMessageId[Peer(p)]

(* A connection is lost once, and the resync after it cannot fail.           *)
OneOutage ==
    /\ \/ resync.status = "idle" /\ link = "up" /\ outages = 0
       \/ resync.status = "idle" /\ link = "down" /\ outages = 1
       \/ resync.status \in {"waiting", "done"} /\ link = "up" /\ outages = 1
    /\ resync.status = "waiting" =>
          handshakeId["client"] # None /\ handshakeId["client"] # resync.flush
    /\ \A p \in Peers : draft[p].stage = "idle"
    /\ \A m \in Elements(Pipe("server")) : m.kind # "flush"

(* Up to a the peer has handled what p sent. *)
Honest(p, a) == a # None => \A e \in sent[p] : e.id <= a => e.id \in received[Peer(p)]

(* Before and at the i-th envelope of p's pipe is all that is missing up to it. *)
Covered(p, i) ==
    \A e \in sent[p] : e.id <= Pipe(p)[i].id =>
        e.id \in received[Peer(p)] \/ \E j \in 1 .. i : Pipe(p)[j].id = e.id

(* What p sent is handled or on its way; handled or kept. *)
Complete(p) == \A e \in sent[p] : e.id \in received[Peer(p)] \cup Ids(Pipe(p))
Retained(p) == \A e \in sent[p] : e.id \in received[Peer(p)] \/ e \in Elements(buffer[p])

NoFlush == \A m \in Elements(Pipe("client")) : m.kind # "flush"

(* Before the reconnect: only what the server had sent may be missing.       *)
BeforeResync ==
    /\ resync.status = "idle"
    /\ Retained("client") /\ Retained("server") /\ Complete("client") /\ NoFlush
    /\ \A p \in Peers :
          /\ Honest(Peer(p), maxReceived[p])
          /\ \A m \in Places(p) : Honest(Peer(p), m.ack)
    /\ \A i \in 1 .. Len(Pipe("client")) : Covered("client", i)
    /\ \A i \in 1 .. Len(inbox["client"]) : Covered("server", i)
    /\ link = "up" =>
          Complete("server") /\ \A i \in 1 .. Len(Pipe("server")) : Covered("server", i)

(* The flush is on its way, the k-th in the client's pipe.                    *)
Asked(k) ==
    /\ Pipe("client")[k].kind = "flush" /\ Pipe("client")[k].id = resync.flush
    /\ Honest("server", Pipe("client")[k].ack)
    /\ \A i \in 1 .. Len(Pipe("client")) : i # k =>
          Pipe("client")[i].kind # "flush" /\ Pipe("client")[i].id # resync.flush
    /\ \A i \in 1 .. k - 1 :
          /\ Pipe("client")[i].kind = "started" \/ Covered("client", i)
          /\ Honest("server", Pipe("client")[i].ack)
FlushAsked ==
    /\ resync.status = "waiting"
    /\ Retained("client") /\ Retained("server")
    /\ Honest("client", maxReceived["server"])
    /\ \A m \in Places("server") : Honest("client", m.ack) /\ m.re # resync.flush
    /\ \A x \in Elements(running["server"]) : x # resync.flush
    /\ \E k \in 1 .. Len(Pipe("client")) : Asked(k)

(* The flush was handled; its Ack is the k-th in the server's pipe.            *)
Replayed(k) ==
    /\ Pipe("server")[k].kind = "ack" /\ Pipe("server")[k].re = resync.flush
    /\ Pipe("server")[k].ack = None
    /\ \A i \in 1 .. k - 1 :
          Pipe("server")[i].re # resync.flush /\ Honest("client", Pipe("server")[i].ack)
    /\ \A i \in k .. Len(Pipe("server")) : Covered("server", i)
FlushReplayed ==
    /\ resync.status = "waiting"
    /\ Retained("client") /\ Complete("server") /\ NoFlush
    /\ \E k \in 1 .. Len(Pipe("server")) : Replayed(k)

(* Both ends have replayed. *)
Resynced ==
    /\ resync.status = "done"
    /\ Complete("client") /\ Complete("server") /\ NoFlush
    /\ Honest("server", maxReceived["client"])
    /\ \A i \in 1 .. Len(Pipe("server")) : Covered("server", i)

ResyncInv ==
    /\ Numbered /\ Heard /\ OneOutage
    /\ BeforeResync \/ FlushAsked \/ FlushReplayed \/ Resynced

-----------------------------------------------------------------------------
(* What steps do to the pipes.                                               *)

(* v begins with w; v is w without its first element. *)
Grows(w, v) == Len(w) <= Len(v) /\ \A i \in 1 .. Len(w) : v[i] = w[i]
Shifts(w, v) == Len(w) = Len(v) + 1 /\ \A i \in 1 .. Len(v) : v[i] = w[i + 1]

(* A pipe is a sequence of envelopes that begins with the inbox. *)
LEMMA PipeType ==
    ASSUME TypeOK, NEW p \in Peers
    PROVE  /\ Pipe(p) \in Seq(Envelopes) /\ Len(Pipe(p)) \in Nat
           /\ inbox[Peer(p)] \in Seq(Envelopes) /\ outgoing[p] \in Seq(Envelopes)
           /\ buffer[p] \in Seq(Envelopes)
           /\ Len(inbox[Peer(p)]) \in Nat /\ Len(outgoing[p]) \in Nat
           /\ Len(Pipe(p)) = Len(inbox[Peer(p)]) + Len(outgoing[p])
           /\ \A i \in 1 .. Len(inbox[Peer(p)]) : Pipe(p)[i] = inbox[Peer(p)][i]
           /\ \A i \in 1 .. Len(Pipe(p)) :
                 Pipe(p)[i] \in Envelopes /\ Pipe(p)[i] \in Elements(Pipe(p))
  <1> DEFINE a == inbox[Peer(p)]
             b == outgoing[p]
             w == Pipe(p)
  <1>1. /\ a \in Seq(Envelopes) /\ b \in Seq(Envelopes) /\ w = a \o b
        /\ buffer[p] \in Seq(Envelopes)
    BY PeerProperties DEF TypeOK, Pipe
  <1> HIDE DEF a, b, w
  <1>2. Len(a) \in Nat /\ Len(b) \in Nat
    BY <1>1, LenProperties
  <1>3. /\ w \in Seq(Envelopes) /\ Len(w) = Len(a) + Len(b)
        /\ \A i \in 1 .. Len(a) + Len(b) : w[i] = IF i <= Len(a) THEN a[i] ELSE b[i - Len(a)]
    BY <1>1, ConcatProperties
  <1>4. \A i \in 1 .. Len(w) : w[i] \in Envelopes /\ w[i] \in Elements(w)
    BY <1>3, ElementOfSeq DEF Elements
  <1>5. \A i \in 1 .. Len(a) : w[i] = a[i]
    BY <1>2, <1>3
  <1>6. Len(w) \in Nat
    BY <1>2, <1>3
  <1> QED BY <1>1, <1>2, <1>3, <1>4, <1>5, <1>6 DEF a, b, w

(* Appending to the queue appends to the pipe. *)
LEMMA PipeAppends ==
    ASSUME TypeOK, NEW p \in Peers, NEW t \in Seq(Envelopes),
           outgoing'[p] = outgoing[p] \o t, inbox'[Peer(p)] = inbox[Peer(p)]
    PROVE  Pipe(p)' = Pipe(p) \o t
  <1> DEFINE a == inbox[Peer(p)]
             b == outgoing[p]
  <1>1. Pipe(p)' = a \o (b \o t) /\ Pipe(p) = a \o b
    BY DEF Pipe
  <1>2. a \in Seq(Envelopes) /\ b \in Seq(Envelopes)
    BY PipeType
  <1> HIDE DEF a, b
  <1>3. (a \o b) \o t = a \o (b \o t)
    BY <1>2, ConcatAssociative
  <1> QED BY <1>1, <1>3

(* A concatenation begins with its first part. *)
LEMMA ConcatGrows ==
    ASSUME NEW w \in Seq(Envelopes), NEW t \in Seq(Envelopes)
    PROVE  /\ Grows(w, w \o t) /\ Len(w \o t) = Len(w) + Len(t)
           /\ Len(w) \in Nat /\ Len(t) \in Nat
           /\ \A i \in 1 .. Len(t) : (w \o t)[Len(w) + i] = t[i]
           /\ Elements(w \o t) = Elements(w) \cup Elements(t)
  <1>1. /\ Len(w \o t) = Len(w) + Len(t) /\ Len(w) \in Nat /\ Len(t) \in Nat
        /\ \A i \in 1 .. Len(w) + Len(t) :
              (w \o t)[i] = IF i <= Len(w) THEN w[i] ELSE t[i - Len(w)]
    BY ConcatProperties, LenProperties
  <1>2. Grows(w, w \o t)
    BY <1>1 DEF Grows
  <1>3. \A i \in 1 .. Len(t) : (w \o t)[Len(w) + i] = t[i]
    BY <1>1
  <1> QED BY <1>1, <1>2, <1>3, ElementsConcat

(* Reading takes the first envelope off the peer's pipe. *)
LEMMA PipeReads ==
    ASSUME TypeOK, NEW p \in Peers, Reads(p), outgoing'[Peer(p)] = outgoing[Peer(p)]
    PROVE  /\ Pipe(Peer(p))[1] = Head(inbox[p]) /\ Len(inbox[p]) > 0
           /\ Shifts(Pipe(Peer(p)), Pipe(Peer(p))') /\ Len(inbox'[p]) = Len(inbox[p]) - 1
           /\ Len(Pipe(Peer(p))) > 0 /\ Len(Pipe(Peer(p))') \in Nat
           /\ Pipe(Peer(p))' \in Seq(Envelopes)
           /\ Elements(Pipe(Peer(p))) = {Head(inbox[p])} \cup Elements(Pipe(Peer(p))')
  <1> DEFINE a == inbox[p]
             b == outgoing[Peer(p)]
             w == Pipe(Peer(p))
             v == Pipe(Peer(p))'
  <1>1. a \in Seq(Envelopes) /\ b \in Seq(Envelopes) /\ a # <<>>
    BY PeerProperties DEF TypeOK, Reads
  <1>2. w = a \o b /\ v = Tail(a) \o b /\ inbox'[p] = Tail(a)
    BY PeerProperties DEF Pipe, Reads, TypeOK
  <1> HIDE DEF a, b, w, v
  <1>3. /\ Tail(a) \in Seq(Envelopes) /\ Len(Tail(a)) = Len(a) - 1 /\ Head(a) = a[1]
        /\ \A i \in 1 .. Len(Tail(a)) : Tail(a)[i] = a[i + 1]
        /\ Len(a) \in Nat /\ Len(a) > 0 /\ Len(b) \in Nat
    BY <1>1, HeadTailProperties, EmptySeq, LenProperties
  <1>4. /\ w \in Seq(Envelopes) /\ Len(w) = Len(a) + Len(b)
        /\ \A i \in 1 .. Len(a) + Len(b) : w[i] = IF i <= Len(a) THEN a[i] ELSE b[i - Len(a)]
    BY <1>1, <1>2, ConcatProperties
  <1>5. /\ v \in Seq(Envelopes) /\ Len(v) = Len(Tail(a)) + Len(b)
        /\ \A i \in 1 .. Len(Tail(a)) + Len(b) :
              v[i] = IF i <= Len(Tail(a)) THEN Tail(a)[i] ELSE b[i - Len(Tail(a))]
    BY <1>1, <1>2, <1>3, ConcatProperties
  <1>6. Shifts(w, v)
    <2>1. Len(w) = Len(v) + 1
      BY <1>3, <1>4, <1>5
    <2>2. ASSUME NEW i \in 1 .. Len(v) PROVE v[i] = w[i + 1]
      <3>1. CASE i <= Len(a) - 1
        <4>1. i \in 1 .. Len(Tail(a)) /\ i + 1 \in 1 .. Len(a) + Len(b) /\ i + 1 <= Len(a)
          BY <1>3, <1>5, <3>1
        <4> QED BY <1>3, <1>4, <1>5, <2>2, <4>1
      <3>2. CASE ~ (i <= Len(a) - 1)
        <4>1. /\ i \in 1 .. Len(Tail(a)) + Len(b) /\ ~ (i <= Len(Tail(a)))
              /\ i + 1 \in 1 .. Len(a) + Len(b) /\ ~ (i + 1 <= Len(a))
              /\ i - Len(Tail(a)) = (i + 1) - Len(a)
          BY <1>3, <1>5, <3>2
        <4> QED BY <1>4, <1>5, <4>1
      <3> QED BY <3>1, <3>2
    <2> QED BY <2>1, <2>2 DEF Shifts
  <1>7. Elements(w) = {Head(a)} \cup Elements(v)
    <2>1. Elements(w) = Elements(a) \cup Elements(b)
      BY <1>1, <1>2, ElementsConcat
    <2>3. Elements(Tail(a) \o b) = Elements(Tail(a)) \cup Elements(b)
      BY <1>1, <1>3, ElementsConcat, ZenonT(60)
    <2>2. Elements(a) = {Head(a)} \cup Elements(Tail(a))
      BY <1>1, ElementsHeadTail
    <2> QED BY <1>2, <2>1, <2>2, <2>3
  <1>8. w[1] = Head(a) /\ Len(w) > 0 /\ Len(v) \in Nat
    BY <1>3, <1>4, <1>5
  <1> QED BY <1>2, <1>3, <1>5, <1>6, <1>7, <1>8 DEF a, w, v

(* The pumps move an envelope along within its pipe. *)
LEMMA PipeTransmits ==
    ASSUME TypeOK, NEW p \in Peers, Transmit(p)
    PROVE  \A q \in Peers : Pipe(q)' = Pipe(q)
  <1> DEFINE a == inbox[Peer(p)]
             b == outgoing[p]
  <1>1. a \in Seq(Envelopes) /\ b \in Seq(Envelopes) /\ b # <<>>
    BY PeerProperties DEF TypeOK, Transmit
  <1>2. Pipe(p) = a \o b /\ Pipe(p)' = Append(a, Head(b)) \o Tail(b)
    BY PeerProperties DEF Pipe, Transmit, TypeOK
  <1>3. \A q \in Peers : q # p => Pipe(q)' = Pipe(q)
    BY PeerProperties DEF Pipe, Transmit, TypeOK
  <1> HIDE DEF a, b
  <1>4. /\ Head(b) \in Envelopes /\ Tail(b) \in Seq(Envelopes)
        /\ Len(Tail(b)) = Len(b) - 1 /\ \A i \in 1 .. Len(Tail(b)) : Tail(b)[i] = b[i + 1]
        /\ Len(b) \in Nat /\ Len(b) > 0 /\ Head(b) = b[1]
    BY <1>1, HeadTailProperties, EmptySeq, LenProperties
  <1>5. Append(a, Head(b)) = a \o <<Head(b)>>
    BY <1>1, <1>4, AppendIsConcat
  <1>6. <<Head(b)>> \o Tail(b) = b
    BY <1>1, <1>4
  <1>7. <<Head(b)>> \in Seq(Envelopes)
    BY <1>4
  <1>8. (a \o <<Head(b)>>) \o Tail(b) = a \o (<<Head(b)>> \o Tail(b))
    BY <1>1, <1>4, <1>7, ConcatAssociative
  <1> QED BY <1>2, <1>3, <1>5, <1>6, <1>8

(* p adds e to its pipe; what is buffered is kept and recorded. *)
SendsOne(p, e) ==
    /\ e \in Envelopes /\ e.id = nextMessageId[p] /\ e.kind # "flush"
    /\ e.re = None \/ e.re \in Elements(running[p])
    /\ Pipe(p)' = Pipe(p) \o <<e>> /\ Pipe(Peer(p))' = Pipe(Peer(p)) /\ inbox' = inbox
    /\ nextMessageId'[p] = nextMessageId[p] + 1
    /\ nextMessageId'[Peer(p)] = nextMessageId[Peer(p)]
    /\ \/ /\ e.kind \in Buffered /\ e.ack = maxReceived[p] /\ nextMessageId[p] > 0
          /\ sent'[p] = sent[p] \cup {e}
          /\ Elements(buffer'[p]) = Elements(buffer[p]) \cup {e}
       \/ /\ e.kind \notin Buffered /\ e.ack = None
          /\ sent'[p] = sent[p] /\ buffer'[p] = buffer[p]
    /\ sent'[Peer(p)] = sent[Peer(p)] /\ buffer'[Peer(p)] = buffer[Peer(p)]
    /\ maxReceived' = maxReceived /\ received' = received
    /\ link' = link /\ resync' = resync /\ outages' = outages /\ draft' = draft
    /\ running'[Peer(p)] = running[Peer(p)]
    /\ Elements(running'[p]) \subseteq Elements(running[p])
    /\ remoteStarted' = remoteStarted /\ handshakeId'[Peer(p)] = handshakeId[Peer(p)]
    /\ handshakeId[p] # None => handshakeId'[p] = handshakeId[p]

(* p takes m off the peer's pipe: it trims by m's ack_id, may count m, and  *)
(* may Ack it.                                                              *)
Takes(p, m) ==
    /\ m = Pipe(Peer(p))[1] /\ m \in Envelopes
    /\ Len(inbox[p]) > 0 /\ Len(inbox'[p]) = Len(inbox[p]) - 1
    /\ inbox'[Peer(p)] = inbox[Peer(p)] /\ Len(Pipe(Peer(p))) > 0
    /\ Shifts(Pipe(Peer(p)), Pipe(Peer(p))')
    /\ Elements(Pipe(Peer(p))) = {m} \cup Elements(Pipe(Peer(p))')
    /\ nextMessageId'[Peer(p)] = nextMessageId[Peer(p)]
    /\ sent' = sent /\ buffer'[Peer(p)] = buffer[Peer(p)]
    /\ Elements(buffer'[p]) \subseteq Elements(buffer[p])
    /\ \A e \in Elements(buffer[p]) :
          e \in Elements(buffer'[p]) \/ (m.ack # None /\ e.id <= m.ack)
    /\ \/ m.kind \notin Buffered /\ maxReceived' = maxReceived /\ received' = received
       \/ /\ m.kind # "started"
          /\ maxReceived'[p] = m.id /\ maxReceived'[Peer(p)] = maxReceived[Peer(p)]
          /\ received'[p] = received[p] \cup {m.id} /\ received'[Peer(p)] = received[Peer(p)]
    /\ running'[Peer(p)] = running[Peer(p)]
    /\ Elements(running'[p]) \subseteq Elements(running[p]) \cup {m.id}
    /\ handshakeId[p] # None /\ handshakeId' = handshakeId
    /\ remoteStarted'[Peer(p)] = remoteStarted[Peer(p)]
    /\ link' = link /\ outages' = outages /\ draft' = draft
ReadsOne(p, m) ==
    /\ Takes(p, m) /\ resync' = resync /\ m.kind # "flush"
    /\ \/ Pipe(p)' = Pipe(p) /\ nextMessageId'[p] = nextMessageId[p]
       \/ Pipe(p)' = Pipe(p) \o <<AckTo(p, m)>> /\ nextMessageId'[p] = nextMessageId[p] + 1
    /\ m.kind = "ack" => IsHandshakeAck(p, m) \/ ~ AwaitsResync(p, m)

(* Handlers' answers come from the requests at work. *)
LEMMA RunningElements ==
    ASSUME TypeOK, NEW p \in Peers, NEW i \in 1 .. Len(running[p]),
           running' = [running EXCEPT ![p] = SubSeq(@, 1, i - 1) \o SubSeq(@, i + 1, Len(@))]
    PROVE  /\ running[p][i] \in Elements(running[p]) /\ running[p][i] \in Nat
           /\ Elements(running'[p]) \subseteq Elements(running[p])
           /\ running[p] # <<>> /\ running'[Peer(p)] = running[Peer(p)]
  <1> DEFINE r == running[p]
  <1>1. r \in Seq(Nat) /\ Len(r) \in Nat /\ r[i] \in Nat
    BY LenProperties, ElementOfSeq DEF TypeOK
  <1>2. running'[p] = SubSeq(r, 1, i - 1) \o SubSeq(r, i + 1, Len(r))
        /\ running'[Peer(p)] = running[Peer(p)]
    BY PeerProperties DEF TypeOK
  <1> HIDE DEF r
  <1>3. i \in 1 .. Len(r)
    BY DEF r
  <1>4. /\ SubSeq(r, 1, i - 1) \in Seq(Nat)
        /\ Elements(SubSeq(r, 1, i - 1)) \subseteq Elements(r)
    <2>1. 1 \in Nat \ {0} /\ i - 1 \in 0 .. Len(r)
      BY <1>1, <1>3
    <2> QED BY <1>1, <2>1, ElementsSubSeq
  <1>5. /\ SubSeq(r, i + 1, Len(r)) \in Seq(Nat)
        /\ Elements(SubSeq(r, i + 1, Len(r))) \subseteq Elements(r)
    <2>1. i + 1 \in Nat \ {0} /\ Len(r) \in 0 .. Len(r)
      BY <1>1, <1>3
    <2> QED BY <1>1, <2>1, ElementsSubSeq
  <1>6. Elements(SubSeq(r, 1, i - 1) \o SubSeq(r, i + 1, Len(r))) =
           Elements(SubSeq(r, 1, i - 1)) \cup Elements(SubSeq(r, i + 1, Len(r)))
    BY <1>4, <1>5, ElementsConcat, ZenonT(60)
  <1>7. r[i] \in Elements(r)
    BY <1>3 DEF Elements
  <1>8. r # <<>>
    BY <1>1, <1>3, EmptySeq
  <1> QED BY <1>1, <1>2, <1>4, <1>5, <1>6, <1>7, <1>8 DEF r

(* A peer's own queue takes e; the other pipe stays. *)
LEMMA QueueOne ==
    ASSUME TypeOK, NEW p \in Peers, NEW e \in Envelopes, inbox' = inbox,
           outgoing' = [outgoing EXCEPT ![p] = Append(@, e)]
    PROVE  Pipe(p)' = Pipe(p) \o <<e>> /\ Pipe(Peer(p))' = Pipe(Peer(p))
  <1>1. outgoing[p] \in Seq(Envelopes) /\ <<e>> \in Seq(Envelopes)
    BY DEF TypeOK
  <1>2. Append(outgoing[p], e) = outgoing[p] \o <<e>>
    BY <1>1, AppendIsConcat
  <1>3. outgoing'[p] = outgoing[p] \o <<e>> /\ outgoing'[Peer(p)] = outgoing[Peer(p)]
    BY <1>2, PeerProperties DEF TypeOK
  <1>4. Pipe(p)' = Pipe(p) \o <<e>>
    BY <1>1, <1>3, PipeAppends
  <1> QED BY <1>3, <1>4 DEF Pipe

(* Announcing oneself and sending are such steps. *)
LEMMA SendSummary ==
    ASSUME TypeOK, Numbered, NEW p \in Peers, StartHandlingMessages(p) \/ SendStep(p)
    PROVE  \E e \in Envelopes : SendsOne(p, e)
  <1>0. nextMessageId[p] \in Nat /\ maxReceived[p] \in Nat
    BY DEF TypeOK
  <1>a. ASSUME NEW kind \in Buffered, NEW re \in Nat \cup {None},
               SendBuffered(p, kind, re), re = None \/ re \in Elements(running[p]),
               nextMessageId[p] > 0, inbox' = inbox, maxReceived' = maxReceived,
               received' = received, connection' = connection, draft' = draft,
               remoteStarted' = remoteStarted, handshakeId' = handshakeId,
               running'[Peer(p)] = running[Peer(p)],
               Elements(running'[p]) \subseteq Elements(running[p])
        PROVE  \E e \in Envelopes : SendsOne(p, e)
    <2> DEFINE e == Envelope(nextMessageId[p], kind, maxReceived[p], re)
    <2>1. /\ e \in Envelopes /\ e.id = nextMessageId[p] /\ e.kind = kind
          /\ e.ack = maxReceived[p] /\ e.re = re
      <3>1. kind \in Kinds
        BY DEF Buffered, Kinds
      <3> QED BY <1>0, <3>1, EnvelopeType DEF Envelope
    <2>2. /\ nextMessageId' = [nextMessageId EXCEPT ![p] = @ + 1]
          /\ buffer' = [buffer EXCEPT ![p] = Append(@, e)]
          /\ outgoing' = [outgoing EXCEPT ![p] = Append(@, e)]
          /\ sent' = [sent EXCEPT ![p] = @ \cup {e}]
      BY <1>a DEF SendBuffered
    <2> HIDE DEF e
    <2>3. Pipe(p)' = Pipe(p) \o <<e>> /\ Pipe(Peer(p))' = Pipe(Peer(p))
      BY <1>a, <2>1, <2>2, QueueOne
    <2>4. Elements(Append(buffer[p], e)) = Elements(buffer[p]) \cup {e}
      BY <2>1, ElementsAppend DEF TypeOK
    <2>5. /\ nextMessageId'[p] = nextMessageId[p] + 1
          /\ nextMessageId'[Peer(p)] = nextMessageId[Peer(p)]
          /\ sent'[p] = sent[p] \cup {e} /\ sent'[Peer(p)] = sent[Peer(p)]
          /\ Elements(buffer'[p]) = Elements(buffer[p]) \cup {e}
          /\ buffer'[Peer(p)] = buffer[Peer(p)]
      BY <2>2, <2>4, PeerProperties DEF TypeOK
    <2>6. kind # "flush"
      BY DEF Buffered
    <2>7. SendsOne(p, e)
      BY <1>a, <2>1, <2>3, <2>5, <2>6 DEF SendsOne, connection
    <2> QED BY <2>1, <2>7
  <1>1. CASE StartHandlingMessages(p)
    <2> DEFINE e == Envelope(nextMessageId[p], "started", None, None)
    <2>1. /\ e \in Envelopes /\ e.id = nextMessageId[p] /\ e.kind = "started"
          /\ e.ack = None /\ e.re = None
      BY <1>0, EnvelopeType DEF Envelope, Kinds
    <2>2. outgoing' = [outgoing EXCEPT ![p] = Append(@, e)] /\ inbox' = inbox
      BY <1>1 DEF StartHandlingMessages
    <2> HIDE DEF e
    <2>3. Pipe(p)' = Pipe(p) \o <<e>> /\ Pipe(Peer(p))' = Pipe(Peer(p))
      BY <2>1, <2>2, QueueOne
    <2>4. /\ nextMessageId'[p] = nextMessageId[p] + 1
          /\ nextMessageId'[Peer(p)] = nextMessageId[Peer(p)]
          /\ handshakeId'[Peer(p)] = handshakeId[Peer(p)] /\ handshakeId[p] = None
          /\ buffer' = buffer /\ sent' = sent /\ received' = received
          /\ maxReceived' = maxReceived /\ running' = running /\ draft' = draft
          /\ link' = link /\ resync' = resync /\ outages' = outages
          /\ remoteStarted' = remoteStarted
      BY <1>1, PeerProperties DEF StartHandlingMessages, TypeOK, connection, history
    <2>5. SendsOne(p, e)
      BY <2>1, <2>2, <2>3, <2>4 DEF SendsOne, Buffered
    <2> QED BY <2>1, <2>5
  <1>2. CASE Send(p)
    <2>1. /\ SendBuffered(p, "notification", None) /\ handshakeId[p] # None
          /\ inbox' = inbox /\ maxReceived' = maxReceived /\ received' = received
          /\ connection' = connection /\ draft' = draft /\ running' = running
          /\ remoteStarted' = remoteStarted /\ handshakeId' = handshakeId
      BY <1>2 DEF Send, GivenOut
    <2>2. nextMessageId[p] > 0 /\ "notification" \in Buffered
      BY <2>1 DEF Numbered, Buffered
    <2> QED BY <1>a, <2>1, <2>2
  <1>3. CASE Request(p)
    <2>1. /\ SendBuffered(p, "request", None) /\ (handshakeId[p] # None \/ remoteStarted[p])
          /\ inbox' = inbox /\ maxReceived' = maxReceived /\ received' = received
          /\ connection' = connection /\ draft' = draft /\ running' = running
          /\ remoteStarted' = remoteStarted /\ handshakeId' = handshakeId
      BY <1>3 DEF Request, GivenOut, MayPing
    <2>2. nextMessageId[p] > 0 /\ "request" \in Buffered
      BY <2>1 DEF Numbered, Buffered
    <2> QED BY <1>a, <2>1, <2>2
  <1>4. CASE Respond(p)
    <2>1. PICK i \in 1 .. Len(running[p]) :
             /\ SendBuffered(p, "response", running[p][i])
             /\ running' = [running EXCEPT ![p] =
                   SubSeq(@, 1, i - 1) \o SubSeq(@, i + 1, Len(@))]
             /\ UNCHANGED <<inbox, maxReceived, responseChannels, handshakeId,
                            remoteStarted, draft, connection, received, answered>>
      BY <1>4 DEF Respond
    <2>2. /\ running[p][i] \in Elements(running[p]) /\ running[p][i] \in Nat
          /\ Elements(running'[p]) \subseteq Elements(running[p])
          /\ running[p] # <<>> /\ running'[Peer(p)] = running[Peer(p)]
      BY <2>1, RunningElements
    <2>3. nextMessageId[p] > 0 /\ "response" \in Buffered
      BY <2>2 DEF Numbered, Buffered
    <2> QED BY <1>a, <2>1, <2>2, <2>3
  <1> QED BY <1>1, <1>2, <1>3, <1>4 DEF SendStep

(* Taking an envelope, whatever else the handler does. *)
LEMMA TakesSummary ==
    ASSUME TypeOK, NEW p \in Peers, Reads(p), NEW m, m = Head(inbox[p]),
           outgoing'[Peer(p)] = outgoing[Peer(p)],
           nextMessageId'[Peer(p)] = nextMessageId[Peer(p)],
           buffer' = buffer \/ buffer' = Trimmed(p, m), sent' = sent,
           \/ m.kind \notin Buffered /\ maxReceived' = maxReceived /\ received' = received
           \/ m.kind # "started" /\ Counts(p, m),
           running'[Peer(p)] = running[Peer(p)],
           Elements(running'[p]) \subseteq Elements(running[p]) \cup {m.id},
           handshakeId' = handshakeId, remoteStarted'[Peer(p)] = remoteStarted[Peer(p)],
           link' = link, outages' = outages, draft' = draft
    PROVE  Takes(p, m)
  <1>1. /\ m = Pipe(Peer(p))[1] /\ Len(inbox[p]) > 0 /\ Len(inbox'[p]) = Len(inbox[p]) - 1
        /\ Len(Pipe(Peer(p))) > 0 /\ Shifts(Pipe(Peer(p)), Pipe(Peer(p))')
        /\ Elements(Pipe(Peer(p))) = {m} \cup Elements(Pipe(Peer(p))')
    BY PipeReads
  <1>2. m \in Envelopes /\ m.ack \in Nat \cup {None}
    BY ReadsType
  <1>3. inbox'[Peer(p)] = inbox[Peer(p)] /\ handshakeId[p] # None
    BY PeerProperties DEF Reads, TypeOK
  <1>4. /\ Elements(buffer'[p]) \subseteq Elements(buffer[p])
        /\ buffer'[Peer(p)] = buffer[Peer(p)]
        /\ \A e \in Elements(buffer[p]) :
              e \in Elements(buffer'[p]) \/ (m.ack # None /\ e.id <= m.ack)
    <2>1. CASE buffer' = buffer
      BY <2>1
    <2>2. CASE buffer' = Trimmed(p, m)
      <3>1. buffer[p] \in Seq(Envelopes)
        BY DEF TypeOK
      <3>2. /\ Elements(PopAcked(buffer[p], m.ack)) \subseteq Elements(buffer[p])
            /\ \A e \in Elements(buffer[p]) :
                 e \in Elements(PopAcked(buffer[p], m.ack)) \/ (m.ack # None /\ e.id <= m.ack)
        BY <1>2, <3>1, PopAckedTrims
      <3>3. buffer'[p] = PopAcked(buffer[p], m.ack) /\ buffer'[Peer(p)] = buffer[Peer(p)]
        BY <2>2, PeerProperties DEF Trimmed, TypeOK
      <3> QED BY <3>2, <3>3
    <2> QED BY <2>1, <2>2
  <1>5. \/ m.kind \notin Buffered /\ maxReceived' = maxReceived /\ received' = received
        \/ /\ m.kind # "started"
           /\ maxReceived'[p] = m.id /\ maxReceived'[Peer(p)] = maxReceived[Peer(p)]
           /\ received'[p] = received[p] \cup {m.id} /\ received'[Peer(p)] = received[Peer(p)]
    BY PeerProperties DEF Counts, TypeOK
  <1> QED BY <1>1, <1>2, <1>3, <1>4, <1>5 DEF Takes

(* The handlers that do not replay. *)
LEMMA ReadSummary ==
    ASSUME TypeOK, NEW p \in Peers,
           \/ SkipHandshakeAck(p) \/ HandleRemoteStarted(p)
           \/ HandleIncoming(p) \/ HandleResponse(p)
    PROVE  \E m \in Envelopes : ReadsOne(p, m)
  <1> DEFINE m == Head(inbox[p])
  <1>0. /\ Reads(p) /\ inbox'[Peer(p)] = inbox[Peer(p)] /\ m \in Envelopes
    <2>1. Reads(p)
      BY DEF SkipHandshakeAck, HandleRemoteStarted, HandleIncoming, HandleResponse
    <2> QED BY <2>1, ReadsType, PeerProperties DEF Reads, TypeOK
  <1> HIDE DEF m
  <1>a. m = Head(inbox[p])
    BY DEF m
  <1>b. ASSUME outgoing' = outgoing PROVE Pipe(p)' = Pipe(p)
    BY <1>0, <1>b DEF Pipe
  <1>1. CASE SkipHandshakeAck(p)
    <2>1. /\ IsHandshakeAck(p, m) /\ outgoing' = outgoing /\ nextMessageId' = nextMessageId
          /\ buffer' = buffer /\ sent' = sent /\ maxReceived' = maxReceived
          /\ received' = received /\ running' = running /\ handshakeId' = handshakeId
          /\ remoteStarted' = remoteStarted /\ draft' = draft
          /\ link' = link /\ outages' = outages /\ resync' = resync
      BY <1>1, <1>a DEF SkipHandshakeAck, connection, history
    <2>2. m.kind \notin Buffered /\ m.kind # "flush"
      BY <2>1 DEF IsHandshakeAck, Buffered
    <2>3. Takes(p, m)
      BY <1>0, <1>a, <2>1, <2>2, TakesSummary
    <2>4. ReadsOne(p, m)
      BY <1>b, <2>1, <2>2, <2>3 DEF ReadsOne
    <2> QED BY <1>0, <2>4
  <1>2. CASE HandleRemoteStarted(p)
    <2>1. /\ m.kind = "started" /\ outgoing' = [outgoing EXCEPT ![p] = Append(@, AckTo(p, m))]
          /\ nextMessageId' = [nextMessageId EXCEPT ![p] = @ + 1]
          /\ buffer' = Trimmed(p, m) /\ sent' = sent /\ maxReceived' = maxReceived
          /\ received' = received /\ running' = running /\ handshakeId' = handshakeId
          /\ remoteStarted' = [remoteStarted EXCEPT ![p] = TRUE] /\ draft' = draft
          /\ link' = link /\ outages' = outages /\ resync' = resync
      BY <1>2, <1>a DEF HandleRemoteStarted, connection, history
    <2>2. m.kind \notin Buffered /\ m.kind # "flush" /\ m.kind # "ack"
      BY <2>1 DEF Buffered
    <2>3. /\ nextMessageId'[p] = nextMessageId[p] + 1
          /\ nextMessageId'[Peer(p)] = nextMessageId[Peer(p)]
          /\ remoteStarted'[Peer(p)] = remoteStarted[Peer(p)]
          /\ outgoing'[Peer(p)] = outgoing[Peer(p)]
          /\ outgoing'[p] = Append(outgoing[p], AckTo(p, m))
      BY <2>1, PeerProperties DEF TypeOK
    <2>4. Takes(p, m)
      BY <1>0, <1>a, <2>1, <2>2, <2>3, TakesSummary
    <2>5. Pipe(p)' = Pipe(p) \o <<AckTo(p, m)>>
      <3>1. AckTo(p, m) \in Envelopes
        BY <1>0, <1>a, ReadsType
      <3>2. /\ outgoing[p] \in Seq(Envelopes) /\ <<AckTo(p, m)>> \in Seq(Envelopes)
        BY <3>1 DEF TypeOK
      <3>3. outgoing'[p] = outgoing[p] \o <<AckTo(p, m)>>
        BY <2>3, <3>1, <3>2, AppendIsConcat
      <3> QED BY <1>0, <3>2, <3>3, PipeAppends
    <2>6. ReadsOne(p, m)
      BY <2>1, <2>2, <2>3, <2>4, <2>5 DEF ReadsOne
    <2> QED BY <1>0, <2>6
  <1>3. CASE HandleIncoming(p)
    <2>1. /\ m.kind \in {"notification", "request"} /\ outgoing' = outgoing
          /\ nextMessageId' = nextMessageId /\ buffer' = Trimmed(p, m) /\ sent' = sent
          /\ Counts(p, m) /\ handshakeId' = handshakeId
          /\ running' = [running EXCEPT ![p] = IF m.kind = "request" THEN Append(@, m.id) ELSE @]
          /\ remoteStarted' = remoteStarted /\ draft' = draft
          /\ link' = link /\ outages' = outages /\ resync' = resync
      BY <1>3, <1>a DEF HandleIncoming, connection
    <2>2. m.kind # "started" /\ m.kind # "flush" /\ m.kind # "ack"
      BY <2>1
    <2>3. /\ running'[Peer(p)] = running[Peer(p)]
          /\ Elements(running'[p]) \subseteq Elements(running[p]) \cup {m.id}
      <3>1. m.id \in Nat /\ running[p] \in Seq(Nat)
        BY <1>0, EnvelopeFields DEF TypeOK
      <3>2. Elements(Append(running[p], m.id)) = Elements(running[p]) \cup {m.id}
        BY <3>1, ElementsAppend
      <3>3. running'[p] = running[p] \/ running'[p] = Append(running[p], m.id)
        BY <2>1 DEF TypeOK
      <3>4. running'[Peer(p)] = running[Peer(p)]
        BY <2>1, PeerProperties DEF TypeOK
      <3> QED BY <3>2, <3>3, <3>4
    <2>4. Takes(p, m)
      BY <1>0, <1>a, <2>1, <2>2, <2>3, TakesSummary
    <2>5. ReadsOne(p, m)
      BY <1>b, <2>1, <2>2, <2>4 DEF ReadsOne
    <2> QED BY <1>0, <2>5
  <1>4. CASE HandleResponse(p)
    <2>1. /\ m.kind \in {"response", "ack"} /\ outgoing' = outgoing /\ ~ AwaitsResync(p, m)
          /\ nextMessageId' = nextMessageId /\ buffer' = Trimmed(p, m) /\ sent' = sent
          /\ Counts(p, m) /\ handshakeId' = handshakeId /\ running' = running
          /\ remoteStarted' = remoteStarted /\ draft' = draft
          /\ link' = link /\ outages' = outages /\ resync' = resync
      BY <1>4, <1>a DEF HandleResponse, connection
    <2>2. m.kind # "started" /\ m.kind # "flush"
      BY <2>1
    <2>3. Takes(p, m)
      BY <1>0, <1>a, <2>1, <2>2, TakesSummary
    <2>4. ReadsOne(p, m)
      BY <1>b, <2>1, <2>2, <2>3 DEF ReadsOne
    <2> QED BY <1>0, <2>4
  <1> QED BY <1>1, <1>2, <1>3, <1>4

(* HandleFlush queues the trimmed buffer and an Ack behind it. *)
LEMMA FlushSummary ==
    ASSUME TypeOK, TypeOK', NEW p \in Peers, HandleFlush(p)
    PROVE  \E m \in Envelopes :
              /\ Takes(p, m) /\ resync' = resync /\ m.kind = "flush"
              /\ Pipe(p)' = Pipe(p) \o Append(buffer'[p], AckTo(p, m))
              /\ nextMessageId'[p] = nextMessageId[p] + 1 /\ AckTo(p, m) \in Envelopes
              /\ maxReceived' = maxReceived /\ received' = received
  <1> DEFINE m == Head(inbox[p])
  <1>0. Reads(p) /\ inbox'[Peer(p)] = inbox[Peer(p)] /\ m \in Envelopes /\ AckTo(p, m) \in Envelopes
    <2>1. Reads(p)
      BY DEF HandleFlush
    <2> QED BY <2>1, ReadsType, PeerProperties DEF Reads, TypeOK
  <1> HIDE DEF m
  <1>a. m = Head(inbox[p])
    BY DEF m
  <1>1. /\ m.kind = "flush" /\ nextMessageId' = [nextMessageId EXCEPT ![p] = @ + 1]
        /\ outgoing' = [outgoing EXCEPT ![p] = @ \o Append(buffer'[p], AckTo(p, m))]
        /\ buffer' = Trimmed(p, m) /\ sent' = sent /\ maxReceived' = maxReceived
        /\ received' = received /\ running' = running /\ handshakeId' = handshakeId
        /\ remoteStarted' = remoteStarted /\ draft' = draft
        /\ link' = link /\ outages' = outages /\ resync' = resync
    BY <1>a DEF HandleFlush, connection, history
  <1>2. m.kind \notin Buffered
    BY <1>1 DEF Buffered
  <1>3. /\ nextMessageId'[p] = nextMessageId[p] + 1
        /\ nextMessageId'[Peer(p)] = nextMessageId[Peer(p)]
        /\ outgoing'[Peer(p)] = outgoing[Peer(p)]
        /\ outgoing'[p] = outgoing[p] \o Append(buffer'[p], AckTo(p, m))
    BY <1>1, PeerProperties DEF TypeOK
  <1>4. Takes(p, m)
    BY <1>0, <1>a, <1>1, <1>2, <1>3, TakesSummary
  <1>5. Append(buffer'[p], AckTo(p, m)) \in Seq(Envelopes)
    <2>1. buffer'[p] \in Seq(Envelopes)
      BY DEF TypeOK
    <2> QED BY <1>0, <2>1, AppendProperties
  <1>6. Pipe(p)' = Pipe(p) \o Append(buffer'[p], AckTo(p, m))
    BY <1>0, <1>3, <1>5, PipeAppends
  <1> QED BY <1>0, <1>1, <1>3, <1>4, <1>6

(* The end of a resync queues the client's whole buffer. *)
LEMMA CompleteSummary ==
    ASSUME TypeOK, TypeOK', CompleteResync
    PROVE  \E m \in Envelopes :
              /\ Takes("client", m) /\ resync.status = "waiting" /\ m.re = resync.flush
              /\ m.kind \in {"response", "ack"}
              /\ resync'.status = "done"
              /\ Pipe("client")' = Pipe("client") \o buffer'["client"]
              /\ nextMessageId' = nextMessageId
              /\ maxReceived'["client"] = m.id
              /\ received'["client"] = received["client"] \cup {m.id}
              /\ m.ack = None => buffer'["client"] = buffer["client"]
  <1> DEFINE p == "client"
             m == Head(inbox[p])
  <1>0. /\ p \in Peers /\ Reads(p) /\ inbox'[Peer(p)] = inbox[Peer(p)] /\ m \in Envelopes
    <2>1. Reads(p) /\ p \in Peers
      BY DEF CompleteResync, Peers
    <2> QED BY <2>1, ReadsType, PeerProperties DEF Reads, TypeOK
  <1>1. /\ m.kind \in {"response", "ack"} /\ nextMessageId' = nextMessageId
        /\ resync.status = "waiting" /\ resync.flush = m.re
        /\ outgoing' = [outgoing EXCEPT ![p] = @ \o buffer'[p]]
        /\ buffer' = Trimmed(p, m) /\ sent' = sent /\ Counts(p, m)
        /\ running' = running /\ handshakeId' = handshakeId
        /\ remoteStarted' = remoteStarted /\ draft' = draft
        /\ link' = link /\ outages' = outages
        /\ resync' = [resync EXCEPT !.status = "done"]
    BY DEF CompleteResync, AwaitsResync
  <1>a. m = Head(inbox[p])
    OBVIOUS
  <1> HIDE DEF m, p
  <1>2. m.kind # "started"
    BY <1>1
  <1>3. /\ outgoing'[Peer(p)] = outgoing[Peer(p)] /\ outgoing'[p] = outgoing[p] \o buffer'[p]
        /\ buffer'[p] \in Seq(Envelopes)
    BY <1>0, <1>1, PeerProperties DEF TypeOK
  <1>4. Takes(p, m)
    BY <1>0, <1>a, <1>1, <1>2, <1>3, TakesSummary
  <1>5. Pipe(p)' = Pipe(p) \o buffer'[p]
    BY <1>0, <1>3, PipeAppends
  <1>6. maxReceived'[p] = m.id /\ received'[p] = received[p] \cup {m.id}
    BY <1>0, <1>1 DEF Counts, TypeOK
  <1>7. m.ack = None => buffer'[p] = buffer[p]
    BY <1>0, <1>1 DEF Trimmed, PopAcked, TypeOK
  <1>8. resync'.status = "done"
    BY <1>1 DEF TypeOK
  <1> QED BY <1>0, <1>1, <1>4, <1>5, <1>6, <1>7, <1>8 DEF p

-----------------------------------------------------------------------------
(* Ids.                                                                      *)

(* A step that numbers what it adds keeps the numbers in order. *)
LEMMA NumberedFrame ==
    ASSUME TypeOK, TypeOK', Numbered,
           \A p \in Peers : nextMessageId[p] <= nextMessageId'[p],
           \A p \in Peers : \/ nextMessageId'[p] > 0
                            \/ /\ handshakeId'[p] = handshakeId[p]
                               /\ remoteStarted'[p] = remoteStarted[p]
                               /\ running'[p] = running[p],
           \A p \in Peers : sent[p] \subseteq sent'[p],
           \A p \in Peers : \A e \in sent'[p] :
              \/ e \in sent[p]
              \/ /\ e.id = nextMessageId[p] /\ nextMessageId[p] > 0
                 /\ nextMessageId[p] < nextMessageId'[p] /\ e.kind \in Buffered,
           \A p \in Peers : \A m \in Elements(Pipe(p)') :
              \/ m \in Elements(Pipe(p)) \/ m \in sent'[p]
              \/ /\ nextMessageId[p] <= m.id /\ m.id < nextMessageId'[p]
                 /\ sent'[p] = sent[p],
           \A p \in Peers : Elements(buffer'[p]) \subseteq Elements(buffer[p]) \cup sent'[p]
    PROVE  Numbered'
  <1> SUFFICES ASSUME NEW p \in Peers
               PROVE  /\ handshakeId'[p] # None \/ remoteStarted'[p] \/ running'[p] # <<>>
                            => nextMessageId'[p] > 0
                      /\ \A e \in sent'[p] :
                            0 < e.id /\ e.id < nextMessageId'[p] /\ e.kind \in Buffered
                      /\ \A m \in Elements(Pipe(p)') :
                            /\ m.id < nextMessageId'[p]
                            /\ \A e \in sent'[p] : m.id = e.id => m.kind \in Buffered
                      /\ Elements(buffer'[p]) \subseteq sent'[p]
    BY DEF Numbered
  <1>1. nextMessageId[p] \in Nat /\ nextMessageId'[p] \in Nat
    BY DEF TypeOK
  <1>2. handshakeId'[p] # None \/ remoteStarted'[p] \/ running'[p] # <<>>
           => nextMessageId'[p] > 0
    BY <1>1 DEF Numbered
  <1>3. \A e \in sent[p] : 0 < e.id /\ e.id < nextMessageId[p] /\ e.kind \in Buffered
    BY DEF Numbered
  <1>4. \A e \in sent'[p] : e.id \in Nat
    BY EnvelopeFields DEF TypeOK
  <1>5. \A e \in sent'[p] : 0 < e.id /\ e.id < nextMessageId'[p] /\ e.kind \in Buffered
    BY <1>1, <1>3, <1>4
  <1>6. ASSUME NEW m \in Elements(Pipe(p)')
        PROVE  /\ m.id < nextMessageId'[p]
               /\ \A e \in sent'[p] : m.id = e.id => m.kind \in Buffered
    <2>1. CASE m \in sent'[p]
      BY <1>5, <2>1
    <2>2. CASE m \in Elements(Pipe(p))
      <3>1. /\ m.id < nextMessageId[p]
            /\ \A e \in sent[p] : m.id = e.id => m.kind \in Buffered
        BY <2>2 DEF Numbered
      <3>2. m.id \in Nat
        <4>1. \A i \in 1 .. Len(Pipe(p)) : Pipe(p)[i] \in Envelopes
          BY PipeType
        <4> QED BY <2>2, <4>1, EnvelopeFields DEF Elements
      <3> QED BY <1>1, <3>1, <3>2
    <2>3. CASE /\ nextMessageId[p] <= m.id /\ m.id < nextMessageId'[p]
               /\ sent'[p] = sent[p]
      BY <1>1, <1>3, <1>4, <2>3
    <2> QED BY <2>1, <2>2, <2>3
  <1>7. Elements(buffer'[p]) \subseteq sent'[p]
    BY DEF Numbered
  <1> QED BY <1>2, <1>5, <1>6, <1>7

(* A step that acknowledges and answers what was heard of keeps that so. *)
LEMMA HeardFrame ==
    ASSUME TypeOK, TypeOK', Heard,
           \A p \in Peers : nextMessageId[p] <= nextMessageId'[p],
           \A p \in Peers : \/ maxReceived'[p] = maxReceived[p]
                            \/ maxReceived'[p] < nextMessageId[Peer(p)],
           \A p \in Peers : \A x \in Elements(running'[p]) :
              x \in Elements(running[p]) \/ x < nextMessageId[Peer(p)],
           \A p \in Peers : \A m \in Places(p)' :
              \/ m \in Places(p)
              \/ /\ m.ack = None \/ m.ack = maxReceived[p]
                 /\ \/ m.re = None \/ m.re \in Elements(running[p])
                    \/ m.re < nextMessageId[Peer(p)]
    PROVE  Heard'
  <1> SUFFICES ASSUME NEW p \in Peers
               PROVE  /\ maxReceived'[p] = 0 \/ maxReceived'[p] < nextMessageId'[Peer(p)]
                      /\ \A x \in Elements(running'[p]) : x < nextMessageId'[Peer(p)]
                      /\ \A m \in Places(p)' :
                            /\ m.ack # None => m.ack = 0 \/ m.ack < nextMessageId'[Peer(p)]
                            /\ m.re # None => m.re < nextMessageId'[Peer(p)]
    BY DEF Heard
  <1>1. /\ nextMessageId[Peer(p)] \in Nat /\ nextMessageId'[Peer(p)] \in Nat
        /\ nextMessageId[Peer(p)] <= nextMessageId'[Peer(p)]
        /\ maxReceived[p] \in Nat /\ maxReceived'[p] \in Nat
    BY PeerProperties DEF TypeOK
  <1>2. /\ maxReceived[p] = 0 \/ maxReceived[p] < nextMessageId[Peer(p)]
        /\ \A x \in Elements(running[p]) : x < nextMessageId[Peer(p)]
        /\ \A m \in Places(p) :
              /\ m.ack # None => m.ack = 0 \/ m.ack < nextMessageId[Peer(p)]
              /\ m.re # None => m.re < nextMessageId[Peer(p)]
    BY DEF Heard
  <1>3. maxReceived'[p] = 0 \/ maxReceived'[p] < nextMessageId'[Peer(p)]
    BY <1>1, <1>2
  <1>4. \A x \in Elements(running'[p]) : x \in Nat
    <2>1. running'[p] \in Seq(Nat)
      BY DEF TypeOK
    <2> QED BY <2>1, ElementOfSeq DEF Elements
  <1>5. \A x \in Elements(running'[p]) : x < nextMessageId'[Peer(p)]
    BY <1>1, <1>2, <1>4
  <1>6. ASSUME NEW m \in Places(p)'
        PROVE  /\ m.ack # None => m.ack = 0 \/ m.ack < nextMessageId'[Peer(p)]
               /\ m.re # None => m.re < nextMessageId'[Peer(p)]
    <2>1. m.ack \in Nat \cup {None} /\ m.re \in Nat \cup {None}
      <3>1. \A i \in 1 .. Len(Pipe(p)') : Pipe(p)'[i] \in Envelopes
        <4>1. /\ inbox'[Peer(p)] \in Seq(Envelopes) /\ outgoing'[p] \in Seq(Envelopes)
          BY PeerProperties DEF TypeOK
        <4>2. Pipe(p)' \in Seq(Envelopes)
          BY <4>1, ConcatProperties DEF Pipe
        <4> QED BY <4>2, ElementOfSeq
      <3>2. \A i \in 1 .. Len(buffer'[p]) : buffer'[p][i] \in Envelopes
        BY ElementOfSeq DEF TypeOK
      <3>3. m \in Envelopes
        BY <3>1, <3>2 DEF Places, Elements
      <3> QED BY <3>3, EnvelopeFields
    <2>2. m.ack # None => m.ack = 0 \/ m.ack < nextMessageId[Peer(p)]
      BY <1>2
    <2>3. m.re # None => m.re < nextMessageId[Peer(p)]
      BY <1>2
    <2> QED BY <1>1, <2>1, <2>2, <2>3
  <1> QED BY <1>3, <1>5, <1>6

(* Either peer is one of the two. *)
LEMMA TwoPeers ==
    ASSUME NEW p \in Peers, NEW q \in Peers
    PROVE  q = p \/ q = Peer(p)
  BY DEF Peers, Peer

(* A send adds one element, the last, to the pipe. *)
LEMMA OneMore ==
    ASSUME NEW w \in Seq(Envelopes), NEW e \in Envelopes
    PROVE  /\ Grows(w, w \o <<e>>) /\ Len(w \o <<e>>) = Len(w) + 1 /\ Len(w) \in Nat
           /\ (w \o <<e>>)[Len(w) + 1] = e /\ Elements(w \o <<e>>) = Elements(w) \cup {e}
  <1>1. /\ <<e>> \in Seq(Envelopes) /\ Len(<<e>>) = 1 /\ <<e>>[1] = e
        /\ Elements(<<e>>) = {e}
    BY DEF Elements
  <1> DEFINE t == <<e>>
  <1>2. t \in Seq(Envelopes) /\ Len(t) = 1 /\ t[1] = e /\ Elements(t) = {e}
    BY <1>1
  <1> HIDE DEF t
  <1>3. /\ Grows(w, w \o t) /\ Len(w \o t) = Len(w) + 1 /\ Len(w) \in Nat
        /\ (w \o t)[Len(w) + 1] = e /\ Elements(w \o t) = Elements(w) \cup {e}
    <2>1. /\ Grows(w, w \o t) /\ Len(w \o t) = Len(w) + Len(t) /\ Len(w) \in Nat
          /\ \A i \in 1 .. Len(t) : (w \o t)[Len(w) + i] = t[i]
          /\ Elements(w \o t) = Elements(w) \cup Elements(t)
      BY <1>2, ConcatGrows
    <2>2. 1 \in 1 .. Len(t)
      BY <1>2
    <2>3. (w \o t)[Len(w) + 1] = t[1]
      BY <2>1, <2>2
    <2> QED BY <1>2, <2>1, <2>3
  <1> QED BY <1>3 DEF t

(* The ids of a step that sends. *)
LEMMA SendIds ==
    ASSUME TypeOK, TypeOK', Numbered, Heard, NEW p \in Peers, NEW e, SendsOne(p, e)
    PROVE  Numbered' /\ Heard'
  <1>1. Pipe(p) \in Seq(Envelopes) /\ e \in Envelopes
    BY PipeType DEF SendsOne
  <1>2. Elements(Pipe(p)') = Elements(Pipe(p)) \cup {e}
    BY <1>1, OneMore DEF SendsOne
  <1>3. /\ nextMessageId[p] \in Nat /\ nextMessageId[Peer(p)] \in Nat /\ Peer(p) \in Peers
        /\ e.id = nextMessageId[p]
    BY PeerProperties DEF TypeOK, SendsOne
  <1>4. \A q \in Peers : nextMessageId[q] <= nextMessageId'[q]
    BY <1>3, TwoPeers DEF SendsOne
  <1>5. Numbered'
    <2>1. \A q \in Peers : \/ nextMessageId'[q] > 0
                           \/ /\ handshakeId'[q] = handshakeId[q]
                              /\ remoteStarted'[q] = remoteStarted[q]
                              /\ running'[q] = running[q]
      BY <1>3, TwoPeers DEF SendsOne
    <2>2. \A q \in Peers : sent[q] \subseteq sent'[q]
      BY TwoPeers DEF SendsOne
    <2>3. \A q \in Peers : \A x \in sent'[q] :
              \/ x \in sent[q]
              \/ /\ x.id = nextMessageId[q] /\ nextMessageId[q] > 0
                 /\ nextMessageId[q] < nextMessageId'[q] /\ x.kind \in Buffered
      BY <1>3, TwoPeers DEF SendsOne
    <2>4. \A q \in Peers : \A m \in Elements(Pipe(q)') :
              \/ m \in Elements(Pipe(q)) \/ m \in sent'[q]
              \/ /\ nextMessageId[q] <= m.id /\ m.id < nextMessageId'[q]
                 /\ sent'[q] = sent[q]
      <3> SUFFICES ASSUME NEW q \in Peers, NEW m \in Elements(Pipe(q)'), m \notin Elements(Pipe(q))
                   PROVE  \/ m \in sent'[q]
                          \/ /\ nextMessageId[q] <= m.id /\ m.id < nextMessageId'[q]
                             /\ sent'[q] = sent[q]
        OBVIOUS
      <3>1. q = p /\ m = e
        BY <1>2, TwoPeers DEF SendsOne
      <3> QED BY <1>3, <3>1 DEF SendsOne
    <2>5. \A q \in Peers : Elements(buffer'[q]) \subseteq Elements(buffer[q]) \cup sent'[q]
      BY TwoPeers DEF SendsOne
    <2> QED BY <1>4, <2>1, <2>2, <2>3, <2>4, <2>5, NumberedFrame
  <1>6. Heard'
    <2>1. \A q \in Peers : \A m \in Places(q)' :
              m \in Places(q) \/ (q = p /\ m = e)
      <3>1. Places(p)' \subseteq Places(p) \cup {e}
        BY <1>2 DEF Places, SendsOne
      <3>2. Places(Peer(p))' = Places(Peer(p))
        BY DEF Places, SendsOne
      <3> QED BY <3>1, <3>2, TwoPeers
    <2>2. /\ e.ack = None \/ e.ack = maxReceived[p]
          /\ e.re = None \/ e.re \in Elements(running[p])
      BY DEF SendsOne
    <2>3. \A q \in Peers : Elements(running'[q]) \subseteq Elements(running[q])
      BY TwoPeers DEF SendsOne
    <2>4. maxReceived' = maxReceived
      BY DEF SendsOne
    <2> QED BY <1>4, <2>1, <2>2, <2>3, <2>4, HeardFrame
  <1> QED BY <1>5, <1>6

(* The ids of a step that reads; it adds to its own pipe part of its buffer *)
(* and Acks.                                                                *)
LEMMA ReadIds ==
    ASSUME TypeOK, TypeOK', Numbered, Heard, NEW p \in Peers, NEW m, Takes(p, m),
           nextMessageId[p] <= nextMessageId'[p],
           \A x \in Elements(Pipe(p)') :
              \/ x \in Elements(Pipe(p)) \/ x \in Elements(buffer[p])
              \/ x = AckTo(p, m) /\ nextMessageId'[p] = nextMessageId[p] + 1
    PROVE  Numbered' /\ Heard'
  <1>0. /\ nextMessageId[p] \in Nat /\ nextMessageId[Peer(p)] \in Nat /\ Peer(p) \in Peers
        /\ nextMessageId'[p] \in Nat
    BY PeerProperties DEF TypeOK
  <1>1. AckTo(p, m).id = nextMessageId[p] /\ AckTo(p, m).ack = None /\ AckTo(p, m).re = m.id
    BY DEF AckTo, Envelope
  <1>2. m \in Elements(Pipe(Peer(p))) /\ m.id < nextMessageId[Peer(p)]
    BY <1>0 DEF Takes, Numbered
  <1>3. \A q \in Peers : nextMessageId[q] <= nextMessageId'[q]
    BY <1>0, TwoPeers DEF Takes
  <1>4. Elements(Pipe(Peer(p))') \subseteq Elements(Pipe(Peer(p)))
    BY DEF Takes
  <1>5. sent' = sent /\ Elements(buffer[p]) \subseteq sent[p]
    BY DEF Takes, Numbered
  <1>6. \A q \in Peers : Elements(buffer'[q]) \subseteq Elements(buffer[q])
    BY TwoPeers DEF Takes
  <1>7. Numbered'
    <2>1. \A q \in Peers : \/ nextMessageId'[q] > 0
                           \/ /\ handshakeId'[q] = handshakeId[q]
                              /\ remoteStarted'[q] = remoteStarted[q]
                              /\ running'[q] = running[q]
      <3>1. nextMessageId[p] > 0
        BY DEF Takes, Numbered
      <3> QED BY <1>0, <1>3, <3>1, TwoPeers DEF Takes
    <2>2. \A q \in Peers : \A x \in Elements(Pipe(q)') :
              \/ x \in Elements(Pipe(q)) \/ x \in sent'[q]
              \/ /\ nextMessageId[q] <= x.id /\ x.id < nextMessageId'[q]
                 /\ sent'[q] = sent[q]
      <3> SUFFICES ASSUME NEW q \in Peers, NEW x \in Elements(Pipe(q)'),
                          x \notin Elements(Pipe(q)), x \notin sent'[q]
                   PROVE  nextMessageId[q] <= x.id /\ x.id < nextMessageId'[q]
        BY <1>5
      <3>1. q = p
        BY <1>4, TwoPeers
      <3>2. x = AckTo(p, m) /\ nextMessageId'[p] = nextMessageId[p] + 1
        BY <1>5, <3>1
      <3> QED BY <1>0, <1>1, <3>1, <3>2
    <2>3. \A q \in Peers : sent[q] \subseteq sent'[q] /\ sent'[q] \subseteq sent[q]
      BY <1>5
    <2> QED BY <1>3, <1>6, <2>1, <2>2, <2>3, NumberedFrame
  <1>8. Heard'
    <2>1. \A q \in Peers : \/ maxReceived'[q] = maxReceived[q]
                           \/ maxReceived'[q] < nextMessageId[Peer(q)]
      BY <1>2, TwoPeers DEF Takes
    <2>2. \A q \in Peers : \A x \in Elements(running'[q]) :
              x \in Elements(running[q]) \/ x < nextMessageId[Peer(q)]
      BY <1>2, TwoPeers DEF Takes
    <2>3. \A q \in Peers : \A x \in Places(q)' :
              \/ x \in Places(q)
              \/ x.ack = None /\ x.re < nextMessageId[Peer(q)]
      <3> SUFFICES ASSUME NEW q \in Peers, NEW x \in Places(q)', x \notin Places(q)
                   PROVE  x.ack = None /\ x.re < nextMessageId[Peer(q)]
        OBVIOUS
      <3>1. q = p
        BY <1>4, <1>6, TwoPeers DEF Places
      <3>2. x = AckTo(p, m)
        BY <1>6, <3>1 DEF Places
      <3> QED BY <1>1, <1>2, <3>1, <3>2
    <2> QED BY <1>3, <2>1, <2>2, <2>3, HeardFrame
  <1> QED BY <1>7, <1>8

-----------------------------------------------------------------------------
(* What a step leaves of the parts of the invariant.                         *)

(* Envelopes only arrive at p's peer, and what p sends is numbered next. *)
Extends(p) ==
    /\ received[Peer(p)] \subseteq received'[Peer(p)]
    /\ \A e \in sent'[p] :
          e \in sent[p] \/ (e.id = nextMessageId[p] /\ nextMessageId[p] > 0)

(* An acknowledgement stays honest. *)
LEMMA HonestKeeps ==
    ASSUME TypeOK, NEW p \in Peers, Extends(p), NEW a \in Nat \cup {None},
           a # None => a = 0 \/ a < nextMessageId[p], Honest(p, a)
    PROVE  Honest(p, a)'
  <1> SUFFICES ASSUME a # None, NEW e \in sent'[p], e.id <= a
               PROVE  e.id \in received'[Peer(p)]
    BY DEF Honest
  <1>1. nextMessageId[p] \in Nat /\ a \in Nat
    BY DEF TypeOK
  <1>2. e \in sent[p]
    BY <1>1 DEF Extends
  <1> QED BY <1>2 DEF Honest, Extends

(* What was on its way, or arrives, stays accounted for. *)
LEMMA CompleteKeeps ==
    ASSUME NEW p \in Peers, Extends(p), Complete(p),
           \A e \in sent'[p] : e \in sent[p] \/ e \in Elements(Pipe(p)'),
           \A e \in sent[p] : e.id \in Ids(Pipe(p)) =>
              e.id \in Ids(Pipe(p)') \/ e.id \in received'[Peer(p)]
    PROVE  Complete(p)'
  <1> SUFFICES ASSUME NEW e \in sent'[p]
               PROVE  e.id \in received'[Peer(p)] \cup Ids(Pipe(p)')
    BY DEF Complete
  <1>1. CASE e \in Elements(Pipe(p)')
    BY <1>1 DEF Ids
  <1>2. CASE e \in sent[p]
    BY <1>2 DEF Complete, Extends
  <1> QED BY <1>1, <1>2

(* What was kept is kept, or has arrived. *)
LEMMA RetainedKeeps ==
    ASSUME NEW p \in Peers, Extends(p), Retained(p),
           \A e \in sent'[p] : e \in sent[p] \/ e \in Elements(buffer'[p]),
           \A e \in Elements(buffer[p]) :
              e \in Elements(buffer'[p]) \/ e.id \in received'[Peer(p)]
    PROVE  Retained(p)'
  BY DEF Retained, Extends

(* Every envelope of a pipe has an id of its own sender's counter. *)
LEMMA PipeIds ==
    ASSUME TypeOK, Numbered, NEW p \in Peers, NEW i \in 1 .. Len(Pipe(p))
    PROVE  /\ Pipe(p)[i].id \in Nat /\ Pipe(p)[i].id < nextMessageId[p]
           /\ \A e \in sent[p] : Pipe(p)[i].id = e.id => Pipe(p)[i].kind \in Buffered
  <1>1. Pipe(p)[i] \in Envelopes /\ Pipe(p)[i] \in Elements(Pipe(p))
    BY PipeType
  <1> QED BY <1>1, EnvelopeFields DEF Numbered

(* A pipe that grows covers what it did. *)
LEMMA CoveredGrows ==
    ASSUME TypeOK, Numbered, NEW p \in Peers, Extends(p), Grows(Pipe(p), Pipe(p)'),
           NEW i \in 1 .. Len(Pipe(p)), Covered(p, i)
    PROVE  Covered(p, i)'
  <1>0. Len(Pipe(p)) \in Nat
    BY PipeType
  <1>1. \A j \in 1 .. i : Pipe(p)'[j] = Pipe(p)[j]
    BY <1>0 DEF Grows
  <1>2. Pipe(p)'[i] = Pipe(p)[i]
    BY <1>1
  <1>3. Pipe(p)[i].id \in Nat /\ Pipe(p)[i].id < nextMessageId[p]
    BY PipeIds
  <1>4. nextMessageId[p] \in Nat
    BY DEF TypeOK
  <1> SUFFICES ASSUME NEW e \in sent'[p], e.id <= Pipe(p)'[i].id
               PROVE  e.id \in received'[Peer(p)] \/ \E j \in 1 .. i : Pipe(p)'[j].id = e.id
    BY DEF Covered
  <1>5. e \in sent[p]
    BY <1>2, <1>3, <1>4 DEF Extends
  <1>6. e.id \in received[Peer(p)] \/ \E j \in 1 .. i : Pipe(p)[j].id = e.id
    BY <1>2, <1>5 DEF Covered
  <1> QED BY <1>1, <1>6 DEF Extends

(* So does one whose first envelope arrives, or was never sent by the buffer. *)
LEMMA CoveredShifts ==
    ASSUME TypeOK, NEW p \in Peers, Extends(p), sent' = sent,
           Shifts(Pipe(p), Pipe(p)'), Len(Pipe(p)') \in Nat,
           \A e \in sent[p] : Pipe(p)[1].id = e.id => e.id \in received'[Peer(p)],
           NEW i \in 1 .. Len(Pipe(p)'), Covered(p, i + 1)
    PROVE  Covered(p, i)'
  <1>1. \A j \in 1 .. i : Pipe(p)'[j] = Pipe(p)[j + 1]
    BY DEF Shifts
  <1>2. Pipe(p)'[i] = Pipe(p)[i + 1]
    BY <1>1
  <1> SUFFICES ASSUME NEW e \in sent[p], e.id <= Pipe(p)'[i].id
               PROVE  e.id \in received'[Peer(p)] \/ \E j \in 1 .. i : Pipe(p)'[j].id = e.id
    BY DEF Covered
  <1>3. e.id \in received[Peer(p)] \/ \E j \in 1 .. i + 1 : Pipe(p)[j].id = e.id
    BY <1>2 DEF Covered
  <1>4. CASE e.id \in received[Peer(p)]
    BY <1>4 DEF Extends
  <1>5. ASSUME NEW j \in 1 .. i + 1, Pipe(p)[j].id = e.id
        PROVE  e.id \in received'[Peer(p)] \/ \E k \in 1 .. i : Pipe(p)'[k].id = e.id
    <2>1. CASE j = 1
      BY <1>5, <2>1
    <2>2. CASE j # 1
      <3>1. j - 1 \in 1 .. i /\ (j - 1) + 1 = j
        BY <2>2
      <3>2. Pipe(p)'[j - 1] = Pipe(p)[j]
        BY <1>1, <3>1
      <3> QED BY <1>5, <3>1, <3>2
    <2> QED BY <2>1, <2>2
  <1> QED BY <1>3, <1>4, <1>5

(* The last envelope of a complete pipe covers everything. *)
LEMMA CoveredLast ==
    ASSUME NEW p \in Peers, Complete(p)', NEW n, n = Len(Pipe(p)')
    PROVE  Covered(p, n)'
  <1> SUFFICES ASSUME NEW e \in sent'[p]
               PROVE  e.id \in received'[Peer(p)] \/ \E j \in 1 .. n : Pipe(p)'[j].id = e.id
    BY DEF Covered
  <1> QED BY DEF Complete, Ids, Elements

(* What p's peer may still acknowledge. *)
Acks(p) == {maxReceived[p], None} \cup {m.ack : m \in Places(p)}

(* What p acknowledges are ids its peer has used: they stay honest. *)
LEMMA AcksKeep ==
    ASSUME TypeOK, Heard, NEW p \in Peers, Extends(p), NEW a \in Acks(Peer(p)), Honest(p, a)
    PROVE  Honest(p, a)'
  <1>0. Peer(p) \in Peers /\ Peer(Peer(p)) = p
    BY PeerProperties
  <1>1. \A m \in Places(Peer(p)) : m \in Envelopes
    <2>1. buffer[Peer(p)] \in Seq(Envelopes) /\ Pipe(Peer(p)) \in Seq(Envelopes)
      BY <1>0, PipeType
    <2> QED BY <2>1, ElementOfSeq DEF Places, Elements
  <1>2. a \in Nat \cup {None}
    BY <1>0, <1>1, EnvelopeFields DEF Acks, TypeOK
  <1>3. a # None => a = 0 \/ a < nextMessageId[p]
    BY <1>0 DEF Acks, Heard
  <1> QED BY <1>2, <1>3, HonestKeeps

(* The inbox is the front of the pipe. *)
LEMMA InboxWithin ==
    ASSUME TypeOK, NEW p \in Peers
    PROVE  /\ Len(inbox[Peer(p)]) <= Len(Pipe(p)) /\ Len(inbox[Peer(p)]) \in Nat
           /\ Len(Pipe(p)) \in Nat
  <1>1. /\ Len(Pipe(p)) = Len(inbox[Peer(p)]) + Len(outgoing[p])
        /\ Len(inbox[Peer(p)]) \in Nat /\ Len(outgoing[p]) \in Nat
    BY PipeType
  <1>2. \A x, y, z \in Nat : x = y + z => y <= x
    OBVIOUS
  <1>3. Len(Pipe(p)) \in Nat
    BY PipeType
  <1> QED BY <1>1, <1>2, <1>3, Zenon

(* The ack_id of an envelope that stays in a pipe stays honest. *)
LEMMA PipeHonest ==
    ASSUME TypeOK, Heard, NEW p \in Peers, Extends(Peer(p)), NEW i \in 1 .. Len(Pipe(p)),
           NEW j, Pipe(p)'[j] = Pipe(p)[i], Honest(Peer(p), Pipe(p)[i].ack)
    PROVE  Honest(Peer(p), Pipe(p)[j].ack)'
  <1>1. PICK a : a = Pipe(p)[i].ack
    OBVIOUS
  <1>2. a \in Acks(p) /\ Peer(p) \in Peers /\ Peer(Peer(p)) = p
    BY <1>1, PipeType, PeerProperties DEF Acks, Places
  <1>3. Honest(Peer(p), a)'
    BY <1>1, <1>2, AcksKeep
  <1> QED BY <1>1, <1>3 DEF Honest

(* So does max_received when it is left alone. *)
LEMMA WatermarkKeeps ==
    ASSUME TypeOK, Heard, NEW p \in Peers, Extends(Peer(p)),
           maxReceived'[p] = maxReceived[p], Honest(Peer(p), maxReceived[p])
    PROVE  Honest(Peer(p), maxReceived[p])'
  <1>1. PICK a : a = maxReceived[p]
    OBVIOUS
  <1>2. a \in Acks(p) /\ Peer(p) \in Peers /\ Peer(Peer(p)) = p
    BY <1>1, PeerProperties DEF Acks
  <1>3. Honest(Peer(p), a)'
    BY <1>1, <1>2, AcksKeep
  <1> QED BY <1>1, <1>3 DEF Honest

(* The ack_ids p may send stay honest if it adds only what it may stamp. *)
LEMMA PlacesHonest ==
    ASSUME TypeOK, Heard, NEW p \in Peers, Extends(Peer(p)),
           \A m \in Places(p) : Honest(Peer(p), m.ack),
           \A m \in Places(p)' : \/ m \in Places(p) \/ m.ack = None
                                 \/ m.ack = maxReceived[p] /\ Honest(Peer(p), maxReceived[p])
    PROVE  \A m \in Places(p)' : Honest(Peer(p), m.ack)'
  <1> SUFFICES ASSUME NEW m \in Places(p)' PROVE Honest(Peer(p), m.ack)'
    OBVIOUS
  <1>1. Peer(p) \in Peers /\ Peer(Peer(p)) = p
    BY PeerProperties
  <1>2. CASE m.ack = None
    BY <1>2 DEF Honest
  <1>3. CASE m.ack # None
    <2>1. m.ack \in Acks(p) /\ Honest(Peer(p), m.ack)
      BY <1>3 DEF Acks
    <2> QED BY <1>1, <2>1, AcksKeep
  <1> QED BY <1>2, <1>3

(* The flush keeps its place when the client's pipe grows ... *)
LEMMA AskedGrows ==
    ASSUME TypeOK, TypeOK', Numbered, Heard, Extends("client"), Extends("server"),
           Grows(Pipe("client"), Pipe("client")'), Len(Pipe("client")') \in Nat,
           resync' = resync,
           \A i \in 1 .. Len(Pipe("client")') : i \in 1 .. Len(Pipe("client")) \/
              (Pipe("client")'[i].kind # "flush" /\ Pipe("client")'[i].id # resync.flush),
           NEW k \in 1 .. Len(Pipe("client")), Asked(k)
    PROVE  k \in 1 .. Len(Pipe("client")') /\ Asked(k)'
  <1>0. "client" \in Peers /\ Peer("client") = "server"
    BY DEF Peers, Peer
  <1>1. /\ Len(Pipe("client")) \in Nat /\ Len(Pipe("client")) <= Len(Pipe("client")')
        /\ \A i \in 1 .. Len(Pipe("client")) : Pipe("client")'[i] = Pipe("client")[i]
    BY <1>0, PipeType DEF Grows
  <1>2. \A i \in 1 .. k : Honest("server", Pipe("client")[i].ack)
             => Honest("server", Pipe("client")[i].ack)'
    <2> SUFFICES ASSUME NEW i \in 1 .. k, Honest("server", Pipe("client")[i].ack)
                 PROVE  Honest("server", Pipe("client")[i].ack)'
      OBVIOUS
    <2>1. i \in 1 .. Len(Pipe("client"))
      BY <1>1
    <2>2. Pipe("client")'[i] = Pipe("client")[i]
      BY <1>1, <2>1
    <2> QED BY <1>0, <2>1, <2>2, PipeHonest
  <1>3. \A i \in 1 .. Len(Pipe("client")') : i # k =>
           Pipe("client")'[i].kind # "flush" /\ Pipe("client")'[i].id # resync.flush
    BY <1>1 DEF Asked
  <1>4. \A i \in 1 .. Len(Pipe("client")) : Covered("client", i) => Covered("client", i)'
    BY <1>0, CoveredGrows
  <1>5. \A i \in 1 .. k - 1 :
           /\ Pipe("client")'[i].kind = "started" \/ Covered("client", i)'
           /\ Honest("server", Pipe("client")[i].ack)'
    BY <1>1, <1>2, <1>4 DEF Asked
  <1>6. Pipe("client")'[k].kind = "flush" /\ Pipe("client")'[k].id = resync.flush
        /\ Honest("server", Pipe("client")[k].ack)'
    BY <1>1, <1>2 DEF Asked
  <1> QED BY <1>1, <1>3, <1>5, <1>6 DEF Asked

(* ... and comes one place nearer when the server reads what is before it. *)
LEMMA AskedShifts ==
    ASSUME TypeOK, TypeOK', Numbered, Heard, Extends("server"),
           Len(Pipe("client")') \in Nat, Len(Pipe("client")) = Len(Pipe("client")') + 1,
           \A i \in 1 .. Len(Pipe("client")') : Pipe("client")'[i] = Pipe("client")[i + 1],
           \A i \in 1 .. Len(Pipe("client")') : Covered("client", i + 1) => Covered("client", i)',
           resync' = resync, NEW k \in 2 .. Len(Pipe("client")), Asked(k)
    PROVE  k - 1 \in 1 .. Len(Pipe("client")') /\ Asked(k - 1)'
  <1>0. "client" \in Peers /\ Peer("client") = "server"
    BY DEF Peers, Peer
  <1>1. k - 1 \in 1 .. Len(Pipe("client")') /\ (k - 1) + 1 = k
    OBVIOUS
  <1>2. \A i \in 1 .. k - 1 : Honest("server", Pipe("client")[i + 1].ack)
             => Honest("server", Pipe("client")[i].ack)'
    <2> SUFFICES ASSUME NEW i \in 1 .. k - 1, Honest("server", Pipe("client")[i + 1].ack)
                 PROVE  Honest("server", Pipe("client")[i].ack)'
      OBVIOUS
    <2>1. i + 1 \in 1 .. Len(Pipe("client")) /\ i \in 1 .. Len(Pipe("client")')
      OBVIOUS
    <2>2. Pipe("client")'[i] = Pipe("client")[i + 1]
      BY <2>1
    <2> QED BY <1>0, <2>1, <2>2, PipeHonest
  <1>3. \A i \in 1 .. Len(Pipe("client")') : i # k - 1 =>
           Pipe("client")'[i].kind # "flush" /\ Pipe("client")'[i].id # resync.flush
    <2> SUFFICES ASSUME NEW i \in 1 .. Len(Pipe("client")'), i # k - 1
                 PROVE  /\ Pipe("client")'[i].kind # "flush"
                        /\ Pipe("client")'[i].id # resync.flush
      OBVIOUS
    <2>1. i + 1 \in 1 .. Len(Pipe("client")) /\ i + 1 # k
      OBVIOUS
    <2> QED BY <2>1 DEF Asked
  <1>4. \A i \in 1 .. (k - 1) - 1 :
           /\ Pipe("client")'[i].kind = "started" \/ Covered("client", i)'
           /\ Honest("server", Pipe("client")[i].ack)'
    <2> SUFFICES ASSUME NEW i \in 1 .. (k - 1) - 1
                 PROVE  /\ Pipe("client")'[i].kind = "started" \/ Covered("client", i)'
                        /\ Honest("server", Pipe("client")[i].ack)'
      OBVIOUS
    <2>1. i + 1 \in 1 .. k - 1 /\ i \in 1 .. Len(Pipe("client")') /\ i \in 1 .. k - 1
      OBVIOUS
    <2>2. /\ Pipe("client")[i + 1].kind = "started" \/ Covered("client", i + 1)
          /\ Honest("server", Pipe("client")[i + 1].ack)
      BY <2>1 DEF Asked
    <2> QED BY <1>2, <2>1, <2>2
  <1>5. Pipe("client")'[k - 1].kind = "flush" /\ Pipe("client")'[k - 1].id = resync.flush
        /\ Honest("server", Pipe("client")[k - 1].ack)'
    <2>1. Pipe("client")'[k - 1] = Pipe("client")[k]
      BY <1>1
    <2>2. k - 1 \in 1 .. k - 1
      BY <1>1
    <2> QED BY <1>1, <1>2, <2>1, <2>2 DEF Asked
  <1> QED BY <1>1, <1>3, <1>4, <1>5 DEF Asked

(* The same for the Ack of the flush: behind it all is covered. *)
LEMMA ReplayedGrows ==
    ASSUME TypeOK, TypeOK', Numbered, Heard, Extends("client"), Extends("server"),
           Grows(Pipe("server"), Pipe("server")'), Len(Pipe("server")') \in Nat,
           resync' = resync,
           \A i \in 1 .. Len(Pipe("server")') :
              i \in 1 .. Len(Pipe("server")) \/ Covered("server", i)',
           NEW k \in 1 .. Len(Pipe("server")), Replayed(k)
    PROVE  k \in 1 .. Len(Pipe("server")') /\ Replayed(k)'
  <1>0. "server" \in Peers /\ Peer("server") = "client"
    BY DEF Peers, Peer
  <1>1. /\ Len(Pipe("server")) \in Nat /\ Len(Pipe("server")) <= Len(Pipe("server")')
        /\ \A i \in 1 .. Len(Pipe("server")) : Pipe("server")'[i] = Pipe("server")[i]
    BY <1>0, PipeType DEF Grows
  <1>2. \A i \in 1 .. k - 1 : Honest("client", Pipe("server")[i].ack)'
    <2> SUFFICES ASSUME NEW i \in 1 .. k - 1
                 PROVE  Honest("client", Pipe("server")[i].ack)'
      OBVIOUS
    <2>1. i \in 1 .. Len(Pipe("server"))
      BY <1>1
    <2>2. Pipe("server")'[i] = Pipe("server")[i] /\ Honest("client", Pipe("server")[i].ack)
      BY <1>1, <2>1 DEF Replayed
    <2> QED BY <1>0, <2>1, <2>2, PipeHonest
  <1>3. \A i \in 1 .. Len(Pipe("server")) : Covered("server", i) => Covered("server", i)'
    BY <1>0, CoveredGrows
  <1>4. \A i \in k .. Len(Pipe("server")') : Covered("server", i)'
    BY <1>1, <1>3 DEF Replayed
  <1>5. \A i \in 1 .. k - 1 : Pipe("server")'[i].re # resync'.flush
    BY <1>1 DEF Replayed
  <1>6. /\ Pipe("server")'[k].kind = "ack" /\ Pipe("server")'[k].re = resync'.flush
        /\ Pipe("server")'[k].ack = None
    BY <1>1 DEF Replayed
  <1> QED BY <1>1, <1>2, <1>4, <1>5, <1>6 DEF Replayed

(* It comes nearer as the client reads. *)
LEMMA ReplayedShifts ==
    ASSUME TypeOK, TypeOK', Numbered, Heard, Extends("client"),
           Len(Pipe("server")') \in Nat, Len(Pipe("server")) = Len(Pipe("server")') + 1,
           \A i \in 1 .. Len(Pipe("server")') : Pipe("server")'[i] = Pipe("server")[i + 1],
           \A i \in 1 .. Len(Pipe("server")') : Covered("server", i + 1) => Covered("server", i)',
           resync' = resync, NEW k \in 2 .. Len(Pipe("server")), Replayed(k)
    PROVE  k - 1 \in 1 .. Len(Pipe("server")') /\ Replayed(k - 1)'
  <1>0. "server" \in Peers /\ Peer("server") = "client"
    BY DEF Peers, Peer
  <1>1. k - 1 \in 1 .. Len(Pipe("server")') /\ (k - 1) + 1 = k
    OBVIOUS
  <1>2. \A i \in 1 .. (k - 1) - 1 :
           Pipe("server")'[i].re # resync'.flush /\ Honest("client", Pipe("server")[i].ack)'
    <2> SUFFICES ASSUME NEW i \in 1 .. (k - 1) - 1
                 PROVE  /\ Pipe("server")'[i].re # resync'.flush
                        /\ Honest("client", Pipe("server")[i].ack)'
      OBVIOUS
    <2>1. /\ i + 1 \in 1 .. k - 1 /\ i \in 1 .. Len(Pipe("server")')
          /\ i + 1 \in 1 .. Len(Pipe("server"))
      OBVIOUS
    <2>2. /\ Pipe("server")'[i] = Pipe("server")[i + 1]
          /\ Pipe("server")[i + 1].re # resync.flush
          /\ Honest("client", Pipe("server")[i + 1].ack)
      BY <2>1 DEF Replayed
    <2> QED BY <1>0, <2>1, <2>2, PipeHonest
  <1>3. \A i \in k - 1 .. Len(Pipe("server")') : Covered("server", i)'
    <2> SUFFICES ASSUME NEW i \in k - 1 .. Len(Pipe("server")') PROVE Covered("server", i)'
      OBVIOUS
    <2>1. i + 1 \in k .. Len(Pipe("server")) /\ i \in 1 .. Len(Pipe("server")')
      OBVIOUS
    <2> QED BY <2>1 DEF Replayed
  <1>4. /\ Pipe("server")'[k - 1].kind = "ack" /\ Pipe("server")'[k - 1].re = resync'.flush
        /\ Pipe("server")'[k - 1].ack = None
    <2>1. Pipe("server")'[k - 1] = Pipe("server")[k]
      BY <1>1
    <2> QED BY <2>1 DEF Replayed
  <1> QED BY <1>1, <1>2, <1>3, <1>4 DEF Replayed

-----------------------------------------------------------------------------
(* A step that sends.                                                        *)

(* It takes nothing away from either pipe or buffer. *)
LEMMA SendFrame ==
    ASSUME TypeOK, TypeOK', Numbered, NEW p \in Peers, NEW e, SendsOne(p, e), NEW q \in Peers
    PROVE  /\ Extends(q) /\ Grows(Pipe(q), Pipe(q)') /\ Len(Pipe(q)) \in Nat
           /\ Len(Pipe(q)') \in Nat /\ Len(Pipe(q)) <= Len(Pipe(q)')
           /\ \A i \in 1 .. Len(Pipe(q)) : Pipe(q)'[i] = Pipe(q)[i]
           /\ \A i \in 1 .. Len(Pipe(q)') : i \in 1 .. Len(Pipe(q)) \/
                 (q = p /\ i = Len(Pipe(q)') /\ Pipe(q)'[i] = e)
           /\ \A x \in Elements(Pipe(q)') : x \in Elements(Pipe(q)) \/ (q = p /\ x = e)
           /\ \A x \in Places(q)' : x \in Places(q) \/ (q = p /\ x = e)
           /\ Complete(q) => Complete(q)'
           /\ Retained(q) => Retained(q)'
           /\ \A i \in 1 .. Len(Pipe(q)) : Covered(q, i) => Covered(q, i)'
           /\ Complete(q) => \A i \in 1 .. Len(Pipe(q)') :
                 i \in 1 .. Len(Pipe(q)) \/ Covered(q, i)'
  <1>0. Pipe(q) \in Seq(Envelopes) /\ Pipe(p) \in Seq(Envelopes) /\ e \in Envelopes
    BY PipeType DEF SendsOne
  <1>1. \/ q = p /\ Pipe(q)' = Pipe(q) \o <<e>>
        \/ q = Peer(p) /\ q # p /\ Pipe(q)' = Pipe(q)
    BY TwoPeers, PeerProperties DEF SendsOne
  <1>2. /\ Grows(Pipe(q), Pipe(q)') /\ Len(Pipe(q)) \in Nat /\ Len(Pipe(q)') \in Nat
        /\ Len(Pipe(q)') = Len(Pipe(q)) \/
              (q = p /\ Len(Pipe(q)') = Len(Pipe(q)) + 1 /\ Pipe(q)'[Len(Pipe(q)')] = e)
        /\ Elements(Pipe(q)') = Elements(Pipe(q)) \/
              (q = p /\ Elements(Pipe(q)') = Elements(Pipe(q)) \cup {e})
    <2>1. CASE q = p /\ Pipe(q)' = Pipe(q) \o <<e>>
      <3> DEFINE w == Pipe(q)
                 v == Pipe(q)'
      <3>1. w \in Seq(Envelopes) /\ v = w \o <<e>>
        BY <1>0, <2>1
      <3> HIDE DEF w, v
      <3>2. /\ Grows(w, v) /\ Len(v) = Len(w) + 1 /\ Len(w) \in Nat
            /\ v[Len(w) + 1] = e /\ Elements(v) = Elements(w) \cup {e}
        BY <1>0, <3>1, OneMore
      <3>3. Len(v) \in Nat /\ v[Len(v)] = e
        BY <3>2
      <3> QED BY <2>1, <3>2, <3>3 DEF w, v
    <2>2. CASE q = Peer(p) /\ Pipe(q)' = Pipe(q)
      <3>1. Len(Pipe(q)) \in Nat
        BY PipeType
      <3> QED BY <2>2, <3>1 DEF Grows
    <2> QED BY <1>1, <2>1, <2>2
  <1>3. Extends(q)
    BY TwoPeers DEF Extends, SendsOne
  <1>4. /\ \A i \in 1 .. Len(Pipe(q)) : Pipe(q)'[i] = Pipe(q)[i]
        /\ Len(Pipe(q)) <= Len(Pipe(q)')
    BY <1>2 DEF Grows
  <1>5. \A i \in 1 .. Len(Pipe(q)') : i \in 1 .. Len(Pipe(q)) \/
           (q = p /\ i = Len(Pipe(q)') /\ Pipe(q)'[i] = e)
    BY <1>2
  <1>6. \A x \in Elements(Pipe(q)') : x \in Elements(Pipe(q)) \/ (q = p /\ x = e)
    BY <1>2
  <1>7. \A x \in Places(q)' : x \in Places(q) \/ (q = p /\ x = e)
    BY <1>6, TwoPeers DEF Places, SendsOne
  <1>8. \A x \in sent'[q] : x \in sent[q] \/
           (x \in Elements(Pipe(q)') /\ x \in Elements(buffer'[q]))
    <2>1. \A x \in sent'[q] : x \in sent[q] \/ (q = p /\ x = e /\ x \in Elements(buffer'[q]))
      BY TwoPeers DEF SendsOne
    <2>2. q = p => e \in Elements(Pipe(q)')
      <3> SUFFICES ASSUME q = p PROVE e \in Elements(Pipe(q)')
        OBVIOUS
      <3>1. Elements(Pipe(p) \o <<e>>) = Elements(Pipe(p)) \cup {e}
        BY <1>0, OneMore
      <3> QED BY <1>1, <3>1
    <2> QED BY <2>1, <2>2
  <1>9. Elements(Pipe(q)) \subseteq Elements(Pipe(q)')
    BY <1>2
  <1>10. Complete(q) => Complete(q)'
    <2>1. \A x \in sent[q] : x.id \in Ids(Pipe(q)) => x.id \in Ids(Pipe(q)')
      BY <1>9 DEF Ids
    <2> QED BY <1>3, <1>8, <2>1, CompleteKeeps
  <1>11. Retained(q) => Retained(q)'
    <2>1. Elements(buffer[q]) \subseteq Elements(buffer'[q])
      BY TwoPeers DEF SendsOne
    <2> QED BY <1>3, <1>8, <2>1, RetainedKeeps
  <1>12. \A i \in 1 .. Len(Pipe(q)) : Covered(q, i) => Covered(q, i)'
    BY <1>2, <1>3, CoveredGrows
  <1>13. Complete(q) => \A i \in 1 .. Len(Pipe(q)') :
            i \in 1 .. Len(Pipe(q)) \/ Covered(q, i)'
    BY <1>5, <1>10, CoveredLast
  <1> QED BY <1>2, <1>3, <1>4, <1>5, <1>6, <1>7, <1>10, <1>11, <1>12, <1>13

(* Each phase of a resync goes on. *)
LEMMA SendPhase ==
    ASSUME TypeOK, TypeOK', ResyncInv, NEW p \in Peers, NEW e, SendsOne(p, e)
    PROVE  ResyncInv'
  <1>0. Numbered /\ Heard /\ OneOutage /\ "client" \in Peers /\ "server" \in Peers
        /\ Peer("client") = "server" /\ Peer("server") = "client"
    BY DEF ResyncInv, Peers, Peer
  <1>1. Numbered' /\ Heard'
    BY <1>0, SendIds
  <1>2. /\ e.kind # "flush" /\ e.ack \in {None, maxReceived[p]} /\ e.id = nextMessageId[p]
        /\ e.re = None \/ e.re \in Elements(running[p])
        /\ maxReceived' = maxReceived /\ link' = link /\ resync' = resync
        /\ outages' = outages /\ draft' = draft /\ inbox' = inbox
        /\ \A q \in Peers : handshakeId[q] # None => handshakeId'[q] = handshakeId[q]
        /\ \A q \in Peers : Elements(running'[q]) \subseteq Elements(running[q])
    BY TwoPeers DEF SendsOne
  <1>3. OneOutage'
    <2>1. \A m \in Elements(Pipe("server")') : m.kind # "flush"
      BY <1>0, <1>2, SendFrame DEF OneOutage
    <2> QED BY <1>0, <1>2, <2>1 DEF OneOutage
  <1>4. NoFlush => NoFlush'
    BY <1>0, <1>2, SendFrame DEF NoFlush
  <1>6. \A q \in Peers : \A m \in Places(q)' : m \in Places(q) \/ (q = p /\ m = e)
    BY <1>0, SendFrame
  <1>7. \A q \in Peers : Honest(Peer(q), maxReceived[q]) => Honest(Peer(q), maxReceived[q])'
    BY <1>2, PeerProperties, SendFrame, WatermarkKeeps, <1>0
  <1>8. ASSUME NEW q \in Peers, Honest(Peer(q), maxReceived[q]),
               \A m \in Places(q) : Honest(Peer(q), m.ack)
        PROVE  \A m \in Places(q)' : Honest(Peer(q), m.ack)'
    <2>1. \A m \in Places(q)' : \/ m \in Places(q) \/ m.ack = None
                                \/ m.ack = maxReceived[q] /\ Honest(Peer(q), maxReceived[q])
      BY <1>2, <1>6, <1>8
    <2>2. Extends(Peer(q))
      BY <1>0, PeerProperties, SendFrame
    <2> QED BY <1>0, <1>8, <2>1, <2>2, PlacesHonest
  <1>9. CASE BeforeResync
    <2>1. \A q \in Peers : /\ Honest(Peer(q), maxReceived[q])'
                           /\ \A m \in Places(q)' : Honest(Peer(q), m.ack)'
      BY <1>7, <1>8, <1>9 DEF BeforeResync
    <2>2. Retained("client")' /\ Retained("server")' /\ Complete("client")' /\ NoFlush'
      BY <1>0, <1>4, <1>9, SendFrame DEF BeforeResync
    <2>3. \A i \in 1 .. Len(Pipe("client")') : Covered("client", i)'
      BY <1>0, <1>9, SendFrame DEF BeforeResync
    <2>4. \A i \in 1 .. Len(inbox'["client"]) : Covered("server", i)'
      <3>1. Len(inbox["client"]) <= Len(Pipe("server")) /\ Len(inbox["client"]) \in Nat
            /\ Len(Pipe("server")) \in Nat
        BY <1>0, InboxWithin
      <3> QED BY <1>0, <1>2, <1>9, <3>1, SendFrame DEF BeforeResync
    <2>5. link' = "up" => Complete("server")' /\
             \A i \in 1 .. Len(Pipe("server")') : Covered("server", i)'
      BY <1>0, <1>2, <1>9, SendFrame DEF BeforeResync
    <2>6. BeforeResync'
      BY <1>2, <1>9, <2>1, <2>2, <2>3, <2>4, <2>5 DEF BeforeResync
    <2> QED BY <1>1, <1>3, <2>6 DEF ResyncInv
  <1>10. CASE FlushAsked
    <2>1. Retained("client")' /\ Retained("server")' /\ resync'.status = "waiting"
      BY <1>0, <1>2, <1>10, SendFrame DEF FlushAsked
    <2>2. Honest("client", maxReceived["server"])'
      BY <1>0, <1>7, <1>10 DEF FlushAsked
    <2>3. \A m \in Places("server")' : Honest("client", m.ack)'
      BY <1>0, <1>8, <1>10 DEF FlushAsked
    <2>4. \A m \in Places("server")' : m.re # resync'.flush
      <3>1. resync.flush # None
        BY <1>0, <1>10, PipeIds, BoundsAssumption DEF FlushAsked, Asked
      <3> QED BY <1>0, <1>2, <1>6, <1>10, <3>1 DEF FlushAsked
    <2>5. \A x \in Elements(running'["server"]) : x # resync'.flush
      BY <1>0, <1>2, <1>10 DEF FlushAsked
    <2>6. PICK k \in 1 .. Len(Pipe("client")) : Asked(k)
      BY <1>10 DEF FlushAsked
    <2>7. k \in 1 .. Len(Pipe("client")') /\ Asked(k)'
      <3>1. p = "client" => e.id # resync.flush
        <4>1. Pipe("client")[k].id = resync.flush /\ Pipe("client")[k].id < nextMessageId["client"]
              /\ Pipe("client")[k].id \in Nat
          BY <1>0, <2>6, PipeIds DEF Asked
        <4> QED BY <1>2, <4>1
      <3>2. \A i \in 1 .. Len(Pipe("client")') : i \in 1 .. Len(Pipe("client")) \/
               (Pipe("client")'[i].kind # "flush" /\ Pipe("client")'[i].id # resync.flush)
        BY <1>0, <1>2, <3>1, SendFrame
      <3>3. /\ Extends("client") /\ Extends("server") /\ Len(Pipe("client")') \in Nat
            /\ Grows(Pipe("client"), Pipe("client")')
        BY <1>0, SendFrame
      <3> QED BY <1>0, <1>2, <2>6, <3>2, <3>3, AskedGrows
    <2>8. FlushAsked'
      BY <2>1, <2>2, <2>3, <2>4, <2>5, <2>7 DEF FlushAsked
    <2> QED BY <1>1, <1>3, <2>8 DEF ResyncInv
  <1>11. CASE FlushReplayed
    <2>1. Retained("client")' /\ Complete("server")' /\ NoFlush' /\ resync'.status = "waiting"
      BY <1>0, <1>2, <1>4, <1>11, SendFrame DEF FlushReplayed
    <2>2. PICK k \in 1 .. Len(Pipe("server")) : Replayed(k)
      BY <1>11 DEF FlushReplayed
    <2>3. \A i \in 1 .. Len(Pipe("server")') :
             i \in 1 .. Len(Pipe("server")) \/ Covered("server", i)'
      BY <1>0, <1>11, SendFrame DEF FlushReplayed
    <2>4. /\ Extends("client") /\ Extends("server") /\ Len(Pipe("server")') \in Nat
          /\ Grows(Pipe("server"), Pipe("server")')
      BY <1>0, SendFrame
    <2>8. k \in 1 .. Len(Pipe("server")') /\ Replayed(k)'
      BY <1>0, <1>2, <2>2, <2>3, <2>4, ReplayedGrows
    <2>9. FlushReplayed'
      BY <2>1, <2>8 DEF FlushReplayed
    <2> QED BY <1>1, <1>3, <2>9 DEF ResyncInv
  <1>12. CASE Resynced
    <2>1. /\ Complete("client")' /\ Complete("server")' /\ NoFlush'
          /\ resync'.status = "done" /\ Honest("server", maxReceived["client"])'
      BY <1>0, <1>2, <1>4, <1>7, <1>12, SendFrame DEF Resynced
    <2>2. \A i \in 1 .. Len(Pipe("server")') : Covered("server", i)'
      BY <1>0, <1>12, SendFrame DEF Resynced
    <2>3. Resynced'
      BY <2>1, <2>2 DEF Resynced
    <2> QED BY <1>1, <1>3, <2>3 DEF ResyncInv
  <1> QED BY <1>9, <1>10, <1>11, <1>12 DEF ResyncInv

-----------------------------------------------------------------------------
(* A step that reads.                                                        *)

(* The first envelope of the peer's pipe is gone; if it was one from the     *)
(* buffer it has arrived.  The reader's own pipe only grows.                 *)
LEMMA TakeFrame ==
    ASSUME TypeOK, TypeOK', Numbered, NEW p \in Peers, NEW m, Takes(p, m),
           Grows(Pipe(p), Pipe(p)')
    PROVE  /\ \A q \in Peers : Extends(q)
           /\ \A q \in Peers : Complete(q) => Complete(q)'
           /\ Retained(Peer(p)) => Retained(Peer(p))'
           /\ Retained(p) /\ Honest(p, m.ack) => Retained(p)'
           /\ \A i \in 1 .. Len(Pipe(p)) : Covered(p, i) => Covered(p, i)'
           /\ \A i \in 1 .. Len(Pipe(Peer(p))') : Covered(Peer(p), i + 1) => Covered(Peer(p), i)'
           /\ m.id \in received'[p] /\ Covered(Peer(p), 1) => Honest(Peer(p), m.id)'
           /\ m \in Places(Peer(p)) /\ Places(Peer(p))' \subseteq Places(Peer(p))
           /\ Len(Pipe(Peer(p))') \in Nat /\ Len(Pipe(Peer(p))) = Len(Pipe(Peer(p))') + 1
           /\ \A i \in 1 .. Len(Pipe(Peer(p))') : Pipe(Peer(p))'[i] = Pipe(Peer(p))[i + 1]
           /\ m = Pipe(Peer(p))[1]
  <1>0. Peer(p) \in Peers /\ Peer(Peer(p)) = p /\ sent' = sent
    BY PeerProperties DEF Takes
  <1>1. ASSUME NEW q \in Peers PROVE Extends(q)
    <2>1. \A r \in Peers : received[r] \subseteq received'[r]
      BY TwoPeers DEF Takes
    <2> QED BY <1>0, <2>1, PeerProperties DEF Extends
  <1>2. m.kind \in Buffered => m.id \in received'[p]
    BY DEF Takes
  <1>3. Elements(Pipe(Peer(p))) = {m} \cup Elements(Pipe(Peer(p))')
    BY DEF Takes
  <1>4. \A e \in sent[Peer(p)] : m.id = e.id => e.id \in received'[p]
    BY <1>0, <1>2, <1>3 DEF Numbered
  <1>5. Elements(Pipe(p)) \subseteq Elements(Pipe(p)')
    <2>1. Len(Pipe(p)) \in Nat /\ Len(Pipe(p)') \in Nat
      <3>1. Pipe(p)' \in Seq(Envelopes)
        BY PeerProperties, ConcatProperties DEF Pipe, TypeOK
      <3> QED BY <3>1, PipeType, LenProperties
    <2> QED BY <2>1 DEF Grows, Elements
  <1>6. Complete(p) => Complete(p)'
    <2>1. \A e \in sent[p] : e.id \in Ids(Pipe(p)) => e.id \in Ids(Pipe(p)')
      BY <1>5 DEF Ids
    <2> QED BY <1>0, <1>1, <2>1, CompleteKeeps
  <1>7. Complete(Peer(p)) => Complete(Peer(p))'
    <2>1. \A e \in sent[Peer(p)] : e.id \in Ids(Pipe(Peer(p))) =>
             e.id \in Ids(Pipe(Peer(p))') \/ e.id \in received'[p]
      BY <1>3, <1>4 DEF Ids
    <2> QED BY <1>0, <1>1, <2>1, CompleteKeeps
  <1>8. Retained(Peer(p)) => Retained(Peer(p))'
    <2>1. buffer'[Peer(p)] = buffer[Peer(p)]
      BY DEF Takes
    <2> QED BY <1>0, <1>1, <2>1, RetainedKeeps
  <1>9. Retained(p) /\ Honest(p, m.ack) => Retained(p)'
    <2> SUFFICES ASSUME Retained(p), Honest(p, m.ack) PROVE Retained(p)'
      OBVIOUS
    <2>1. \A e \in Elements(buffer[p]) : e \in Elements(buffer'[p]) \/ e.id \in received[Peer(p)]
      BY DEF Takes, Honest, Numbered
    <2>2. \A e \in Elements(buffer[p]) : e \in Elements(buffer'[p]) \/ e.id \in received'[Peer(p)]
      BY <1>1, <2>1 DEF Extends
    <2> QED BY <1>0, <1>1, <2>2, RetainedKeeps
  <1>10. \A i \in 1 .. Len(Pipe(p)) : Covered(p, i) => Covered(p, i)'
    BY <1>1, CoveredGrows
  <1>11. /\ Len(Pipe(Peer(p))') \in Nat /\ Len(Pipe(Peer(p))) = Len(Pipe(Peer(p))') + 1
         /\ \A i \in 1 .. Len(Pipe(Peer(p))') : Pipe(Peer(p))'[i] = Pipe(Peer(p))[i + 1]
    <2>1. Pipe(Peer(p))' \in Seq(Envelopes)
      BY <1>0, ConcatProperties DEF Pipe, TypeOK
    <2> QED BY <2>1, LenProperties DEF Takes, Shifts
  <1>12. m = Pipe(Peer(p))[1] /\ Shifts(Pipe(Peer(p)), Pipe(Peer(p))')
    BY DEF Takes
  <1>13. \A i \in 1 .. Len(Pipe(Peer(p))') : Covered(Peer(p), i + 1) => Covered(Peer(p), i)'
    BY <1>0, <1>1, <1>4, <1>11, <1>12, CoveredShifts
  <1>14. m.id \in received'[p] /\ Covered(Peer(p), 1) => Honest(Peer(p), m.id)'
    <2> SUFFICES ASSUME m.id \in received'[p], Covered(Peer(p), 1), NEW e \in sent[Peer(p)],
                        e.id <= m.id
                 PROVE  e.id \in received'[p]
      BY <1>0 DEF Honest
    <2>1. e.id \in received[p] \/ \E j \in 1 .. 1 : Pipe(Peer(p))[j].id = e.id
      BY <1>0, <1>12 DEF Covered
    <2>2. \A j \in 1 .. 1 : j = 1
      OBVIOUS
    <2>3. received[p] \subseteq received'[p]
      BY <1>0, <1>1 DEF Extends
    <2> QED BY <1>12, <2>1, <2>2, <2>3
  <1>15. m \in Places(Peer(p)) /\ Places(Peer(p))' \subseteq Places(Peer(p))
    BY <1>3 DEF Places, Takes
  <1> QED BY <1>1, <1>6, <1>7, <1>8, <1>9, <1>10, <1>11, <1>12, <1>13, <1>14, <1>15, TwoPeers

(* A read adds nothing, or one Ack, to the reader's own pipe. *)
LEMMA ReadGrows ==
    ASSUME TypeOK, TypeOK', NEW p \in Peers, NEW m, ReadsOne(p, m)
    PROVE  /\ Grows(Pipe(p), Pipe(p)') /\ Len(Pipe(p)') \in Nat /\ Len(Pipe(p)) \in Nat
           /\ nextMessageId[p] <= nextMessageId'[p]
           /\ \A i \in 1 .. Len(Pipe(p)') : i \in 1 .. Len(Pipe(p)) \/
                 (i = Len(Pipe(p)') /\ Pipe(p)'[i] = AckTo(p, m))
           /\ \A x \in Elements(Pipe(p)') : x \in Elements(Pipe(p)) \/
                 (x = AckTo(p, m) /\ nextMessageId'[p] = nextMessageId[p] + 1)
           /\ AckTo(p, m).kind = "ack" /\ AckTo(p, m).id = nextMessageId[p]
           /\ AckTo(p, m).ack = None /\ AckTo(p, m).re = m.id
  <1>0. Pipe(p) \in Seq(Envelopes) /\ Len(Pipe(p)) \in Nat /\ nextMessageId[p] \in Nat
    BY PipeType DEF TypeOK
  <1>1. /\ AckTo(p, m).kind = "ack" /\ AckTo(p, m).id = nextMessageId[p]
        /\ AckTo(p, m).ack = None /\ AckTo(p, m).re = m.id /\ AckTo(p, m) \in Envelopes
    <2>1. m.id \in Nat /\ "ack" \in Kinds
      BY EnvelopeFields DEF ReadsOne, Takes, Kinds
    <2> QED BY <1>0, <2>1, EnvelopeType DEF AckTo, Envelope
  <1>2. CASE Pipe(p)' = Pipe(p) /\ nextMessageId'[p] = nextMessageId[p]
    BY <1>0, <1>1, <1>2 DEF Grows
  <1>3. CASE Pipe(p)' = Pipe(p) \o <<AckTo(p, m)>> /\ nextMessageId'[p] = nextMessageId[p] + 1
    <2> DEFINE w == Pipe(p)
               v == Pipe(p)'
               a == AckTo(p, m)
    <2>1. w \in Seq(Envelopes) /\ v = w \o <<a>> /\ a \in Envelopes
      BY <1>0, <1>1, <1>3
    <2> HIDE DEF w, v, a
    <2>2. /\ Grows(w, v) /\ Len(v) = Len(w) + 1 /\ Len(w) \in Nat
          /\ v[Len(w) + 1] = a /\ Elements(v) = Elements(w) \cup {a}
      BY <2>1, OneMore
    <2>3. /\ Len(v) \in Nat
          /\ \A i \in 1 .. Len(v) : i \in 1 .. Len(w) \/ (i = Len(v) /\ v[i] = a)
      BY <2>2
    <2> QED BY <1>0, <1>1, <1>3, <2>2, <2>3 DEF w, v, a
  <1> QED BY <1>2, <1>3 DEF ReadsOne

(* Each phase of a resync goes on. *)
LEMMA ReadPhase ==
    ASSUME TypeOK, TypeOK', ResyncInv, NEW p \in Peers, NEW m, ReadsOne(p, m)
    PROVE  ResyncInv'
  <1>0. /\ Numbered /\ Heard /\ OneOutage /\ Takes(p, m) /\ resync' = resync /\ sent' = sent
        /\ link' = link /\ outages' = outages /\ draft' = draft /\ handshakeId' = handshakeId
        /\ maxReceived'[Peer(p)] = maxReceived[Peer(p)] /\ m.kind # "flush"
    BY DEF ResyncInv, ReadsOne, Takes
  <1>1. /\ "client" \in Peers /\ "server" \in Peers /\ Peer(p) \in Peers
        /\ Peer("client") = "server" /\ Peer("server") = "client" /\ Peer(Peer(p)) = p
        /\ p = "client" \/ p = "server"
    BY DEF Peers, Peer
  <1>2. Numbered' /\ Heard'
    BY <1>0, ReadGrows, ReadIds
  <1>3. /\ \A q \in Peers : Extends(q)
        /\ \A q \in Peers : Complete(q) => Complete(q)'
        /\ Retained(Peer(p)) => Retained(Peer(p))'
        /\ Retained(p) /\ Honest(p, m.ack) => Retained(p)'
        /\ \A i \in 1 .. Len(Pipe(p)) : Covered(p, i) => Covered(p, i)'
        /\ \A i \in 1 .. Len(Pipe(Peer(p))') : Covered(Peer(p), i + 1) => Covered(Peer(p), i)'
        /\ m.id \in received'[p] /\ Covered(Peer(p), 1) => Honest(Peer(p), m.id)'
        /\ m \in Places(Peer(p)) /\ Places(Peer(p))' \subseteq Places(Peer(p))
        /\ Len(Pipe(Peer(p))') \in Nat /\ Len(Pipe(Peer(p))) = Len(Pipe(Peer(p))') + 1
        /\ \A i \in 1 .. Len(Pipe(Peer(p))') : Pipe(Peer(p))'[i] = Pipe(Peer(p))[i + 1]
        /\ m = Pipe(Peer(p))[1]
    BY <1>0, ReadGrows, TakeFrame
  <1>4. Complete(p) => \A i \in 1 .. Len(Pipe(p)') : i \in 1 .. Len(Pipe(p)) \/ Covered(p, i)'
    BY <1>3, ReadGrows, CoveredLast
  <1>5. \A q \in Peers : \A x \in Elements(Pipe(q)') :
           x \in Elements(Pipe(q)) \/ (q = p /\ x = AckTo(p, m) /\ x.kind = "ack")
    <2>1. \A x \in Elements(Pipe(Peer(p))') : x \in Elements(Pipe(Peer(p)))
      BY <1>0 DEF Takes
    <2> QED BY <2>1, TwoPeers, ReadGrows
  <1>6. OneOutage'
    <2>1. \A x \in Elements(Pipe("server")') : x.kind # "flush"
      BY <1>0, <1>1, <1>5 DEF OneOutage
    <2> QED BY <1>0, <2>1 DEF OneOutage
  <1>7. NoFlush => NoFlush'
    BY <1>1, <1>5 DEF NoFlush
  <1>8. Honest(p, maxReceived[Peer(p)]) => Honest(p, maxReceived[Peer(p)])'
    BY <1>0, <1>1, <1>3, WatermarkKeeps
  <1>9. Honest(Peer(p), maxReceived[p]) /\ (m.kind = "started" \/ Covered(Peer(p), 1))
           => Honest(Peer(p), maxReceived[p])'
    <2>1. CASE maxReceived' = maxReceived
      BY <1>0, <1>1, <1>3, <2>1, WatermarkKeeps
    <2>2. CASE m.kind # "started" /\ maxReceived'[p] = m.id /\ m.id \in received'[p]
      <3>1. Covered(Peer(p), 1) => Honest(Peer(p), m.id)'
        BY <1>3, <2>2
      <3> QED BY <2>2, <3>1 DEF Honest
    <2> QED BY <1>0, <2>1, <2>2 DEF Takes
  <1>10. \A x \in Places(p)' : x \in Places(p) \/ x = AckTo(p, m)
    BY <1>0, <1>5 DEF Places, Takes
  <1>11. ASSUME NEW q \in Peers, \A x \in Places(q) : Honest(Peer(q), x.ack)
         PROVE  \A x \in Places(q)' : Honest(Peer(q), x.ack)'
    <2>1. \A x \in Places(q)' : x \in Places(q) \/ x.ack = None
      BY <1>3, <1>10, TwoPeers, ReadGrows
    <2> QED BY <1>0, <1>3, <1>11, <2>1, PeerProperties, PlacesHonest
  <1>12. CASE BeforeResync
    <2>1. Covered(Peer(p), 1)
      <3>1. Len(Pipe(Peer(p))) >= 1 /\ 1 \in 1 .. Len(Pipe(Peer(p)))
        BY <1>3
      <3>2. CASE p = "client"
        <4>1. Len(inbox["client"]) \in Nat /\ Len(inbox["client"]) > 0
          BY <1>0, <1>1, <3>2, InboxWithin DEF Takes
        <4>2. 1 \in 1 .. Len(inbox["client"])
          BY <4>1
        <4> QED BY <1>1, <1>12, <3>2, <4>2 DEF BeforeResync
      <3>3. CASE p = "server"
        BY <1>1, <1>12, <3>1, <3>3 DEF BeforeResync
      <3> QED BY <1>1, <3>2, <3>3
    <2>2. Honest(p, m.ack)
      BY <1>1, <1>3, <1>12 DEF BeforeResync
    <2>3. /\ Retained("client")' /\ Retained("server")' /\ Complete("client")' /\ NoFlush'
          /\ resync'.status = "idle"
      BY <1>0, <1>1, <1>3, <1>7, <1>12, <2>2 DEF BeforeResync
    <2>4. \A q \in Peers : /\ Honest(Peer(q), maxReceived[q])'
                           /\ \A x \in Places(q)' : Honest(Peer(q), x.ack)'
      <3>1. Honest(Peer(p), maxReceived[p])' /\ Honest(p, maxReceived[Peer(p)])'
        BY <1>1, <1>8, <1>9, <1>12, <2>1 DEF BeforeResync
      <3> QED BY <1>1, <1>11, <1>12, <3>1, TwoPeers DEF BeforeResync
    <2>5. \A i \in 1 .. Len(Pipe("client")') : Covered("client", i)'
      <3>1. CASE p = "client"
        BY <1>3, <1>4, <1>12, <3>1 DEF BeforeResync
      <3>2. CASE p = "server"
        BY <1>1, <1>3, <1>12, <3>2 DEF BeforeResync
      <3> QED BY <1>1, <3>1, <3>2
    <2>6. \A i \in 1 .. Len(inbox'["client"]) : Covered("server", i)'
      <3>1. /\ Len(inbox["client"]) \in Nat /\ Len(Pipe("server")) \in Nat
            /\ Len(inbox["client"]) <= Len(Pipe("server"))
        BY <1>1, InboxWithin
      <3>2. CASE p = "client"
        <4>1. Len(inbox'["client"]) = Len(inbox["client"]) - 1
          BY <1>0, <3>2 DEF Takes
        <4>2. \A i \in 1 .. Len(inbox'["client"]) :
                 i + 1 \in 1 .. Len(inbox["client"]) /\ i \in 1 .. Len(Pipe(Peer(p))')
          BY <1>1, <1>3, <3>1, <3>2, <4>1
        <4> QED BY <1>1, <1>3, <1>12, <3>2, <4>2 DEF BeforeResync
      <3>3. CASE p = "server"
        <4>1. inbox'["client"] = inbox["client"]
          BY <1>0, <1>1, <3>3 DEF Takes
        <4>2. \A i \in 1 .. Len(inbox["client"]) : i \in 1 .. Len(Pipe("server"))
          BY <3>1
        <4> QED BY <1>3, <1>12, <3>3, <4>1, <4>2 DEF BeforeResync
      <3> QED BY <1>1, <3>2, <3>3
    <2>7. link' = "up" => Complete("server")' /\
             \A i \in 1 .. Len(Pipe("server")') : Covered("server", i)'
      <3> SUFFICES ASSUME link = "up"
                   PROVE  Complete("server")' /\
                             \A i \in 1 .. Len(Pipe("server")') : Covered("server", i)'
        BY <1>0
      <3>1. Complete("server") /\ \A i \in 1 .. Len(Pipe("server")) : Covered("server", i)
        BY <1>12 DEF BeforeResync
      <3>2. CASE p = "server"
        BY <1>1, <1>3, <1>4, <3>1, <3>2
      <3>3. CASE p = "client"
        BY <1>1, <1>3, <3>1, <3>3
      <3> QED BY <1>1, <3>2, <3>3
    <2>8. BeforeResync'
      BY <2>3, <2>4, <2>5, <2>6, <2>7 DEF BeforeResync
    <2> QED BY <1>2, <1>6, <2>8 DEF ResyncInv
  <1>13. CASE FlushAsked
    <2>1. PICK k \in 1 .. Len(Pipe("client")) : Asked(k)
      BY <1>13 DEF FlushAsked
    <2>2. CASE p = "client"
      <3>1. Retained("client")' /\ Retained("server")' /\ resync'.status = "waiting"
        BY <1>0, <1>1, <1>3, <1>13, <2>2 DEF FlushAsked
      <3>2. Honest("client", maxReceived["server"])'
        BY <1>1, <1>8, <1>13, <2>2 DEF FlushAsked
      <3>3. \A x \in Places("server")' : Honest("client", x.ack)' /\ x.re # resync'.flush
        BY <1>0, <1>1, <1>3, <1>11, <1>13, <2>2 DEF FlushAsked
      <3>4. \A x \in Elements(running'["server"]) : x # resync'.flush
        BY <1>0, <1>1, <1>13, <2>2 DEF FlushAsked, Takes
      <3>5. k \in 1 .. Len(Pipe("client")') /\ Asked(k)'
        <4>1. nextMessageId["client"] # resync.flush
          <5>1. Pipe("client")[k].id = resync.flush /\ Pipe("client")[k].id < nextMessageId["client"]
                /\ Pipe("client")[k].id \in Nat
            BY <1>0, <1>1, <2>1, PipeIds DEF Asked
          <5> QED BY <5>1
        <4>2. \A i \in 1 .. Len(Pipe("client")') : i \in 1 .. Len(Pipe("client")) \/
                 (Pipe("client")'[i].kind # "flush" /\ Pipe("client")'[i].id # resync.flush)
          BY <1>1, <2>2, <4>1, ReadGrows
        <4>3. Grows(Pipe("client"), Pipe("client")') /\ Len(Pipe("client")') \in Nat
          BY <1>1, <2>2, ReadGrows
        <4> QED BY <1>0, <1>1, <1>3, <2>1, <4>2, <4>3, AskedGrows
      <3>6. FlushAsked'
        BY <3>1, <3>2, <3>3, <3>4, <3>5 DEF FlushAsked
      <3> QED BY <1>2, <1>6, <3>6 DEF ResyncInv
    <2>3. CASE p = "server"
      <3>1. k \in 2 .. Len(Pipe("client")) /\ 1 \in 1 .. k - 1 /\ m = Pipe("client")[1]
        <4>1. m = Pipe("client")[1] /\ k # 1
          BY <1>0, <1>1, <1>3, <2>1, <2>3 DEF Asked
        <4>2. Len(Pipe("client")) \in Nat
          BY <1>1, PipeType
        <4> QED BY <4>1, <4>2
      <3>2. /\ m.kind = "started" \/ Covered("client", 1)
            /\ Honest("server", m.ack) /\ m.id # resync.flush
        <4>1. 1 \in 1 .. Len(Pipe("client")) /\ 1 # k
          BY <3>1
        <4> QED BY <2>1, <3>1, <4>1 DEF Asked
      <3>3. Retained("client")' /\ Retained("server")' /\ resync'.status = "waiting"
        BY <1>0, <1>1, <1>3, <1>13, <2>3, <3>2 DEF FlushAsked
      <3>4. Honest("client", maxReceived["server"])'
        BY <1>1, <1>9, <1>13, <2>3, <3>2 DEF FlushAsked
      <3>5. \A x \in Places("server")' : Honest("client", x.ack)'
        BY <1>1, <1>11, <1>13 DEF FlushAsked
      <3>6. \A x \in Places("server")' : x.re # resync'.flush
        BY <1>0, <1>10, <1>13, <2>3, <3>2, ReadGrows DEF FlushAsked
      <3>7. \A x \in Elements(running'["server"]) : x # resync'.flush
        BY <1>0, <1>13, <2>3, <3>2 DEF FlushAsked, Takes
      <3>8. k - 1 \in 1 .. Len(Pipe("client")') /\ Asked(k - 1)'
        BY <1>0, <1>1, <1>3, <2>1, <2>3, <3>1, AskedShifts
      <3>9. FlushAsked'
        BY <3>3, <3>4, <3>5, <3>6, <3>7, <3>8 DEF FlushAsked
      <3> QED BY <1>2, <1>6, <3>9 DEF ResyncInv
    <2> QED BY <1>1, <2>2, <2>3
  <1>14. CASE FlushReplayed
    <2>1. PICK k \in 1 .. Len(Pipe("server")) : Replayed(k)
      BY <1>14 DEF FlushReplayed
    <2>2. Complete("server")' /\ NoFlush' /\ resync'.status = "waiting"
      BY <1>0, <1>1, <1>3, <1>7, <1>14 DEF FlushReplayed
    <2>3. CASE p = "client"
      <3>1. k # 1
        <4> SUFFICES ASSUME k = 1 PROVE FALSE
          OBVIOUS
        <4>1. m.kind = "ack" /\ m.re = resync.flush
          BY <1>1, <1>3, <2>1, <2>3 DEF Replayed
        <4>2. handshakeId["client"] # resync.flush
          BY <1>0, <1>14 DEF OneOutage, FlushReplayed
        <4> QED BY <1>14, <2>3, <4>1, <4>2 DEF ReadsOne, IsHandshakeAck, AwaitsResync, FlushReplayed
      <3>2. k \in 2 .. Len(Pipe("server")) /\ 1 \in 1 .. k - 1
        <4>1. Len(Pipe("server")) \in Nat
          BY <1>1, PipeType
        <4> QED BY <3>1, <4>1
      <3>3. Honest("client", m.ack)
        BY <1>1, <1>3, <2>1, <2>3, <3>2 DEF Replayed
      <3>4. Retained("client")'
        BY <1>3, <1>14, <2>3, <3>3 DEF FlushReplayed
      <3>5. k - 1 \in 1 .. Len(Pipe("server")') /\ Replayed(k - 1)'
        BY <1>0, <1>1, <1>3, <2>1, <2>3, <3>2, ReplayedShifts
      <3>6. FlushReplayed'
        BY <2>2, <3>4, <3>5 DEF FlushReplayed
      <3> QED BY <1>2, <1>6, <3>6 DEF ResyncInv
    <2>4. CASE p = "server"
      <3>1. Retained("client")'
        BY <1>1, <1>3, <1>14, <2>4 DEF FlushReplayed
      <3>2. \A i \in 1 .. Len(Pipe("server")') :
               i \in 1 .. Len(Pipe("server")) \/ Covered("server", i)'
        BY <1>4, <1>14, <2>4 DEF FlushReplayed
      <3>3. Grows(Pipe("server"), Pipe("server")') /\ Len(Pipe("server")') \in Nat
        BY <1>1, <2>4, ReadGrows
      <3>4. k \in 1 .. Len(Pipe("server")') /\ Replayed(k)'
        BY <1>0, <1>1, <1>3, <2>1, <3>2, <3>3, ReplayedGrows
      <3>5. FlushReplayed'
        BY <2>2, <3>1, <3>4 DEF FlushReplayed
      <3> QED BY <1>2, <1>6, <3>5 DEF ResyncInv
    <2> QED BY <1>1, <2>3, <2>4
  <1>15. CASE Resynced
    <2>1. /\ Complete("client")' /\ Complete("server")' /\ NoFlush'
          /\ resync'.status = "done"
      BY <1>0, <1>1, <1>3, <1>7, <1>15 DEF Resynced
    <2>2. Honest("server", maxReceived["client"])'
      <3>1. CASE p = "client"
        <4>1. 1 \in 1 .. Len(Pipe("server"))
          BY <1>1, <1>3, <3>1
        <4> QED BY <1>1, <1>9, <1>15, <3>1, <4>1 DEF Resynced
      <3>2. CASE p = "server"
        BY <1>1, <1>8, <1>15, <3>2 DEF Resynced
      <3> QED BY <1>1, <3>1, <3>2
    <2>3. \A i \in 1 .. Len(Pipe("server")') : Covered("server", i)'
      <3>1. CASE p = "client"
        BY <1>1, <1>3, <1>15, <3>1 DEF Resynced
      <3>2. CASE p = "server"
        BY <1>3, <1>4, <1>15, <3>2 DEF Resynced
      <3> QED BY <1>1, <3>1, <3>2
    <2>4. Resynced'
      BY <2>1, <2>2, <2>3 DEF Resynced
    <2> QED BY <1>2, <1>6, <2>4 DEF ResyncInv
  <1> QED BY <1>12, <1>13, <1>14, <1>15 DEF ResyncInv

(* Replaying the buffer before the Ack brings back what is missing. *)
LEMMA FlushPhase ==
    ASSUME TypeOK, TypeOK', ResyncInv, NEW p \in Peers, HandleFlush(p)
    PROVE  ResyncInv'
  <1>0. PICK m \in Envelopes :
           /\ Takes(p, m) /\ resync' = resync /\ m.kind = "flush"
           /\ Pipe(p)' = Pipe(p) \o Append(buffer'[p], AckTo(p, m))
           /\ nextMessageId'[p] = nextMessageId[p] + 1 /\ AckTo(p, m) \in Envelopes
           /\ maxReceived' = maxReceived /\ received' = received
    BY FlushSummary
  <1>1. /\ "client" \in Peers /\ "server" \in Peers
        /\ Peer("client") = "server" /\ Peer("server") = "client"
        /\ p = "client" \/ p = "server"
    BY DEF Peers, Peer
  <1>2. /\ Numbered /\ Heard /\ OneOutage /\ sent' = sent /\ link' = link
        /\ outages' = outages /\ draft' = draft /\ handshakeId' = handshakeId
        /\ m \in Elements(Pipe(Peer(p)))
    BY <1>0 DEF ResyncInv, Takes
  <1>3. p = "server"
    BY <1>0, <1>1, <1>2 DEF OneOutage
  <1>4. FlushAsked
    BY <1>0, <1>1, <1>2, <1>3
       DEF ResyncInv, BeforeResync, FlushReplayed, Resynced, NoFlush
  <1>5. /\ AckTo(p, m).kind = "ack" /\ AckTo(p, m).re = m.id /\ AckTo(p, m).ack = None
        /\ AckTo(p, m).id = nextMessageId[p]
    BY DEF AckTo, Envelope
  <1>6. PICK t \in Seq(Envelopes) :
           /\ t = Append(buffer'[p], AckTo(p, m)) /\ Len(t) \in Nat /\ Len(t) > 0
           /\ t[Len(t)] = AckTo(p, m)
           /\ \A i \in 1 .. Len(t) - 1 : t[i] \in Elements(buffer'[p])
           /\ Elements(t) = Elements(buffer'[p]) \cup {AckTo(p, m)}
    <2> DEFINE b == buffer'[p]
               a == AckTo(p, m)
    <2>1. b \in Seq(Envelopes) /\ a \in Envelopes
      BY <1>0 DEF TypeOK
    <2> HIDE DEF b, a
    <2>2. /\ Append(b, a) \in Seq(Envelopes) /\ Len(b) \in Nat /\ Len(Append(b, a)) = Len(b) + 1
          /\ \A i \in 1 .. Len(b) : Append(b, a)[i] = b[i]
          /\ Append(b, a)[Len(b) + 1] = a /\ Elements(Append(b, a)) = Elements(b) \cup {a}
      BY <2>1, AppendProperties, LenProperties, ElementsAppend
    <2>3. \A i \in 1 .. Len(b) : b[i] \in Elements(b)
      BY DEF Elements
    <2>4. PICK t : t = Append(b, a)
      OBVIOUS
    <2>5. /\ t \in Seq(Envelopes) /\ Len(t) \in Nat /\ Len(t) > 0 /\ t[Len(t)] = a
          /\ \A i \in 1 .. Len(t) - 1 : t[i] \in Elements(b)
          /\ Elements(t) = Elements(b) \cup {a}
      BY <2>2, <2>3, <2>4
    <2> QED BY <2>4, <2>5 DEF b, a
  <1>7. PICK n \in Nat : n = Len(Pipe("server")')
    <2>1. Pipe("server")' \in Seq(Envelopes)
      BY <1>1, ConcatProperties DEF Pipe, TypeOK
    <2> QED BY <2>1, LenProperties
  <1>8. /\ Grows(Pipe("server"), Pipe("server")') /\ n \in 1 .. n
        /\ Pipe("server")'[n] = AckTo(p, m)
        /\ \A i \in 1 .. n - 1 : Pipe("server")'[i] \in Places("server")
        /\ Elements(Pipe("server")') =
              Elements(Pipe("server")) \cup Elements(buffer'["server"]) \cup {AckTo(p, m)}
    <2> DEFINE w == Pipe("server")
               v == Pipe("server")'
               a == AckTo(p, m)
    <2>1. w \in Seq(Envelopes) /\ v = w \o t /\ n = Len(v)
      BY <1>0, <1>1, <1>3, <1>6, <1>7, PipeType
    <2>2. \A i \in 1 .. Len(w) : w[i] \in Places("server")
      BY <1>1, PipeType DEF Places
    <2>3. \A i \in 1 .. Len(t) - 1 : t[i] \in Places("server")
      BY <1>0, <1>3, <1>6 DEF Places, Takes
    <2> HIDE DEF w, v, a
    <2>4. /\ Grows(w, v) /\ Len(v) = Len(w) + Len(t) /\ Len(w) \in Nat
          /\ \A i \in 1 .. Len(t) : v[Len(w) + i] = t[i]
          /\ Elements(v) = Elements(w) \cup Elements(t)
      BY <2>1, ConcatGrows
    <2>5. n \in 1 .. n /\ v[n] = t[Len(t)]
      <3>1. Len(t) \in 1 .. Len(t) /\ n = Len(w) + Len(t)
        BY <1>6, <2>1, <2>4
      <3> QED BY <1>6, <2>4, <3>1, SMTT(30)
    <2>6. ASSUME NEW i \in 1 .. n - 1 PROVE v[i] \in Places("server")
      <3>1. CASE i <= Len(w)
        <4>1. i \in 1 .. Len(w)
          BY <2>4, <3>1
        <4> QED BY <2>2, <2>4, <4>1 DEF Grows
      <3>2. CASE ~ (i <= Len(w))
        <4>1. /\ i - Len(w) \in 1 .. Len(t) - 1 /\ i - Len(w) \in 1 .. Len(t)
              /\ Len(w) + (i - Len(w)) = i
          BY <1>6, <2>1, <2>4, <3>2
        <4> QED BY <2>3, <2>4, <4>1
      <3> QED BY <3>1, <3>2
    <2> QED BY <1>3, <1>6, <2>4, <2>5, <2>6 DEF w, v
  <1>9. /\ \A q \in Peers : Extends(q)
        /\ Retained("client") => Retained("client")'
        /\ Retained("server") /\ Honest("server", m.ack) => Retained("server")'
        /\ Len(Pipe("client")') \in Nat /\ Len(Pipe("client")) = Len(Pipe("client")') + 1
        /\ \A i \in 1 .. Len(Pipe("client")') : Pipe("client")'[i] = Pipe("client")[i + 1]
        /\ m = Pipe("client")[1]
    BY <1>0, <1>1, <1>2, <1>3, <1>8, TakeFrame
  <1>10. PICK k \in 1 .. Len(Pipe("client")) : Asked(k)
    BY <1>4 DEF FlushAsked
  <1>11. k = 1 /\ m.id = resync.flush /\ Honest("server", m.ack)
    <2>1. 1 \in 1 .. Len(Pipe("client"))
      BY <1>9
    <2>2. k = 1
      BY <1>0, <1>9, <1>10, <2>1 DEF Asked
    <2> QED BY <1>9, <1>10, <2>2 DEF Asked
  <1>12. Numbered' /\ Heard'
    <2>1. nextMessageId[p] <= nextMessageId'[p]
      BY <1>0 DEF TypeOK
    <2>2. \A x \in Elements(Pipe(p)') :
             \/ x \in Elements(Pipe(p)) \/ x \in Elements(buffer[p])
             \/ x = AckTo(p, m) /\ nextMessageId'[p] = nextMessageId[p] + 1
      BY <1>0, <1>3, <1>8 DEF Takes
    <2> QED BY <1>0, <1>2, <2>1, <2>2, ReadIds
  <1>13. OneOutage'
    <2>1. \A x \in Elements(Pipe("server")') : x.kind # "flush"
      <3>1. \A x \in Elements(buffer'["server"]) : x.kind # "flush"
        BY <1>0, <1>1, <1>2, <1>3 DEF Takes, Numbered, Buffered
      <3> QED BY <1>2, <1>5, <1>8, <3>1 DEF OneOutage
    <2> QED BY <1>0, <1>2, <2>1 DEF OneOutage
  <1>14. Retained("client")' /\ Retained("server")' /\ resync'.status = "waiting"
    BY <1>0, <1>4, <1>9, <1>11 DEF FlushAsked
  <1>15. Complete("server")'
    <2>1. Elements(buffer'["server"]) \subseteq Elements(Pipe("server")')
      BY <1>8
    <2> QED BY <1>14, <2>1 DEF Complete, Retained, Ids
  <1>16. NoFlush'
    <2>1. \A i \in 1 .. Len(Pipe("client")') : Pipe("client")'[i].kind # "flush"
      <3> SUFFICES ASSUME NEW i \in 1 .. Len(Pipe("client")')
                   PROVE  Pipe("client")'[i].kind # "flush"
        OBVIOUS
      <3>1. i + 1 \in 1 .. Len(Pipe("client")) /\ i + 1 # k
        BY <1>9, <1>11
      <3> QED BY <1>9, <1>10, <3>1 DEF Asked
    <2> QED BY <2>1 DEF NoFlush, Elements
  <1>17. Replayed(n)'
    <2>1. /\ Pipe("server")'[n].kind = "ack" /\ Pipe("server")'[n].re = resync'.flush
          /\ Pipe("server")'[n].ack = None
      BY <1>0, <1>5, <1>8, <1>11
    <2>2. \A i \in 1 .. n - 1 : Pipe("server")'[i].re # resync'.flush
      BY <1>0, <1>4, <1>8 DEF FlushAsked
    <2>3. \A i \in 1 .. n - 1 : Honest("client", Pipe("server")[i].ack)'
      <3> SUFFICES ASSUME NEW i \in 1 .. n - 1
                   PROVE  Honest("client", Pipe("server")[i].ack)'
        OBVIOUS
      <3>1. PICK a : a = Pipe("server")'[i].ack
        OBVIOUS
      <3>2. a \in Acks("server") /\ Honest("client", a)
        BY <1>4, <1>8, <3>1 DEF Acks, FlushAsked
      <3>3. Honest("client", a)'
        BY <1>1, <1>2, <1>9, <3>2, AcksKeep
      <3> QED BY <3>1, <3>3 DEF Honest
    <2>4. \A i \in n .. Len(Pipe("server")') : Covered("server", i)'
      BY <1>1, <1>7, <1>15, CoveredLast
    <2> QED BY <2>1, <2>2, <2>3, <2>4 DEF Replayed
  <1>18. FlushReplayed'
    BY <1>7, <1>8, <1>14, <1>15, <1>16, <1>17 DEF FlushReplayed
  <1> QED BY <1>12, <1>13, <1>18 DEF ResyncInv

(* The client's half of the replay brings back what the server never read. *)
LEMMA CompletePhase ==
    ASSUME TypeOK, TypeOK', ResyncInv, CompleteResync
    PROVE  ResyncInv'
  <1>0. PICK m \in Envelopes :
           /\ Takes("client", m) /\ resync.status = "waiting" /\ m.re = resync.flush
           /\ m.kind \in {"response", "ack"}
           /\ resync'.status = "done"
           /\ Pipe("client")' = Pipe("client") \o buffer'["client"]
           /\ nextMessageId' = nextMessageId
           /\ maxReceived'["client"] = m.id
           /\ received'["client"] = received["client"] \cup {m.id}
           /\ m.ack = None => buffer'["client"] = buffer["client"]
    BY CompleteSummary
  <1>1. /\ "client" \in Peers /\ "server" \in Peers
        /\ Peer("client") = "server" /\ Peer("server") = "client"
    BY DEF Peers, Peer
  <1>2. /\ Numbered /\ Heard /\ OneOutage /\ sent' = sent /\ link' = link
        /\ outages' = outages /\ draft' = draft /\ handshakeId' = handshakeId
    BY <1>0 DEF ResyncInv, Takes
  <1>3. Pipe("client") \in Seq(Envelopes) /\ buffer'["client"] \in Seq(Envelopes)
    BY <1>1, PipeType DEF TypeOK
  <1>4. /\ Grows(Pipe("client"), Pipe("client")')
        /\ Elements(Pipe("client")') = Elements(Pipe("client")) \cup Elements(buffer'["client"])
    <2> DEFINE w == Pipe("client")
               b == buffer'["client"]
    <2> HIDE DEF w, b
    <2>1. w \in Seq(Envelopes) /\ b \in Seq(Envelopes)
      BY <1>3 DEF w, b
    <2>2. Grows(w, w \o b) /\ Elements(w \o b) = Elements(w) \cup Elements(b)
      BY <2>1, ConcatGrows
    <2> QED BY <1>0, <2>2 DEF w, b
  <1>5. /\ \A q \in Peers : Extends(q)
        /\ Complete("server") => Complete("server")'
        /\ Retained("client") /\ Honest("client", m.ack) => Retained("client")'
        /\ \A i \in 1 .. Len(Pipe("server")') : Covered("server", i + 1) => Covered("server", i)'
        /\ m.id \in received'["client"] /\ Covered("server", 1) => Honest("server", m.id)'
        /\ m \in Places("server")
        /\ Len(Pipe("server")') \in Nat /\ Len(Pipe("server")) = Len(Pipe("server")') + 1
        /\ m = Pipe("server")[1]
    BY <1>0, <1>1, <1>2, <1>4, TakeFrame
  <1>6. FlushReplayed
    BY <1>0, <1>5 DEF ResyncInv, BeforeResync, FlushAsked, Resynced
  <1>7. PICK k \in 1 .. Len(Pipe("server")) : Replayed(k)
    BY <1>6 DEF FlushReplayed
  <1>8. k = 1 /\ m.ack = None
    <2>1. k = 1
      <3> SUFFICES ASSUME k # 1 PROVE FALSE
        OBVIOUS
      <3>1. 1 \in 1 .. k - 1
        BY <1>5
      <3> QED BY <1>0, <1>5, <1>7, <3>1 DEF Replayed
    <2> QED BY <1>5, <1>7, <2>1 DEF Replayed
  <1>9. \A i \in 1 .. Len(Pipe("server")) : Covered("server", i)
    BY <1>7, <1>8 DEF Replayed
  <1>10. Numbered' /\ Heard'
    <2>1. nextMessageId["client"] <= nextMessageId'["client"]
      BY <1>0, <1>1 DEF TypeOK
    <2>2. \A x \in Elements(Pipe("client")') :
             x \in Elements(Pipe("client")) \/ x \in Elements(buffer["client"])
      BY <1>0, <1>4 DEF Takes
    <2> QED BY <1>0, <1>1, <1>2, <2>1, <2>2, ReadIds
  <1>11. link = "up" /\ resync'.status = "done"
    BY <1>0, <1>2 DEF OneOutage
  <1>12. OneOutage'
    <2>1. \A x \in Elements(Pipe("server")') : x.kind # "flush"
      BY <1>0, <1>1, <1>2 DEF OneOutage, Takes
    <2> QED BY <1>0, <1>2, <1>11, <2>1 DEF OneOutage
  <1>13. Complete("client")'
    <2>1. Retained("client")'
      BY <1>5, <1>6, <1>8 DEF FlushReplayed, Honest
    <2> QED BY <1>4, <2>1 DEF Complete, Retained, Ids
  <1>14. NoFlush'
    <2>1. \A x \in Elements(buffer'["client"]) : x.kind # "flush"
      BY <1>0, <1>1, <1>2 DEF Takes, Numbered, Buffered
    <2> QED BY <1>4, <1>6, <2>1 DEF NoFlush, FlushReplayed
  <1>15. Honest("server", maxReceived["client"])'
    <2>1. 1 \in 1 .. Len(Pipe("server"))
      BY <1>5
    <2>2. Honest("server", m.id)'
      BY <1>0, <1>5, <1>9, <2>1
    <2> QED BY <1>0, <2>2 DEF Honest
  <1>16. Complete("server")' /\ \A i \in 1 .. Len(Pipe("server")') : Covered("server", i)'
    BY <1>5, <1>6, <1>9 DEF FlushReplayed
  <1>17. Resynced'
    BY <1>11, <1>13, <1>14, <1>15, <1>16 DEF Resynced
  <1> QED BY <1>10, <1>12, <1>17 DEF ResyncInv

-----------------------------------------------------------------------------
(* The connection.                                                           *)

(* A step that leaves the histories, the counters and the pipes alone. *)
LEMMA SamePhase ==
    ASSUME TypeOK, TypeOK', ResyncInv, \A q \in Peers : Pipe(q)' = Pipe(q),
           nextMessageId' = nextMessageId, buffer' = buffer, maxReceived' = maxReceived,
           handshakeId' = handshakeId, remoteStarted' = remoteStarted, running' = running,
           draft' = draft, link' = link, resync' = resync, outages' = outages,
           sent' = sent, received' = received, inbox' = inbox \/ link = "up"
    PROVE  ResyncInv'
  <1>0. /\ "client" \in Peers /\ "server" \in Peers
        /\ Peer("client") = "server" /\ Peer("server") = "client"
    BY DEF Peers, Peer
  <1>1. /\ Pipe("client")' = Pipe("client") /\ Pipe("server")' = Pipe("server")
        /\ \A q \in Peers : Places(q)' = Places(q)
    BY <1>0 DEF Places
  <1>2. Numbered'
    BY DEF ResyncInv, Numbered
  <1>3. Heard'
    BY <1>1 DEF ResyncInv, Heard
  <1>4. OneOutage' /\ (NoFlush => NoFlush')
    BY <1>1 DEF ResyncInv, OneOutage, NoFlush
  <1>5. /\ \A q \in Peers : Complete(q) => Complete(q)'
        /\ \A q \in Peers : Retained(q) => Retained(q)'
        /\ \A q \in Peers : \A a : Honest(q, a) => Honest(q, a)'
        /\ \A q \in Peers : \A i : Covered(q, i) => Covered(q, i)'
    BY DEF Complete, Retained, Honest, Covered
  <1>6. \A q \in Peers : Honest(Peer(q), maxReceived[q]) => Honest(Peer(q), maxReceived[q])'
    BY DEF Honest
  <1>7. CASE BeforeResync
    <2>1. \A i \in 1 .. Len(inbox'["client"]) : Covered("server", i)
      <3>1. CASE inbox' = inbox
        BY <1>7, <3>1 DEF BeforeResync
      <3>2. CASE link = "up"
        <4>1. Len(inbox'["client"]) <= Len(Pipe("server")') /\ Len(inbox'["client"]) \in Nat
              /\ Len(Pipe("server")') \in Nat
          <5> DEFINE a == inbox'["client"]
                     b == outgoing'["server"]
          <5>1. a \in Seq(Envelopes) /\ b \in Seq(Envelopes) /\ Pipe("server")' = a \o b
            BY <1>0 DEF TypeOK, Pipe
          <5> HIDE DEF a, b
          <5>2. Len(a) \in Nat /\ Len(b) \in Nat /\ Len(a \o b) = Len(a) + Len(b)
            BY <5>1, ConcatGrows
          <5>3. Len(a) <= Len(a \o b) /\ Len(a \o b) \in Nat
            BY <5>2
          <5> QED BY <5>1, <5>2, <5>3 DEF a
        <4>2. \A i \in 1 .. Len(Pipe("server")) : Covered("server", i)
          BY <1>7, <3>2 DEF BeforeResync
        <4> QED BY <1>1, <4>1, <4>2
      <3> QED BY <3>1, <3>2
    <2>2. \A q \in Peers : /\ Honest(Peer(q), maxReceived[q])'
                           /\ \A m \in Places(q)' : Honest(Peer(q), m.ack)'
      BY <1>1, <1>5, <1>6, <1>7, PeerProperties DEF BeforeResync
    <2>3. BeforeResync'
      BY <1>0, <1>1, <1>4, <1>5, <1>7, <2>1, <2>2 DEF BeforeResync
    <2> QED BY <1>2, <1>3, <1>4, <2>3 DEF ResyncInv
  <1>8. \A q \in Peers : Extends(q) /\ Grows(Pipe(q), Pipe(q)') /\ Len(Pipe(q)') \in Nat
    BY PipeType, PeerProperties DEF Extends, Grows
  <1>9. CASE FlushAsked
    <2>1. PICK k \in 1 .. Len(Pipe("client")) : Asked(k)
      BY <1>9 DEF FlushAsked
    <2>2. k \in 1 .. Len(Pipe("client")') /\ Asked(k)'
      BY <1>0, <1>1, <1>8, <2>1, AskedGrows DEF ResyncInv
    <2>3. \A m \in Places("server")' : Honest("client", m.ack)' /\ m.re # resync'.flush
      BY <1>0, <1>1, <1>5, <1>9 DEF FlushAsked
    <2>4. Honest("client", maxReceived["server"])'
      BY <1>0, <1>6, <1>9 DEF FlushAsked
    <2>5. FlushAsked'
      BY <1>0, <1>5, <1>9, <2>2, <2>3, <2>4 DEF FlushAsked
    <2> QED BY <1>2, <1>3, <1>4, <2>5 DEF ResyncInv
  <1>10. CASE FlushReplayed
    <2>1. PICK k \in 1 .. Len(Pipe("server")) : Replayed(k)
      BY <1>10 DEF FlushReplayed
    <2>2. k \in 1 .. Len(Pipe("server")') /\ Replayed(k)'
      BY <1>0, <1>1, <1>8, <2>1, ReplayedGrows DEF ResyncInv
    <2>3. FlushReplayed'
      BY <1>0, <1>4, <1>5, <1>10, <2>2 DEF FlushReplayed
    <2> QED BY <1>2, <1>3, <1>4, <2>3 DEF ResyncInv
  <1>11. CASE Resynced
    <2>1. Honest("server", maxReceived["client"])'
      BY <1>0, <1>6, <1>11 DEF Resynced
    <2>2. Resynced'
      BY <1>0, <1>1, <1>4, <1>5, <1>11, <2>1 DEF Resynced
    <2> QED BY <1>2, <1>3, <1>4, <2>2 DEF ResyncInv
  <1> QED BY <1>7, <1>9, <1>10, <1>11 DEF ResyncInv

(* Losing the connection takes the front of the server's queue, and nothing *)
(* of what the client has in its inbox.                                      *)
LEMMA DropPhase ==
    ASSUME TypeOK, TypeOK', ResyncInv, MaxOutages <= 1, DropConnection
    PROVE  ResyncInv'
  <1>0. /\ "client" \in Peers /\ "server" \in Peers
        /\ Peer("client") = "server" /\ Peer("server") = "client"
    BY DEF Peers, Peer
  <1>1. PICK n \in 0 .. Len(outgoing["server"]) : Lose(n)
    BY DEF DropConnection
  <1>2. /\ nextMessageId' = nextMessageId /\ inbox' = inbox /\ buffer' = buffer
        /\ maxReceived' = maxReceived /\ handshakeId' = handshakeId /\ remoteStarted' = remoteStarted
        /\ running' = running /\ draft' = draft /\ resync' = resync
        /\ sent' = sent /\ received' = received
    BY DEF DropConnection, history
  <1>3. link = "up" /\ link' = "down" /\ outages = 0 /\ outages' = 1
    BY <1>1, BoundsAssumption DEF Lose, TypeOK, ResyncInv, OneOutage
  <1>4. resync.status = "idle" /\ BeforeResync
    BY <1>3 DEF ResyncInv, OneOutage, FlushAsked, FlushReplayed, Resynced
  <1>5. Pipe("client")' = Pipe("client")
    BY <1>0, <1>1, <1>2 DEF Pipe, Lose, TypeOK
  <1>6. /\ Elements(Pipe("server")') \subseteq Elements(Pipe("server"))
        /\ \A i \in 1 .. Len(inbox["client"]) : Pipe("server")'[i] = Pipe("server")[i]
    <2> DEFINE a == inbox["client"]
               b == outgoing["server"]
               c == SubSeq(b, n + 1, Len(b))
    <2>1. a \in Seq(Envelopes) /\ b \in Seq(Envelopes)
      BY <1>0 DEF TypeOK
    <2>2. Pipe("server") = a \o b /\ Pipe("server")' = a \o c
      BY <1>0, <1>1, <1>2 DEF Pipe, Lose, TypeOK
    <2>3. n \in 0 .. Len(b)
      BY <1>1
    <2> HIDE DEF a, b
    <2>4. c \in Seq(Envelopes) /\ Elements(c) \subseteq Elements(b)
      <3>1. n + 1 \in Nat \ {0} /\ Len(b) \in 0 .. Len(b)
        BY <2>1, <2>3, LenProperties
      <3> QED BY <2>1, <3>1, ElementsSubSeq
    <2> HIDE DEF c
    <2>5. /\ Elements(a \o b) = Elements(a) \cup Elements(b)
          /\ Elements(a \o c) = Elements(a) \cup Elements(c)
          /\ Grows(a, a \o b) /\ Grows(a, a \o c)
      BY <2>1, <2>4, ConcatGrows
    <2>6. \A i \in 1 .. Len(a) : (a \o c)[i] = (a \o b)[i]
      BY <2>5 DEF Grows
    <2> QED BY <2>2, <2>4, <2>5, <2>6 DEF a
  <1>7. \A q \in Peers : Elements(Pipe(q)') \subseteq Elements(Pipe(q)) /\ Places(q)' \subseteq Places(q)
    BY <1>2, <1>5, <1>6 DEF Peers, Places
  <1>8. Numbered'
    BY <1>2, <1>7 DEF ResyncInv, Numbered
  <1>9. Heard'
    BY <1>2, <1>7 DEF ResyncInv, Heard
  <1>10. OneOutage' /\ NoFlush'
    BY <1>0, <1>2, <1>3, <1>4, <1>7 DEF ResyncInv, OneOutage, BeforeResync, NoFlush
  <1>11. /\ \A q \in Peers : Retained(q) => Retained(q)'
         /\ \A q \in Peers : \A a : Honest(q, a) => Honest(q, a)'
         /\ Complete("client") => Complete("client")'
         /\ \A i : Covered("client", i) => Covered("client", i)'
    BY <1>2, <1>5 DEF Retained, Honest, Complete, Covered
  <1>12. \A q \in Peers : /\ Honest(Peer(q), maxReceived[q])'
                          /\ \A m \in Places(q)' : Honest(Peer(q), m.ack)'
    <2>1. \A q \in Peers : Honest(Peer(q), maxReceived[q])'
      BY <1>2, <1>4 DEF BeforeResync, Honest
    <2> QED BY <1>4, <1>7, <1>11, <2>1, PeerProperties DEF BeforeResync
  <1>13. \A i \in 1 .. Len(inbox'["client"]) : Covered("server", i)'
    <2> SUFFICES ASSUME NEW i \in 1 .. Len(inbox["client"]) PROVE Covered("server", i)'
      BY <1>2
    <2>1. Covered("server", i)
      BY <1>4 DEF BeforeResync
    <2>2. Len(inbox["client"]) \in Nat
      BY <1>0, InboxWithin
    <2>3. \A j \in 1 .. i : Pipe("server")'[j] = Pipe("server")[j]
      BY <1>6, <2>2
    <2>4. i \in 1 .. i
      BY <2>2
    <2> QED BY <1>2, <2>1, <2>3, <2>4 DEF Covered
  <1>14. BeforeResync'
    BY <1>0, <1>2, <1>3, <1>4, <1>5, <1>10, <1>11, <1>12, <1>13 DEF BeforeResync
  <1> QED BY <1>8, <1>9, <1>10, <1>14 DEF ResyncInv

(* The flush goes out behind what the server has still to read. *)
LEMMA ReconnectPhase ==
    ASSUME TypeOK, TypeOK', ResyncInv, Reconnect
    PROVE  ResyncInv'
  <1>0. /\ "client" \in Peers /\ "server" \in Peers
        /\ Peer("client") = "server" /\ Peer("server") = "client"
    BY DEF Peers, Peer
  <1>1. PICK id \in Nat : id = nextMessageId["client"]
    BY <1>0 DEF TypeOK
  <1>2. PICK s \in Envelopes : /\ s = Envelope(id, "started", None, None)
                               /\ s.id = id /\ s.kind = "started" /\ s.ack = None /\ s.re = None
    <2>1. Envelope(id, "started", None, None) \in Envelopes
      BY EnvelopeType DEF Kinds
    <2> QED BY <2>1 DEF Envelope
  <1>3. PICK f \in Envelopes : /\ f = Envelope(id + 1, "flush", maxReceived["client"], None)
                               /\ f.id = id + 1 /\ f.kind = "flush"
                               /\ f.ack = maxReceived["client"] /\ f.re = None
    <2>1. maxReceived["client"] \in Nat /\ id + 1 \in Nat
      BY <1>0 DEF TypeOK
    <2>2. Envelope(id + 1, "flush", maxReceived["client"], None) \in Envelopes
      BY <2>1, EnvelopeType DEF Kinds
    <2> QED BY <2>2 DEF Envelope
  <1>4. /\ link = "down" /\ link' = "up" /\ outages' = outages /\ draft' = draft
        /\ handshakeId'["client"] = id /\ handshakeId'["server"] = handshakeId["server"]
        /\ inbox'["client"] = <<>> /\ inbox'["server"] = inbox["server"]
        /\ outgoing'["client"] = <<s, f>> /\ outgoing'["server"] = outgoing["server"]
        /\ nextMessageId'["client"] = id + 2
        /\ nextMessageId'["server"] = nextMessageId["server"]
        /\ resync'.status = "waiting" /\ resync'.flush = id + 1
        /\ buffer' = buffer /\ maxReceived' = maxReceived /\ remoteStarted' = remoteStarted
        /\ running' = running /\ sent' = sent /\ received' = received
    BY <1>0, <1>1, <1>2, <1>3 DEF Reconnect, TypeOK, history
  <1>5. outages = 1 /\ BeforeResync
    BY <1>4 DEF ResyncInv, OneOutage, FlushAsked, FlushReplayed, Resynced
  <1>6. PICK n \in Nat : n = Len(inbox["server"])
    BY <1>0, InboxWithin
  <1>7. /\ Len(Pipe("client")') = n + 2
        /\ \A i \in 1 .. n : Pipe("client")'[i] = Pipe("client")[i]
        /\ \A i \in 1 .. n : i \in 1 .. Len(Pipe("client"))
        /\ Pipe("client")'[n + 1] = s /\ Pipe("client")'[n + 2] = f
        /\ \A x \in Elements(Pipe("client")') : x \in Elements(Pipe("client")) \/ x = s \/ x = f
    <2> DEFINE a == inbox["server"]
               t == <<s, f>>
               w == Pipe("client")
               v == Pipe("client")'
    <2>1. a \in Seq(Envelopes) /\ t \in Seq(Envelopes) /\ Len(t) = 2 /\ t[1] = s /\ t[2] = f
      BY <1>0 DEF TypeOK
    <2>2. v = a \o t
      BY <1>0, <1>4 DEF Pipe
    <2>3. n = Len(a)
      BY <1>6
    <2>4. Elements(t) = {s, f}
      BY DEF Elements
    <2>5. /\ \A i \in 1 .. Len(a) : w[i] = a[i]
          /\ Len(a) <= Len(w) /\ Len(w) \in Nat /\ Len(a) \in Nat
          /\ \A i \in 1 .. Len(w) : w[i] \in Elements(w)
      <3>1. /\ \A i \in 1 .. Len(inbox[Peer("client")]) :
                  Pipe("client")[i] = inbox[Peer("client")][i]
            /\ \A i \in 1 .. Len(Pipe("client")) : Pipe("client")[i] \in Elements(Pipe("client"))
        BY <1>0, PipeType
      <3>2. /\ Len(inbox[Peer("client")]) <= Len(Pipe("client"))
            /\ Len(Pipe("client")) \in Nat /\ Len(inbox[Peer("client")]) \in Nat
        BY <1>0, InboxWithin
      <3> QED BY <1>0, <3>1, <3>2
    <2> HIDE DEF a, t, w, v
    <2>6. /\ Grows(a, v) /\ Len(v) = Len(a) + Len(t)
          /\ \A i \in 1 .. Len(t) : v[Len(a) + i] = t[i]
          /\ Elements(v) = Elements(a) \cup Elements(t)
      BY <2>1, <2>2, ConcatGrows
    <2>7. \A i \in 1 .. n : v[i] = w[i] /\ i \in 1 .. Len(w)
      BY <2>3, <2>5, <2>6 DEF Grows
    <2>8. Len(v) = n + 2 /\ v[n + 1] = s /\ v[n + 2] = f
      <3>1. 1 \in 1 .. Len(t) /\ 2 \in 1 .. Len(t)
        BY <2>1
      <3> QED BY <2>1, <2>3, <2>6, <3>1
    <2>9. Elements(a) \subseteq Elements(w)
      BY <2>5 DEF Elements
    <2> QED BY <2>4, <2>6, <2>7, <2>8, <2>9 DEF w, v
  <1>8. Elements(Pipe("server")') \subseteq Elements(Pipe("server"))
    <2> DEFINE a == inbox["client"]
               b == outgoing["server"]
    <2>1. a \in Seq(Envelopes) /\ b \in Seq(Envelopes)
      BY <1>0 DEF TypeOK
    <2>2. Pipe("server") = a \o b /\ Pipe("server")' = <<>> \o b
      BY <1>0, <1>4 DEF Pipe
    <2> HIDE DEF a, b
    <2>3. Elements(a \o b) = Elements(a) \cup Elements(b)
      BY <2>1, ElementsConcat
    <2>4. Elements(<<>> \o b) = Elements(<<>>) \cup Elements(b) /\ Elements(<<>>) = {}
      BY <2>1, ElementsConcat, ElementsEmpty
    <2> QED BY <2>2, <2>3, <2>4
  <1>9. Places("server")' \subseteq Places("server")
    BY <1>4, <1>8 DEF Places
  <1>10. \A x \in Places("client")' : x \in Places("client") \/ x = s \/ x = f
    BY <1>4, <1>7 DEF Places
  <1>11. \A q \in Peers : nextMessageId[q] <= nextMessageId'[q]
    <2>1. nextMessageId["client"] <= nextMessageId'["client"]
      BY <1>1, <1>4
    <2>2. nextMessageId["server"] \in Nat
      BY <1>0 DEF TypeOK
    <2>3. nextMessageId["server"] <= nextMessageId'["server"]
      BY <1>4, <2>2
    <2> QED BY <2>1, <2>3 DEF Peers
  <1>12. Numbered'
    <2>1. \A q \in Peers : \/ nextMessageId'[q] > 0
                           \/ /\ handshakeId'[q] = handshakeId[q]
                              /\ remoteStarted'[q] = remoteStarted[q]
                              /\ running'[q] = running[q]
      BY <1>1, <1>4 DEF Peers
    <2>2. \A q \in Peers : \A x \in Elements(Pipe(q)') :
              \/ x \in Elements(Pipe(q)) \/ x \in sent'[q]
              \/ /\ nextMessageId[q] <= x.id /\ x.id < nextMessageId'[q]
                 /\ sent'[q] = sent[q]
      <3>1. \A x \in Elements(Pipe("client")') : x \in Elements(Pipe("client")) \/
               (nextMessageId["client"] <= x.id /\ x.id < nextMessageId'["client"])
        BY <1>1, <1>2, <1>3, <1>4, <1>7
      <3> QED BY <1>4, <1>8, <3>1 DEF Peers
    <2> QED BY <1>4, <1>11, <2>1, <2>2, NumberedFrame DEF ResyncInv
  <1>13. Heard'
    <2>1. \A q \in Peers : \A x \in Places(q)' :
              \/ x \in Places(q)
              \/ (x.ack = None \/ x.ack = maxReceived[q]) /\ x.re = None
      BY <1>2, <1>3, <1>9, <1>10 DEF Peers
    <2> QED BY <1>4, <1>11, <2>1, HeardFrame DEF ResyncInv
  <1>14. OneOutage'
    <2>1. handshakeId'["client"] # None /\ handshakeId'["client"] # resync'.flush
      BY <1>1, <1>4, BoundsAssumption
    <2> QED BY <1>4, <1>5, <1>8, <2>1 DEF ResyncInv, OneOutage
  <1>15. /\ \A q \in Peers : Retained(q) => Retained(q)'
         /\ \A q \in Peers : \A a : Honest(q, a) => Honest(q, a)'
    BY <1>4 DEF Retained, Honest
  <1>16. /\ Retained("client")' /\ Retained("server")'
         /\ Honest("client", maxReceived["server"])'
    <2>1. Honest("client", maxReceived["server"])'
      BY <1>0, <1>4, <1>5 DEF BeforeResync, Honest
    <2> QED BY <1>0, <1>5, <1>15, <2>1 DEF BeforeResync
  <1>17. /\ \A x \in Places("server")' : Honest("client", x.ack)' /\ x.re # resync'.flush
         /\ \A x \in Elements(running'["server"]) : x # resync'.flush
    <2>1. \A x \in Places("server") : x \in Envelopes
      <3>1. buffer["server"] \in Seq(Envelopes) /\ Pipe("server") \in Seq(Envelopes)
        BY <1>0, PipeType
      <3> QED BY <3>1, ElementOfSeq DEF Places, Elements
    <2>2. \A x \in Places("server") : x.re # id + 1
      <3> SUFFICES ASSUME NEW x \in Places("server") PROVE x.re # id + 1
        OBVIOUS
      <3>1. x.re \in Nat \cup {None}
        BY <2>1, EnvelopeFields
      <3>2. x.re # None => x.re < id
        BY <1>0, <1>1 DEF ResyncInv, Heard
      <3> QED BY <1>1, <3>1, <3>2, BoundsAssumption
    <2>3. \A x \in Elements(running["server"]) : x # id + 1
      <3> SUFFICES ASSUME NEW x \in Elements(running["server"]) PROVE x # id + 1
        OBVIOUS
      <3>1. x < id
        BY <1>0, <1>1 DEF ResyncInv, Heard
      <3> QED BY <1>1, <3>1
    <2>4. \A x \in Places("server") : Honest("client", x.ack)
      BY <1>0, <1>5 DEF BeforeResync
    <2> QED BY <1>0, <1>4, <1>9, <1>15, <2>2, <2>3, <2>4
  <1>18. Asked(n + 2)'
    <2>1. \A i \in 1 .. n : /\ Pipe("client")'[i].kind # "flush"
                            /\ Pipe("client")'[i].id # id + 1
      <3> SUFFICES ASSUME NEW i \in 1 .. n
                   PROVE  /\ Pipe("client")'[i].kind # "flush"
                          /\ Pipe("client")'[i].id # id + 1
        OBVIOUS
      <3>1. i \in 1 .. Len(Pipe("client")) /\ Pipe("client")'[i] = Pipe("client")[i]
        BY <1>7
      <3>2. Pipe("client")[i].id \in Nat /\ Pipe("client")[i].id < id
        BY <1>0, <1>1, <3>1, PipeIds DEF ResyncInv
      <3>3. Pipe("client")[i].kind # "flush"
        BY <1>0, <1>5, <3>1, PipeType DEF BeforeResync, NoFlush
      <3> QED BY <1>1, <3>1, <3>2, <3>3
    <2>2. \A i \in 1 .. Len(Pipe("client")') : i # n + 2 =>
             Pipe("client")'[i].kind # "flush" /\ Pipe("client")'[i].id # resync'.flush
      <3> SUFFICES ASSUME NEW i \in 1 .. n + 2, i # n + 2
                   PROVE  Pipe("client")'[i].kind # "flush" /\ Pipe("client")'[i].id # id + 1
        BY <1>4, <1>7
      <3>1. CASE i = n + 1
        BY <1>1, <1>2, <1>7, <3>1
      <3>2. CASE i # n + 1
        <4>1. i \in 1 .. n
          BY <1>6, <3>2
        <4> QED BY <2>1, <4>1
      <3> QED BY <3>1, <3>2
    <2>3. ASSUME NEW i \in 1 .. n
          PROVE  Covered("client", i)' /\ Honest("server", Pipe("client")[i].ack)'
      <3>1. i \in 1 .. Len(Pipe("client")) /\ \A j \in 1 .. i : Pipe("client")'[j] = Pipe("client")[j]
        BY <1>6, <1>7
      <3>2. Covered("client", i) /\ Pipe("client")'[i] = Pipe("client")[i]
        BY <1>5, <1>7, <3>1 DEF BeforeResync
      <3>3. Covered("client", i)'
        BY <1>4, <3>1, <3>2 DEF Covered
      <3>4. Honest("server", Pipe("client")[i].ack)
        BY <1>0, <1>5, <3>1, PipeType DEF BeforeResync, Places
      <3>5. Honest("server", Pipe("client")[i].ack)'
        BY <1>4, <3>2, <3>4 DEF Honest
      <3> QED BY <3>3, <3>5
    <2>4. \A i \in 1 .. (n + 2) - 1 :
             /\ Pipe("client")'[i].kind = "started" \/ Covered("client", i)'
             /\ Honest("server", Pipe("client")[i].ack)'
      <3> SUFFICES ASSUME NEW i \in 1 .. (n + 2) - 1
                   PROVE  /\ Pipe("client")'[i].kind = "started" \/ Covered("client", i)'
                          /\ Honest("server", Pipe("client")[i].ack)'
        OBVIOUS
      <3>1. CASE i = n + 1
        <4>1. Pipe("client")'[i] = s
          BY <1>7, <3>1
        <4> QED BY <1>2, <4>1 DEF Honest
      <3>2. CASE i # n + 1
        <4>1. i \in 1 .. n
          BY <1>6, <3>2
        <4> QED BY <2>3, <4>1
      <3> QED BY <3>1, <3>2
    <2>5. Honest("server", Pipe("client")[n + 2].ack)'
      <3>1. Honest("server", maxReceived["client"])
        BY <1>0, <1>5 DEF BeforeResync
      <3> QED BY <1>3, <1>4, <1>7, <3>1 DEF Honest
    <2>6. Pipe("client")'[n + 2].kind = "flush" /\ Pipe("client")'[n + 2].id = resync'.flush
      BY <1>3, <1>4, <1>7
    <2> QED BY <2>2, <2>4, <2>5, <2>6 DEF Asked
  <1>19. n + 2 \in 1 .. Len(Pipe("client")')
    BY <1>6, <1>7
  <1>20. FlushAsked'
    BY <1>4, <1>16, <1>17, <1>18, <1>19 DEF FlushAsked
  <1> QED BY <1>12, <1>13, <1>14, <1>20 DEF ResyncInv

-----------------------------------------------------------------------------
(* With at most one outage and no background sender.                         *)

(* Every step keeps the phases of the resync. *)
LEMMA ResyncStep ==
    ASSUME TypeOK, TypeOK', ResyncInv, [Next]_vars, MaxOutages <= 1, Background = {}
    PROVE  ResyncInv'
  <1>1. ASSUME NEW p \in Peers, StartHandlingMessages(p) \/ SendStep(p)
        PROVE  ResyncInv'
    <2>1. PICK e \in Envelopes : SendsOne(p, e)
      BY <1>1, SendSummary DEF ResyncInv
    <2> QED BY <2>1, SendPhase
  <1>2. ASSUME NEW p \in Peers, BackgroundStep(p)
        PROVE  FALSE
    <2>1. draft[p].stage = "idle"
      BY DEF ResyncInv, OneOutage
    <2> QED BY <1>2, <2>1 DEF BackgroundStep, BackgroundNumber, BackgroundStamp,
                              BackgroundBuffer, BackgroundQueue
  <1>3. ASSUME NEW p \in Peers, ReadStep(p)
        PROVE  ResyncInv'
    <2>1. CASE HandleFlush(p)
      BY <2>1, FlushPhase
    <2>2. CASE \/ SkipHandshakeAck(p) \/ HandleRemoteStarted(p)
               \/ HandleIncoming(p) \/ HandleResponse(p)
      <3>1. PICK m \in Envelopes : ReadsOne(p, m)
        BY <2>2, ReadSummary
      <3> QED BY <3>1, ReadPhase
    <2> QED BY <1>3, <2>1, <2>2 DEF ReadStep
  <1>4. ASSUME NEW p \in Peers, Transmit(p)
        PROVE  ResyncInv'
    <2>1. \A q \in Peers : Pipe(q)' = Pipe(q)
      BY <1>4, PipeTransmits
    <2> QED BY <1>4, <2>1, SamePhase DEF Transmit, connection, history
  <1>5. CASE CompleteResync
    BY <1>5, CompletePhase
  <1>6. CASE DropConnection
    BY <1>6, DropPhase
  <1>7. CASE ResyncTimeout
    <2>1. resync.status = "waiting" /\ (link = "down" \/ outages < MaxOutages)
      BY <1>7 DEF ResyncTimeout, Lose
    <2> QED BY <2>1, BoundsAssumption DEF ResyncInv, OneOutage
  <1>8. CASE Reconnect
    BY <1>8, ReconnectPhase
  <1>9. CASE UNCHANGED vars
    <2>1. \A q \in Peers : Pipe(q)' = Pipe(q)
      BY <1>9 DEF Pipe, vars
    <2> QED BY <1>9, <2>1, SamePhase DEF vars, connection, history
  <1> QED BY <1>1, <1>2, <1>3, <1>4, <1>5, <1>6, <1>7, <1>8, <1>9 DEF Next

(* Nothing is sent, heard or missing at first. *)
LEMMA ResyncInit == Init => ResyncInv
  <1> SUFFICES ASSUME Init PROVE ResyncInv
    OBVIOUS
  <1>1. \A p \in Peers : Pipe(p) = <<>> /\ buffer[p] = <<>> /\ running[p] = <<>>
    <2>1. <<>> \o <<>> = <<>>
      OBVIOUS
    <2> QED BY <2>1, PeerProperties DEF Init, Pipe
  <1>2. "client" \in Peers /\ "server" \in Peers
    BY DEF Peers
  <1>3. /\ \A p \in Peers : Elements(Pipe(p)) = {} /\ Places(p) = {}
        /\ \A p \in Peers : Elements(buffer[p]) = {} /\ Elements(running[p]) = {}
    BY <1>1, ElementsEmpty DEF Places
  <1>4. /\ \A p \in Peers : sent[p] = {} /\ maxReceived[p] = 0
        /\ \A p \in Peers : handshakeId[p] = None /\ remoteStarted[p] = FALSE
        /\ \A p \in Peers : draft[p].stage = "idle"
        /\ link = "up" /\ resync.status = "idle" /\ outages = 0
    BY DEF Init, NoDraft
  <1>5. Numbered
    BY <1>1, <1>3, <1>4 DEF Numbered
  <1>6. Heard
    BY <1>3, <1>4 DEF Heard
  <1>7. OneOutage
    BY <1>2, <1>3, <1>4 DEF OneOutage
  <1>8. /\ \A p \in Peers : Complete(p) /\ Retained(p)
        /\ \A p \in Peers : \A i : Covered(p, i)
        /\ \A p \in Peers : \A a : Honest(p, a)
    BY <1>4 DEF Complete, Retained, Covered, Honest
  <1>9. NoFlush
    BY <1>2, <1>3 DEF NoFlush
  <1>10. BeforeResync
    BY <1>2, <1>4, <1>8, <1>9, PeerProperties DEF BeforeResync
  <1> QED BY <1>5, <1>6, <1>7, <1>10 DEF ResyncInv

(* The phases hold in every reachable state. *)
LEMMA ResyncInvariant ==
    ASSUME MaxOutages <= 1, Background = {}
    PROVE  Spec => [](TypeOK /\ ResyncInv)
  <1>1. Init => TypeOK /\ ResyncInv
    BY TypeInit, ResyncInit
  <1>2. TypeOK /\ ResyncInv /\ [Next]_vars => (TypeOK /\ ResyncInv)'
    BY TypeStep, ResyncStep
  <1> QED BY <1>1, <1>2, PTL DEF Spec

(* While at most one connection is lost, and only the main threads send, no  *)
(* message is forgotten: until the peer has handled it, it is in the         *)
(* sender's buffer or on its way.                                            *)
THEOREM NothingLostCorrect ==
    ASSUME MaxOutages <= 1, Background = {}
    PROVE  Spec => []NothingLost
  <1>1. TypeOK /\ ResyncInv => NothingLost
    <2> SUFFICES ASSUME TypeOK, ResyncInv, NEW p \in Peers, NEW e \in sent[p],
                        e.id \notin received[Peer(p)]
                 PROVE  e.id \in Ids(buffer[p]) \cup Ids(outgoing[p]) \cup Ids(inbox[Peer(p)])
      BY DEF NothingLost
    <2>1. Retained(p) \/ Complete(p)
      BY DEF ResyncInv, BeforeResync, FlushAsked, FlushReplayed, Resynced, Peers
    <2>2. CASE Retained(p)
      BY <2>2 DEF Retained, Ids
    <2>3. CASE Complete(p)
      <3>1. inbox[Peer(p)] \in Seq(Envelopes) /\ outgoing[p] \in Seq(Envelopes)
        BY PipeType
      <3>2. Elements(Pipe(p)) = Elements(inbox[Peer(p)]) \cup Elements(outgoing[p])
        BY <3>1, ElementsConcat DEF Pipe
      <3> QED BY <2>3, <3>2 DEF Complete, Ids
    <2> QED BY <2>1, <2>2, <2>3
  <1> QED BY <1>1, ResyncInvariant, PTL

(* Under the same assumptions the client's max_received leaves no gap when  *)
(* it is not in the middle of a resync: the replay was complete.            *)
THEOREM WatermarkHonestCorrect ==
    ASSUME MaxOutages <= 1, Background = {}
    PROVE  Spec => []WatermarkHonest
  <1>1. TypeOK /\ ResyncInv => WatermarkHonest
    <2> SUFFICES ASSUME TypeOK, ResyncInv, resync.status \in {"idle", "done"},
                        NEW e \in Elements(buffer["server"])
                 PROVE  e.id \in received["client"] \/ e.id > maxReceived["client"]
      BY DEF WatermarkHonest
    <2>1. "client" \in Peers /\ "server" \in Peers /\ Peer("client") = "server"
          /\ Peer("server") = "client"
      BY DEF Peers, Peer
    <2>2. Honest("server", maxReceived["client"])
      BY <2>1 DEF ResyncInv, BeforeResync, FlushAsked, FlushReplayed, Resynced
    <2>3. e \in sent["server"] /\ e.id \in Nat
      BY <2>1, EnvelopeFields DEF ResyncInv, Numbered, TypeOK
    <2>4. maxReceived["client"] \in Nat
      BY <2>1 DEF TypeOK
    <2> QED BY <2>1, <2>2, <2>3, <2>4, BoundsAssumption DEF Honest
  <1> QED BY <1>1, ResyncInvariant, PTL

=============================================================================
