-------------------------- MODULE ConnectionsProofs --------------------------
(***************************************************************************)
(* Proofs about Connections: whatever is written, cut into chunks, closed  *)
(* and broken, messages and bytes arrive in order.                         *)
(*                                                                         *)
(* The invariant of the writer: the queue is what was pushed from its      *)
(* front on; the parts on the way to the reader, and those it has read,    *)
(* are the parts of the messages pushed, two of each, up to some of the    *)
(* front's; and at most one write is under way.  That of the relay: the    *)
(* chunks queued hold the bytes from the last one relayed to the last one  *)
(* read.                                                                   *)
(***************************************************************************)
EXTENDS Connections, SequenceTheorems, TLAPS

----------------------------------------------------------------------------
(* The queued writer *)

Parts == Messages \X {"first", "second"}
Completions == {<<"written">>, <<"failed">>}

(* The parts between the socket and the reader: the ones read, then the wire. *)
Span == Len(m_inbound) + Len(wire)
Transit(k) == IF k <= Len(m_inbound) THEN m_inbound[k] ELSE wire[k - Len(m_inbound)]

(* How many parts were written: two of each message before the front, and    *)
(* some of the front.                                                        *)
Front == Len(pushed) - Len(m_queue)
OfFront == 2 * Len(received) + Span - 2 * Front

WriterTyped ==
  /\ WriterTypeOK
  /\ framing = "block" => Len(m_inbound) <= 1
  /\ Len(m_queue) <= Len(pushed)
  /\ \A i \in 1..Len(m_queue) : m_queue[i] = pushed[Front + i]
  /\ m_queue = <<>> <=> part = "idle"

(* Completions of the one write that may be under way.                       *)
StrandInv ==
  /\ \A i, j \in 1..Len(strand) :
       strand[i] \in Completions /\ strand[j] \in Completions => i = j
  /\ (\E i \in 1..Len(strand) : strand[i] \in Completions) <=> part = "sent"
  /\ \A i \in 1..Len(strand) : strand[i] = <<"terminate">> => <<"terminate">> \in asked

SentInv ==
  /\ OfFront \in 0..2
  /\ part \in {"idle", "first", "threw"} => OfFront = 0
  /\ part = "second" => OfFront = 1
  /\ \A i \in 1..Len(strand) : strand[i] = <<"written">> => OfFront = 2
  /\ part = "failed" => OfFront <= 1
  /\ \A i \in 1..Len(strand) : strand[i] = <<"failed">> => OfFront <= 1
  /\ ~open /\ <<"terminate">> \notin asked /\ errors = 0 => OfFront = 0

TransitInv ==
  \A k \in 1..Span : \A m \in 1..Len(pushed) :
    /\ 2 * Len(received) + k = 2 * m - 1 => Transit(k) = <<pushed[m], "first">>
    /\ 2 * Len(received) + k = 2 * m => Transit(k) = <<pushed[m], "second">>

GotInv ==
  /\ Len(received) <= Len(pushed)
  /\ \A i \in 1..Len(received) : received[i] = pushed[i]

WriterInv == WriterTyped /\ StrandInv /\ SentInv /\ TransitInv /\ GotInv

----------------------------------------------------------------------------
(* Of the strand *)

LEMMA Taken ==
  ASSUME NEW S, NEW s \in Seq(S), s # <<>>
  PROVE  /\ Tail(s) \in Seq(S) /\ Len(Tail(s)) = Len(s) - 1 /\ Len(s) \in Nat
         /\ Head(s) = s[1] /\ Head(s) \in S /\ 1 \in 1..Len(s)
         /\ \A i \in 1..Len(Tail(s)) : Tail(s)[i] = s[i + 1] /\ i + 1 \in 1..Len(s)
<1>1. Len(s) \in Nat /\ Len(s) # 0 OBVIOUS
<1> QED BY <1>1, HeadTailProperties

(* A sequence with one element more. *)
LEMMA Added ==
  ASSUME NEW S, NEW s \in Seq(S), NEW e \in S
  PROVE  /\ Append(s, e) \in Seq(S) /\ Len(Append(s, e)) = Len(s) + 1 /\ Len(s) \in Nat
         /\ Append(s, e)[Len(s) + 1] = e /\ Append(s, e) # <<>>
         /\ \A i \in 1..Len(s) : Append(s, e)[i] = s[i]
         /\ \A i \in 1..Len(s) + 1 : i = Len(s) + 1 \/ i \in 1..Len(s)
  BY AppendProperties

(* The strand runs its first handler.                                        *)
LEMMA StrandRuns ==
  ASSUME WriterTypeOK, StrandInv, NEW h, Next_(h), strand' = Tail(strand),
         UNCHANGED asked,
         IF h \in Completions THEN part' # "sent" ELSE part' = "sent" <=> part = "sent"
  PROVE  /\ StrandInv' /\ strand' \in Seq(Handlers)
         /\ h \in Completions => part = "sent"
         /\ \A i \in 1..Len(strand') :
              /\ strand'[i] = strand[i + 1] /\ i + 1 \in 1..Len(strand)
              /\ h \in Completions => strand'[i] \notin Completions
         /\ 1 \in 1..Len(strand) /\ strand[1] = h
<1>1. strand \in Seq(Handlers) /\ strand # <<>> /\ Head(strand) = h
  BY DEF WriterTypeOK, Next_
<1>2. /\ Tail(strand) \in Seq(Handlers) /\ Len(Tail(strand)) = Len(strand) - 1
      /\ Len(strand) \in Nat /\ h = strand[1] /\ 1 \in 1..Len(strand)
      /\ \A i \in 1..Len(Tail(strand)) :
           Tail(strand)[i] = strand[i + 1] /\ i + 1 \in 1..Len(strand)
  BY <1>1, Taken
<1>3. \A i \in 1..Len(strand') : strand'[i] = strand[i + 1] /\ i + 1 \in 1..Len(strand)
  BY <1>2
<1>4. \A i \in 1..Len(strand) : i # 1 => i - 1 \in 1..Len(strand') /\ strand'[i - 1] = strand[i]
  BY <1>2
<1>5. \A i \in 1..Len(strand') : h \in Completions => strand'[i] \notin Completions
  BY <1>2, <1>3 DEF StrandInv
<1>6. \A i, j \in 1..Len(strand') :
        strand'[i] \in Completions /\ strand'[j] \in Completions => i = j
  BY <1>3 DEF StrandInv
<1>7. (\E i \in 1..Len(strand') : strand'[i] \in Completions) <=> part' = "sent"
  <2>1. CASE h \in Completions BY <1>5, <2>1
  <2>2. CASE h \notin Completions
    <3>1. (\E i \in 1..Len(strand') : strand'[i] \in Completions)
            <=> (\E i \in 1..Len(strand) : strand[i] \in Completions)
      BY <1>2, <1>3, <1>4, <2>2
    <3> QED BY <2>2, <3>1 DEF StrandInv
  <2> QED BY <2>1, <2>2
<1>8. \A i \in 1..Len(strand') : strand'[i] = <<"terminate">> => <<"terminate">> \in asked'
  BY <1>3 DEF StrandInv
<1>9. h \in Completions => part = "sent" BY <1>2 DEF StrandInv
<1> QED BY <1>2, <1>3, <1>5, <1>6, <1>7, <1>8, <1>9 DEF StrandInv, Completions

(* A handler is posted. *)
LEMMA StrandPosts ==
  ASSUME WriterTypeOK, StrandInv, NEW h \in Handlers, Post(h), asked \subseteq asked',
         h = <<"terminate">> => h \in asked',
         IF h \in Completions THEN part # "sent" /\ part' = "sent"
                              ELSE part' = "sent" <=> part = "sent"
  PROVE  /\ StrandInv' /\ strand' \in Seq(Handlers)
         /\ \A i \in 1..Len(strand') :
              strand'[i] = h \/ (i \in 1..Len(strand) /\ strand'[i] = strand[i])
<1>1. strand \in Seq(Handlers) /\ strand' = Append(strand, h) BY DEF WriterTypeOK, Post
<1>2. /\ strand' \in Seq(Handlers) /\ Len(strand') = Len(strand) + 1 /\ Len(strand) \in Nat
      /\ strand'[Len(strand) + 1] = h
      /\ \A i \in 1..Len(strand) : strand'[i] = strand[i]
      /\ \A i \in 1..Len(strand') : i = Len(strand) + 1 \/ i \in 1..Len(strand)
  BY <1>1, Added
<1>3. \A i \in 1..Len(strand) : i \in 1..Len(strand') BY <1>2
<1>4. Len(strand) + 1 \in 1..Len(strand') BY <1>2
<1>5. (\E i \in 1..Len(strand') : strand'[i] \in Completions) <=> part' = "sent"
  BY <1>2, <1>3, <1>4 DEF StrandInv
<1>6. \A i, j \in 1..Len(strand') :
        strand'[i] \in Completions /\ strand'[j] \in Completions => i = j
  <2> SUFFICES ASSUME NEW i \in 1..Len(strand'), NEW j \in 1..Len(strand'),
                      strand'[i] \in Completions, strand'[j] \in Completions
               PROVE  i = j
    OBVIOUS
  <2>1. CASE h \in Completions
    <3>1. \A k \in 1..Len(strand) : strand[k] \notin Completions BY <2>1 DEF StrandInv
    <3> QED BY <1>2, <3>1
  <2>2. CASE h \notin Completions
    <3>1. i \in 1..Len(strand) /\ j \in 1..Len(strand) BY <1>2, <2>2
    <3> QED BY <1>2, <3>1 DEF StrandInv
  <2> QED BY <2>1, <2>2
<1>7. \A i \in 1..Len(strand') : strand'[i] = <<"terminate">> => <<"terminate">> \in asked'
  BY <1>2 DEF StrandInv
<1>8. StrandInv' BY <1>5, <1>6, <1>7 DEF StrandInv, Completions
<1>9. \A i \in 1..Len(strand') :
        strand'[i] = h \/ (i \in 1..Len(strand) /\ strand'[i] = strand[i])
  BY <1>2
<1> QED BY <1>2, <1>8, <1>9

----------------------------------------------------------------------------
(* Of the parts *)

LEMMA WriterTypes ==
  ASSUME WriterTypeOK
  PROVE  /\ Len(m_queue) \in Nat /\ Len(pushed) \in Nat /\ Len(received) \in Nat
         /\ Len(m_inbound) \in Nat /\ Len(wire) \in Nat /\ Span \in Nat
         /\ m_queue \in Seq(Messages) /\ pushed \in Seq(Messages)
         /\ received \in Seq(Messages) /\ m_inbound \in Seq(Parts) /\ wire \in Seq(Parts)
<1>1. /\ m_queue \in Seq(Messages) /\ pushed \in Seq(Messages)
      /\ received \in Seq(Messages) /\ m_inbound \in Seq(Parts) /\ wire \in Seq(Parts)
  BY DEF WriterTypeOK, Parts
<1> QED BY <1>1 DEF Span

(* The numbers stay as long as these lengths do. *)
LEMMA SentKept ==
  ASSUME WriterInv, Span' = Span, Len(received') = Len(received),
         Len(pushed') = Len(pushed), Len(m_queue') = Len(m_queue)
  PROVE  OfFront' = OfFront
  BY DEF OfFront, Front

(* Only parts of messages that were pushed have been written. *)
LEMMA PartsOfPushed ==
  ASSUME WriterInv
  PROVE  /\ 2 * Len(received) + Span <= 2 * Len(pushed)
         /\ 2 * Len(received) + Span <= 2 * Front + 2
         /\ Front \in Nat /\ OfFront \in Nat
         /\ 2 * Len(received) + Span = 2 * Front + OfFront
         /\ part # "idle" => Front + 1 \in 1..Len(pushed) /\ Head(m_queue) = pushed[Front + 1]
<1>1. /\ Span \in Nat /\ Len(received) \in Nat /\ Len(pushed) \in Nat /\ Len(m_queue) \in Nat
      /\ Len(m_queue) <= Len(pushed) /\ m_queue \in Seq(Messages)
  BY WriterTypes DEF WriterInv, WriterTyped
<1>2. Front \in Nat /\ Front = Len(pushed) - Len(m_queue) BY <1>1 DEF Front
<1>3. OfFront = 2 * Len(received) + Span - 2 * Front /\ OfFront \in 0..2
  BY DEF OfFront, WriterInv, SentInv
<1>4. CASE part = "idle"
  <2>1. OfFront = 0 BY <1>4 DEF WriterInv, SentInv
  <2> QED BY <1>1, <1>2, <1>3, <1>4, <2>1
<1>5. CASE part # "idle"
  <2>1. m_queue # <<>> BY <1>5 DEF WriterInv, WriterTyped
  <2>2. Len(m_queue) >= 1 /\ 1 \in 1..Len(m_queue) /\ Head(m_queue) = m_queue[1]
    BY <1>1, <2>1, Taken
  <2>3. Head(m_queue) = pushed[Front + 1]
    BY <2>2 DEF WriterInv, WriterTyped
  <2> QED BY <1>1, <1>2, <1>3, <2>2, <2>3
<1> QED BY <1>4, <1>5

(* What is on its way stays, while nothing is written or made a message of. *)
LEMMA TransitKept ==
  ASSUME WriterInv, Span' = Span, \A k \in 1..Span : Transit(k)' = Transit(k),
         UNCHANGED received, Len(pushed') >= Len(pushed), Len(pushed') \in Nat,
         \A m \in 1..Len(pushed) : pushed'[m] = pushed[m]
  PROVE  TransitInv'
<1>1. /\ Span \in Nat /\ Len(received) \in Nat /\ Len(pushed) \in Nat /\ Len(m_queue) \in Nat
      /\ Len(m_queue) <= Len(pushed)
  BY WriterTypes DEF WriterInv, WriterTyped
<1>2. 2 * Len(received) + Span <= 2 * Len(pushed) BY PartsOfPushed
<1> SUFFICES ASSUME NEW k \in 1..Span, NEW m \in 1..Len(pushed'),
                    2 * Len(received) + k \in {2 * m - 1, 2 * m}
             PROVE  /\ m \in 1..Len(pushed) /\ pushed'[m] = pushed[m]
                    /\ Transit(k)' = Transit(k)
  BY DEF TransitInv, WriterInv
<1>3. k <= Span /\ 2 * Len(received) + k >= 2 * m - 1 /\ k \in Nat /\ m \in Nat BY <1>1
<1>4. m <= Len(pushed) BY <1>1, <1>2, <1>3
<1> QED BY <1>1, <1>3, <1>4

----------------------------------------------------------------------------
(* Of the steps *)

(* Calls, and handlers that write nothing and queue nothing. *)
LEMMA OthersKeep ==
  ASSUME WriterInv, UNCHANGED <<framing, m_queue, wire, m_inbound, received, pushed>>,
         WriterTypeOK', StrandInv', SentInv',
         m_queue = <<>> <=> part' = "idle"
  PROVE  WriterInv'
<1>1. UNCHANGED <<Span, Front>> BY DEF Span, Front
<1>2. WriterTyped' BY <1>1 DEF WriterInv, WriterTyped
<1>3. \A k \in 1..Span : Transit(k)' = Transit(k) BY DEF Transit
<1>4. Len(pushed') \in Nat /\ Len(pushed') >= Len(pushed) BY WriterTypes DEF WriterInv, WriterTyped
<1>5. TransitInv' BY <1>1, <1>3, <1>4, TransitKept
<1>6. GotInv' BY DEF WriterInv, GotInv
<1> QED BY <1>2, <1>5, <1>6 DEF WriterInv

(* The owner's write() and close() only post handlers. *)
LEMMA CallsKeep ==
  ASSUME WriterInv,
         (\E m \in Messages : Write(m)) \/ (\E h \in Handlers : CloseWriter(h))
  PROVE  WriterInv'
<1>1. PICK h \in Handlers : /\ Post(h) /\ asked' = asked \cup {h} /\ h \notin Completions
                            /\ UNCHANGED <<framing, m_queue, m_last, part, open, wire,
                                           m_inbound, received, pushed, errors>>
  BY DEF Write, CloseWriter, Handlers, Completions
<1>2. /\ StrandInv' /\ strand' \in Seq(Handlers)
      /\ \A i \in 1..Len(strand') :
           strand'[i] = h \/ (i \in 1..Len(strand) /\ strand'[i] = strand[i])
  BY <1>1, StrandPosts DEF WriterInv, WriterTyped
<1>3. WriterTypeOK' BY <1>1, <1>2 DEF WriterInv, WriterTyped, WriterTypeOK
<1>4. OfFront' = OfFront BY <1>1, SentKept DEF Span
<1>5. SentInv' BY <1>1, <1>2, <1>4 DEF WriterInv, SentInv, Completions
<1> QED BY <1>1, <1>2, <1>3, <1>5, OthersKeep DEF WriterInv, WriterTyped

(* Closing and terminating leave the queue as it is. *)
LEMMA EndsKeepOrder ==
  ASSUME WriterInv, Close_ \/ Terminate_
  PROVE  WriterInv'
<1>1. PICK h \in {<<"close">>, <<"terminate">>} :
        /\ Next_(h) /\ strand' = Tail(strand) /\ m_last' = TRUE
        /\ UNCHANGED <<framing, m_queue, part, wire, m_inbound, received, pushed, errors, asked>>
        /\ h = <<"close">> => open' = (open /\ (m_last \/ m_queue # <<>>))
        /\ h = <<"terminate">> => open' = FALSE
  BY DEF Close_, Terminate_
<1>2. h \notin Completions BY DEF Completions
<1>3. /\ StrandInv' /\ strand' \in Seq(Handlers)
      /\ \A i \in 1..Len(strand') : strand'[i] = strand[i + 1] /\ i + 1 \in 1..Len(strand)
      /\ 1 \in 1..Len(strand) /\ strand[1] = h
  BY <1>1, <1>2, StrandRuns DEF WriterInv, WriterTyped
<1>4. open' \in BOOLEAN /\ (open' => open) BY <1>1 DEF WriterInv, WriterTyped, WriterTypeOK
<1>5. WriterTypeOK' BY <1>1, <1>3, <1>4 DEF WriterInv, WriterTyped, WriterTypeOK
<1>6. OfFront' = OfFront BY <1>1, SentKept DEF Span
<1>7. ~open' /\ <<"terminate">> \notin asked /\ errors = 0 => OfFront = 0
  <2> SUFFICES ASSUME ~open', <<"terminate">> \notin asked, errors = 0 PROVE OfFront = 0
    OBVIOUS
  <2>1. h = <<"close">> BY <1>3 DEF WriterInv, StrandInv
  <2>2. ~open \/ m_queue = <<>>
    BY <1>1, <2>1 DEF WriterInv, WriterTyped, WriterTypeOK
  <2> QED BY <2>2 DEF WriterInv, WriterTyped, SentInv
<1>8. SentInv' BY <1>1, <1>3, <1>6, <1>7 DEF WriterInv, SentInv
<1> QED BY <1>1, <1>3, <1>5, <1>8, OthersKeep DEF WriterInv, WriterTyped

(* The handler of an error stops writing. *)
LEMMA ErrorKeeps ==
  ASSUME WriterInv, HandleError
  PROVE  WriterInv'
<1>1. /\ Next_(<<"failed">>) /\ strand' = Tail(strand) /\ part' = "failed"
      /\ UNCHANGED <<framing, m_queue, m_last, open, wire, m_inbound, received,
                     pushed, errors, asked>>
  BY DEF HandleError
<1>2. <<"failed">> \in Completions BY DEF Completions
<1>3. /\ StrandInv' /\ strand' \in Seq(Handlers) /\ part = "sent"
      /\ \A i \in 1..Len(strand') : strand'[i] \notin Completions
      /\ 1 \in 1..Len(strand) /\ strand[1] = <<"failed">>
  BY <1>1, <1>2, StrandRuns DEF WriterInv, WriterTyped
<1>4. WriterTypeOK' BY <1>1, <1>3 DEF WriterInv, WriterTyped, WriterTypeOK
<1>5. OfFront' = OfFront BY <1>1, SentKept DEF Span
<1>6. OfFront <= 1 BY <1>3 DEF WriterInv, SentInv
<1>7. SentInv' BY <1>1, <1>3, <1>5, <1>6 DEF WriterInv, SentInv, Completions
<1> QED BY <1>1, <1>3, <1>4, <1>7, OthersKeep DEF WriterInv, WriterTyped

(* A write that fails leaves a first part of a message on the wire. *)
LEMMA FailureKeeps ==
  ASSUME WriterInv, WriteFails
  PROVE  WriterInv'
<1>1. /\ part \in {"first", "second"} /\ part' = "sent" /\ Post(<<"failed">>)
      /\ \/ ~open /\ UNCHANGED errors
         \/ open /\ errors < MaxErrors /\ errors' = errors + 1
      /\ UNCHANGED <<framing, m_queue, m_last, open, wire, m_inbound, received, pushed, asked>>
  BY DEF WriteFails
<1>2. <<"failed">> \in Completions /\ <<"failed">> \in Handlers /\ <<"failed">> # <<"written">>
      /\ <<"failed">> # <<"terminate">>
  BY DEF Completions, Handlers
<1>3. /\ StrandInv' /\ strand' \in Seq(Handlers)
      /\ \A i \in 1..Len(strand') :
           strand'[i] = <<"failed">> \/ (i \in 1..Len(strand) /\ strand'[i] = strand[i])
  BY <1>1, <1>2, StrandPosts DEF WriterInv, WriterTyped
<1>4. errors' \in 0..MaxErrors /\ (errors' = 0 => errors = 0 /\ ~open)
  BY <1>1, MaxErrorsAssumption DEF WriterInv, WriterTyped, WriterTypeOK
<1>5. WriterTypeOK' BY <1>1, <1>3, <1>4 DEF WriterInv, WriterTyped, WriterTypeOK
<1>6. OfFront' = OfFront BY <1>1, SentKept DEF Span
<1>7. OfFront <= 1 BY <1>1 DEF WriterInv, SentInv
<1>8. \A i \in 1..Len(strand') : strand'[i] # <<"written">>
  BY <1>1, <1>2, <1>3 DEF WriterInv, StrandInv, Completions
<1>9. SentInv' BY <1>1, <1>2, <1>4, <1>6, <1>7, <1>8 DEF WriterInv, SentInv
<1> QED BY <1>1, <1>3, <1>5, <1>9, OthersKeep DEF WriterInv, WriterTyped

(* A handler that pushes a message puts it last. *)
LEMMA PushKeeps ==
  ASSUME WriterInv, NEW m \in Messages, Push(m)
  PROVE  WriterInv'
<1> DEFINE h == <<"push", m>>
<1>1. /\ Next_(h) /\ strand' = Tail(strand) /\ pushed' = Append(pushed, m)
      /\ m_queue' = Append(m_queue, m)
      /\ UNCHANGED <<framing, m_last, open, wire, m_inbound, received, errors, asked>>
      /\ IF Len(m_queue') = 1 THEN part' \in {"threw", "first"} ELSE UNCHANGED part
  BY DEF Push, spawn_writer
<1>2. h \notin Completions BY DEF Completions
<1>3. /\ m_queue' \in Seq(Messages) /\ Len(m_queue') = Len(m_queue) + 1 /\ Len(m_queue) \in Nat
      /\ m_queue'[Len(m_queue) + 1] = m /\ m_queue' # <<>>
      /\ \A i \in 1..Len(m_queue) : m_queue'[i] = m_queue[i]
  BY <1>1, WriterTypes, Added DEF WriterInv, WriterTyped
<1>4. /\ pushed' \in Seq(Messages) /\ Len(pushed') = Len(pushed) + 1 /\ Len(pushed) \in Nat
      /\ pushed'[Len(pushed) + 1] = m
      /\ \A i \in 1..Len(pushed) : pushed'[i] = pushed[i]
  BY <1>1, WriterTypes, Added DEF WriterInv, WriterTyped
<1>5. Len(m_queue') = 1 => part = "idle"
  <2> SUFFICES ASSUME Len(m_queue') = 1 PROVE m_queue = <<>>
    BY DEF WriterInv, WriterTyped
  <2>1. Len(m_queue) = 0 BY <1>3
  <2> QED BY <2>1, WriterTypes, EmptySeq DEF WriterInv, WriterTyped
<1>6. part' = "sent" <=> part = "sent" BY <1>1, <1>5
<1>7. /\ StrandInv' /\ strand' \in Seq(Handlers)
      /\ \A i \in 1..Len(strand') : strand'[i] = strand[i + 1] /\ i + 1 \in 1..Len(strand)
  <2> HIDE DEF h
  <2> QED BY <1>1, <1>2, <1>6, StrandRuns DEF WriterInv, WriterTyped
<1>8. part' \in {"idle", "first", "second", "sent", "threw", "failed"}
  BY <1>1 DEF WriterInv, WriterTyped, WriterTypeOK
<1>9. WriterTypeOK'
  <2>1. {m_queue, received, pushed}' \subseteq Seq(Messages)
    BY <1>1, <1>3, <1>4, WriterTypes DEF WriterInv, WriterTyped
  <2> QED BY <1>1, <1>7, <1>8, <2>1 DEF WriterInv, WriterTyped, WriterTypeOK
<1>10. Front' = Front /\ Span' = Span BY <1>1, <1>3, <1>4 DEF Front, Span
<1>11. OfFront' = OfFront BY <1>1, <1>10 DEF OfFront
<1>12. WriterTyped'
  <2>1. m_queue' # <<>> /\ part' # "idle"
    <3>1. m_queue = <<>> => Len(m_queue') = 1 BY <1>3
    <3> QED BY <1>1, <1>3, <3>1 DEF WriterInv, WriterTyped
  <2>2. Len(m_queue') <= Len(pushed') BY <1>3, <1>4 DEF WriterInv, WriterTyped
  <2>3. ASSUME NEW i \in 1..Len(m_queue')
        PROVE  m_queue'[i] = pushed'[Front' + i]
    <3>1. CASE i = Len(m_queue) + 1
      <4>1. Front' + i = Len(pushed) + 1 BY <1>3, <1>4, <1>10, <3>1 DEF Front
      <4> QED BY <1>3, <1>4, <3>1, <4>1
    <3>2. CASE i # Len(m_queue) + 1
      <4>1. i \in 1..Len(m_queue) /\ Front + i \in 1..Len(pushed)
        BY <1>3, <1>4, <3>2 DEF Front, WriterInv, WriterTyped
      <4>2. m_queue[i] = pushed[Front + i] BY <4>1 DEF WriterInv, WriterTyped
      <4> QED BY <1>3, <1>4, <1>10, <4>1, <4>2
    <3> QED BY <3>1, <3>2
  <2>4. framing' = "block" => Len(m_inbound)' <= 1 BY <1>1 DEF WriterInv, WriterTyped
  <2> QED BY <1>9, <2>1, <2>2, <2>3, <2>4 DEF WriterTyped
<1>13. part' = part \/ (part = "idle" /\ part' \in {"threw", "first"}) BY <1>1, <1>5
<1>14. SentInv' BY <1>1, <1>7, <1>11, <1>13 DEF WriterInv, SentInv
<1>15. TransitInv'
  <2>1. \A k \in 1..Span : Transit(k)' = Transit(k) BY <1>1 DEF Transit
  <2>2. UNCHANGED received /\ Len(pushed') >= Len(pushed) /\ Len(pushed') \in Nat BY <1>1, <1>4
  <2> QED BY <1>4, <1>10, <2>1, <2>2, TransitKept
<1>16. GotInv'
  <2>1. Len(received) \in Nat /\ received' = received BY <1>1, WriterTypes DEF WriterInv, WriterTyped
  <2> QED BY <1>4, <2>1 DEF WriterInv, GotInv
<1> QED BY <1>7, <1>12, <1>14, <1>15, <1>16 DEF WriterInv

(* A write that completes takes the first message off the queue. *)
LEMMA CompletionKeeps ==
  ASSUME WriterInv, HandleWrite
  PROVE  WriterInv'
<1>1. /\ Next_(<<"written">>) /\ strand' = Tail(strand) /\ m_queue' = Tail(m_queue)
      /\ UNCHANGED <<framing, m_last, wire, m_inbound, received, pushed, errors, asked>>
      /\ IF m_queue' = <<>> THEN part' = "idle" /\ open' = (open /\ ~m_last)
                            ELSE part' \in {"threw", "first"} /\ UNCHANGED open
  BY DEF HandleWrite, spawn_writer
<1>2. <<"written">> \in Completions BY DEF Completions
<1>3. part' \in {"idle", "threw", "first"} BY <1>1
<1>4. /\ StrandInv' /\ strand' \in Seq(Handlers) /\ part = "sent"
      /\ \A i \in 1..Len(strand') : strand'[i] \notin Completions
      /\ 1 \in 1..Len(strand) /\ strand[1] = <<"written">>
  BY <1>1, <1>2, <1>3, StrandRuns DEF WriterInv, WriterTyped
<1>5. m_queue # <<>> /\ OfFront = 2 BY <1>4 DEF WriterInv, WriterTyped, SentInv
<1>6. /\ Tail(m_queue) \in Seq(Messages) /\ Len(Tail(m_queue)) = Len(m_queue) - 1
      /\ Len(m_queue) \in Nat
      /\ \A i \in 1..Len(Tail(m_queue)) :
           Tail(m_queue)[i] = m_queue[i + 1] /\ i + 1 \in 1..Len(m_queue)
  BY <1>5, WriterTypes, Taken DEF WriterInv, WriterTyped
<1>7. /\ Span \in Nat /\ Len(received) \in Nat /\ Len(pushed) \in Nat
      /\ Len(m_queue) <= Len(pushed) /\ pushed \in Seq(Messages) /\ received \in Seq(Messages)
  BY WriterTypes DEF WriterInv, WriterTyped
<1>8. Front' = Front + 1 /\ Front \in Int /\ Span' = Span BY <1>1, <1>6, <1>7 DEF Front, Span
<1>9. OfFront' = 0 BY <1>1, <1>5, <1>7, <1>8 DEF OfFront
<1>10. open' \in BOOLEAN BY <1>1 DEF WriterInv, WriterTyped, WriterTypeOK
<1>11. WriterTypeOK'
  <2>1. {m_queue, received, pushed}' \subseteq Seq(Messages) BY <1>1, <1>6, <1>7
  <2> QED BY <1>1, <1>3, <1>4, <1>10, <2>1 DEF WriterInv, WriterTyped, WriterTypeOK
<1>12. WriterTyped'
  <2>1. m_queue' = <<>> <=> part' = "idle" BY <1>1
  <2>2. Len(m_queue') <= Len(pushed') BY <1>1, <1>6, <1>7
  <2>3. ASSUME NEW i \in 1..Len(m_queue')
        PROVE  m_queue'[i] = pushed'[Front' + i]
    <3>1. m_queue'[i] = m_queue[i + 1] /\ i + 1 \in 1..Len(m_queue) /\ i \in Nat BY <1>1, <1>6
    <3>2. m_queue[i + 1] = pushed[Front + (i + 1)] BY <3>1 DEF WriterInv, WriterTyped
    <3>3. Front + (i + 1) = Front' + i BY <1>8, <3>1
    <3> QED BY <1>1, <3>1, <3>2, <3>3
  <2>4. framing' = "block" => Len(m_inbound)' <= 1 BY <1>1 DEF WriterInv, WriterTyped
  <2> QED BY <1>11, <2>1, <2>2, <2>3, <2>4 DEF WriterTyped
<1>13. SentInv'
  <2>1. \A i \in 1..Len(strand') : strand'[i] # <<"written">> /\ strand'[i] # <<"failed">>
    BY <1>4 DEF Completions
  <2>2. OfFront' \in 0..2 /\ part' # "second" /\ part' # "failed" BY <1>3, <1>9
  <2> QED BY <1>9, <2>1, <2>2 DEF SentInv
<1>14. TransitInv'
  <2>1. \A k \in 1..Span : Transit(k)' = Transit(k) BY <1>1 DEF Transit
  <2>2. /\ UNCHANGED received /\ Len(pushed') >= Len(pushed) /\ Len(pushed') \in Nat
        /\ \A m \in 1..Len(pushed) : pushed'[m] = pushed[m]
    BY <1>1, <1>7
  <2> QED BY <1>8, <2>1, <2>2, TransitKept
<1>15. GotInv' BY <1>1 DEF WriterInv, GotInv
<1> QED BY <1>4, <1>12, <1>13, <1>14, <1>15 DEF WriterInv

(* A part of the front goes out. *)
LEMMA PartKeeps ==
  ASSUME WriterInv, WritePart
  PROVE  WriterInv'
<1> DEFINE p == <<Head(m_queue), part>>
<1>1. /\ part \in {"first", "second"} /\ open /\ wire' = Append(wire, p)
      /\ UNCHANGED <<framing, m_queue, m_last, open, m_inbound, received, pushed, errors, asked>>
      /\ \/ part = "first" /\ part' = "second" /\ UNCHANGED strand
         \/ part = "second" /\ part' = "sent" /\ Post(<<"written">>)
  BY DEF WritePart
<1>2. part # "idle" BY <1>1
<1>3. /\ 2 * Len(received) + Span <= 2 * Front + 2 /\ Front \in Nat /\ OfFront \in Nat
      /\ 2 * Len(received) + Span = 2 * Front + OfFront
      /\ Front + 1 \in 1..Len(pushed) /\ Head(m_queue) = pushed[Front + 1]
  BY <1>2, PartsOfPushed
<1>4. /\ Span \in Nat /\ Len(received) \in Nat /\ Len(pushed) \in Nat /\ pushed \in Seq(Messages)
      /\ Len(m_inbound) \in Nat /\ Len(wire) \in Nat /\ wire \in Seq(Parts)
      /\ m_queue \in Seq(Messages)
  BY WriterTypes DEF WriterInv, WriterTyped
<1>5. p \in Parts
  <2>1. Head(m_queue) \in Messages BY <1>3, <1>4
  <2> QED BY <1>1, <2>1 DEF Parts
<1>6. /\ wire' \in Seq(Parts) /\ Len(wire') = Len(wire) + 1
      /\ wire'[Len(wire) + 1] = p
      /\ \A i \in 1..Len(wire) : wire'[i] = wire[i]
  <2> HIDE DEF p
  <2> QED BY <1>1, <1>4, <1>5, Added
<1>7. Span' = Span + 1 /\ Front' = Front BY <1>1, <1>4, <1>6 DEF Span, Front
<1>8. OfFront' = OfFront + 1 BY <1>1, <1>3, <1>4, <1>7 DEF OfFront
<1>9. OfFront = IF part = "first" THEN 0 ELSE 1 BY <1>1 DEF WriterInv, SentInv
<1>10. <<"written">> \in Completions /\ <<"written">> \in Handlers
       /\ <<"written">> # <<"terminate">> /\ <<"written">> # <<"failed">>
  BY DEF Completions, Handlers
<1>11. /\ StrandInv' /\ strand' \in Seq(Handlers)
       /\ \A i \in 1..Len(strand') : strand'[i] = <<"written">> => part' = "sent"
       /\ \A i \in 1..Len(strand') : strand'[i] # <<"failed">>
  <2>0. \A i \in 1..Len(strand) : strand[i] \notin Completions
    BY <1>1 DEF WriterInv, StrandInv
  <2>1. CASE part = "first"
    <3>1. UNCHANGED strand /\ part' = "second" /\ UNCHANGED asked BY <1>1, <2>1
    <3>2. StrandInv' BY <2>1, <3>1 DEF WriterInv, StrandInv
    <3> QED BY <2>0, <3>1, <3>2 DEF WriterInv, WriterTyped, WriterTypeOK, Completions
  <2>2. CASE part = "second"
    <3>1. part' = "sent" /\ Post(<<"written">>) /\ UNCHANGED asked BY <1>1, <2>2
    <3>2. /\ StrandInv' /\ strand' \in Seq(Handlers)
          /\ \A i \in 1..Len(strand') :
               strand'[i] = <<"written">> \/ (i \in 1..Len(strand) /\ strand'[i] = strand[i])
      BY <1>10, <2>2, <3>1, StrandPosts DEF WriterInv, WriterTyped
    <3> QED BY <1>10, <2>0, <3>1, <3>2 DEF Completions
  <2> QED BY <1>1, <2>1, <2>2
<1>12. part' \in {"second", "sent"} /\ (part' = "second" => OfFront' = 1)
       /\ (part' = "sent" => OfFront' = 2) /\ OfFront' \in 0..2
  BY <1>1, <1>8, <1>9
<1>13. WriterTypeOK'
  <2>1. {wire, m_inbound}' \subseteq Seq(Messages \X {"first", "second"})
    BY <1>1, <1>6, WriterTypes DEF Parts, WriterInv, WriterTyped
  <2> QED BY <1>1, <1>11, <1>12, <2>1 DEF WriterInv, WriterTyped, WriterTypeOK
<1>14. WriterTyped' BY <1>1, <1>7, <1>12, <1>13 DEF WriterInv, WriterTyped
<1>15. SentInv'
  <2>1. open' /\ part' \notin {"idle", "first", "threw", "failed"} BY <1>1, <1>12
  <2> QED BY <1>11, <1>12, <2>1 DEF SentInv
<1>16. TransitInv'
  <2> SUFFICES ASSUME NEW k \in 1..Span', NEW m \in 1..Len(pushed)
               PROVE  /\ 2 * Len(received) + k = 2 * m - 1
                           => Transit(k)' = <<pushed[m], "first">>
                      /\ 2 * Len(received) + k = 2 * m
                           => Transit(k)' = <<pushed[m], "second">>
    BY <1>1 DEF TransitInv
  <2>1. CASE k <= Span
    <3>1. k \in 1..Span BY <1>4, <1>7, <2>1
    <3>2. Transit(k)' = Transit(k)
      <4>1. k > Len(m_inbound) => k - Len(m_inbound) \in 1..Len(wire)
        BY <1>4, <3>1 DEF Span
      <4>2. k > Len(m_inbound) => wire'[k - Len(m_inbound)] = wire[k - Len(m_inbound)]
        BY <1>6, <4>1
      <4>3. m_inbound' = m_inbound BY <1>1
      <4>4. k > Len(m_inbound) \/ k <= Len(m_inbound) BY <1>4
      <4>5. CASE k <= Len(m_inbound) BY <4>3, <4>5 DEF Transit
      <4>6. CASE k > Len(m_inbound)
        <5>1. ~(k <= Len(m_inbound)) BY <1>4, <3>1, <4>6
        <5> QED BY <4>2, <4>3, <4>6, <5>1 DEF Transit
      <4> QED BY <4>4, <4>5, <4>6
    <3> QED BY <3>1, <3>2 DEF WriterInv, TransitInv
  <2>2. CASE k > Span
    <3>1. k = Span + 1 BY <1>4, <1>7, <2>2
    <3>2. k > Len(m_inbound) /\ k - Len(m_inbound) = Len(wire) + 1 BY <1>4, <3>1 DEF Span
    <3>3. Transit(k)' = p BY <1>1, <1>4, <1>6, <3>1, <3>2 DEF Transit
    <3>4. 2 * Len(received) + k = 2 * Front + OfFront + 1 BY <1>3, <1>4, <3>1
    <3>5. ASSUME 2 * Len(received) + k = 2 * m - 1 PROVE part = "first" /\ m = Front + 1
      <4>1. OfFront = 0 \/ OfFront = 1 BY <1>9
      <4>2. OfFront = 0 /\ m = Front + 1 BY <1>3, <3>4, <3>5, <4>1
      <4> QED BY <1>9, <4>2
    <3>6. ASSUME 2 * Len(received) + k = 2 * m PROVE part = "second" /\ m = Front + 1
      <4>1. OfFront = 0 \/ OfFront = 1 BY <1>9
      <4>2. OfFront = 1 /\ m = Front + 1 BY <1>3, <3>4, <3>6, <4>1
      <4> QED BY <1>1, <1>9, <4>2
    <3> QED BY <1>3, <3>3, <3>5, <3>6
  <2> QED BY <1>4, <1>7, <2>1, <2>2
<1>17. GotInv' BY <1>1 DEF WriterInv, GotInv
<1> QED BY <1>11, <1>14, <1>15, <1>16, <1>17 DEF WriterInv

(* A message is made of the first two parts. *)
LEMMA MessageGot ==
  ASSUME WriterInv, Span' = Span - 2, Span >= 2,
         received' = Append(received, Transit(1)[1]),
         \A k \in 1..Span' : Transit(k)' = Transit(k + 2),
         UNCHANGED <<framing, strand, m_queue, m_last, part, open, pushed, errors, asked>>,
         {wire, m_inbound}' \subseteq Seq(Parts), framing = "block" => Len(m_inbound') <= 1
  PROVE  WriterInv'
<1>1. /\ Span \in Nat /\ Len(received) \in Nat /\ Len(pushed) \in Nat /\ pushed \in Seq(Messages)
      /\ received \in Seq(Messages) /\ m_queue \in Seq(Messages)
  BY WriterTypes DEF WriterInv, WriterTyped
<1>2. 2 * Len(received) + Span <= 2 * Len(pushed) /\ Front \in Nat BY PartsOfPushed
<1>3. Len(received) + 1 \in 1..Len(pushed) BY <1>1, <1>2
<1>4. Transit(1) = <<pushed[Len(received) + 1], "first">>
  <2>1. 1 \in 1..Span /\ 2 * Len(received) + 1 = 2 * (Len(received) + 1) - 1 BY <1>1
  <2> QED BY <1>3, <2>1 DEF WriterInv, TransitInv
<1>5. pushed[Len(received) + 1] \in Messages BY <1>1, <1>3
<1>6. received' = Append(received, pushed[Len(received) + 1]) BY <1>4
<1>7. /\ received' \in Seq(Messages) /\ Len(received') = Len(received) + 1
      /\ received'[Len(received) + 1] = pushed[Len(received) + 1]
      /\ \A i \in 1..Len(received) : received'[i] = received[i]
      /\ \A i \in 1..Len(received) + 1 : i = Len(received) + 1 \/ i \in 1..Len(received)
  <2> DEFINE x == pushed[Len(received) + 1]
  <2>1. x \in Messages BY <1>5
  <2>2. received' = Append(received, x) BY <1>6
  <2> QED
    <3>1. received'[Len(received) + 1] = x
      <4> HIDE DEF x
      <4> QED BY <1>1, <2>1, <2>2, Added
    <3>2. /\ received' \in Seq(Messages) /\ Len(received') = Len(received) + 1
          /\ \A i \in 1..Len(received) : received'[i] = received[i]
          /\ \A i \in 1..Len(received) + 1 : i = Len(received) + 1 \/ i \in 1..Len(received)
      <4> HIDE DEF x
      <4> QED BY <1>1, <2>1, <2>2, Added
    <3> QED BY <3>1, <3>2
<1>8. Front' = Front BY DEF Front
<1>9. OfFront' = OfFront BY <1>1, <1>2, <1>7, <1>8 DEF OfFront
<1>10. WriterTypeOK'
  <2>1. {m_queue, received, pushed}' \subseteq Seq(Messages) BY <1>1, <1>7
  <2> QED BY <2>1 DEF WriterInv, WriterTyped, WriterTypeOK, Parts
<1>11. WriterTyped' BY <1>8, <1>10 DEF WriterInv, WriterTyped
<1>12. StrandInv' BY DEF WriterInv, StrandInv
<1>13. SentInv' BY <1>9 DEF WriterInv, SentInv
<1>14. TransitInv'
  <2> SUFFICES ASSUME NEW k \in 1..Span', NEW m \in 1..Len(pushed)
               PROVE  /\ 2 * Len(received') + k = 2 * m - 1
                           => Transit(k + 2) = <<pushed[m], "first">>
                      /\ 2 * Len(received') + k = 2 * m
                           => Transit(k + 2) = <<pushed[m], "second">>
    BY DEF TransitInv
  <2>1. k + 2 \in 1..Span /\ 2 * Len(received') + k = 2 * Len(received) + (k + 2)
    BY <1>1, <1>7
  <2> QED BY <2>1 DEF WriterInv, TransitInv
<1>15. GotInv' BY <1>1, <1>3, <1>7 DEF WriterInv, GotInv
<1> QED BY <1>11, <1>12, <1>13, <1>14, <1>15 DEF WriterInv

(* The peer reads in the order of the wire. *)
LEMMA ReadsKeep ==
  ASSUME WriterInv, ReadBlock \/ FillLine \/ TakeLine
  PROVE  WriterInv'
<1>1. /\ Span \in Nat /\ Len(received) \in Nat /\ Len(pushed) \in Nat
      /\ Len(m_inbound) \in Nat /\ Len(wire) \in Nat
      /\ m_inbound \in Seq(Parts) /\ wire \in Seq(Parts)
      /\ Span = Len(m_inbound) + Len(wire)
  BY WriterTypes DEF WriterInv, WriterTyped, Span
<1>2. CASE ReadBlock
  <2>1. /\ framing = "block" /\ wire # <<>> /\ wire' = Tail(wire)
        /\ UNCHANGED <<framing, strand, m_queue, m_last, part, open, pushed, errors, asked>>
    BY <1>2 DEF ReadBlock
  <2>2. /\ Tail(wire) \in Seq(Parts) /\ Len(Tail(wire)) = Len(wire) - 1
        /\ Head(wire) = wire[1] /\ Head(wire) \in Parts /\ 1 \in 1..Len(wire)
        /\ \A i \in 1..Len(Tail(wire)) : Tail(wire)[i] = wire[i + 1] /\ i + 1 \in 1..Len(wire)
    BY <1>1, <2>1, Taken
  <2>3. CASE m_inbound = <<>>
    <3>1. m_inbound' = <<Head(wire)>> /\ UNCHANGED received BY <1>2, <2>3 DEF ReadBlock
    <3>2. m_inbound' \in Seq(Parts) /\ Len(m_inbound') = 1 /\ m_inbound'[1] = wire[1]
      BY <2>2, <3>1
    <3>3. Len(m_inbound) = 0 BY <2>3
    <3>4. Span' = Span BY <1>1, <2>1, <2>2, <3>2, <3>3 DEF Span
    <3>5. ASSUME NEW k \in 1..Span PROVE Transit(k)' = Transit(k)
      <4>1. k \in Nat /\ k >= 1 /\ k <= Len(wire) BY <1>1, <3>3, <3>5
      <4>2. ~(k <= Len(m_inbound)) /\ k - Len(m_inbound) = k BY <3>3, <4>1
      <4>3. Transit(k) = wire[k] BY <4>2 DEF Transit
      <4>4. CASE k = 1
        <5>1. k <= Len(m_inbound') BY <3>2, <4>4
        <5> QED BY <3>2, <4>3, <4>4, <5>1 DEF Transit
      <4>5. CASE k # 1
        <5>1. ~(k <= Len(m_inbound')) /\ k - Len(m_inbound') = k - 1 BY <3>2, <4>1, <4>5
        <5>2. k - 1 \in 1..Len(Tail(wire)) /\ k - 1 + 1 = k BY <2>2, <4>1, <4>5
        <5>3. Tail(wire)[k - 1] = wire[k] BY <2>2, <5>2
        <5> QED BY <2>1, <4>3, <5>1, <5>3 DEF Transit
      <4> QED BY <4>4, <4>5
    <3>6. Len(pushed') >= Len(pushed) /\ Len(pushed') \in Nat BY <1>1, <2>1
    <3>7. TransitInv' BY <2>1, <3>1, <3>4, <3>5, <3>6, TransitKept
    <3>8. WriterTypeOK'
      <4>1. {wire, m_inbound}' \subseteq Seq(Messages \X {"first", "second"})
        BY <2>1, <2>2, <3>2 DEF Parts
      <4> QED BY <2>1, <3>1, <4>1 DEF WriterInv, WriterTyped, WriterTypeOK
    <3>9. Front' = Front BY <2>1 DEF Front
    <3>10. WriterTyped' BY <2>1, <3>2, <3>8, <3>9 DEF WriterInv, WriterTyped
    <3>11. StrandInv' BY <2>1 DEF WriterInv, StrandInv
    <3>12. OfFront' = OfFront BY <2>1, <3>1, <3>4, SentKept
    <3>13. SentInv' BY <2>1, <3>12 DEF WriterInv, SentInv
    <3>14. GotInv' BY <2>1, <3>1 DEF WriterInv, GotInv
    <3> QED BY <3>7, <3>10, <3>11, <3>13, <3>14 DEF WriterInv
  <2>4. CASE m_inbound # <<>>
    <3>1. m_inbound' = <<>> /\ received' = Append(received, m_inbound[1][1])
      BY <1>2, <2>4 DEF ReadBlock
    <3>2. Len(m_inbound) = 1
      <4>1. Len(m_inbound) # 0 BY <1>1, <2>4, EmptySeq
      <4>2. Len(m_inbound) <= 1 BY <2>1 DEF WriterInv, WriterTyped
      <4>3. Len(m_inbound) \in Nat BY <1>1
      <4> QED BY <4>1, <4>2, <4>3
    <3>3. Len(m_inbound') = 0 /\ m_inbound' \in Seq(Parts) BY <3>1
    <3>4. Span' = Span - 2 /\ Span >= 2 BY <1>1, <2>1, <2>2, <3>2, <3>3 DEF Span
    <3>5. Transit(1) = m_inbound[1] BY <3>2 DEF Transit
    <3>6. ASSUME NEW k \in 1..Span' PROVE Transit(k)' = Transit(k + 2)
      <4>2a. Span = 1 + Len(wire) /\ Len(wire) \in Nat BY <1>1, <3>2
      <4>2b. Span' = Len(wire) - 1 BY <3>4, <4>2a
      <4>0. Span' = Len(Tail(wire)) BY <2>2, <4>2b
      <4>1. k \in Nat /\ k >= 1 /\ k <= Len(Tail(wire)) BY <1>1, <2>2, <3>6, <4>0
      <4>2. ~(k <= Len(m_inbound')) /\ k - Len(m_inbound') = k BY <3>3, <4>1
      <4>3. ~(k + 2 <= Len(m_inbound)) /\ k + 2 - Len(m_inbound) = k + 1 BY <3>2, <4>1
      <4>4. Tail(wire)[k] = wire[k + 1] BY <2>2, <4>1
      <4>5. Transit(k)' = Tail(wire)[k] BY <2>1, <4>2 DEF Transit
      <4>6. Transit(k + 2) = wire[k + 1] BY <4>3 DEF Transit
      <4> QED BY <4>4, <4>5, <4>6
    <3> QED BY <2>1, <2>2, <3>1, <3>3, <3>4, <3>5, <3>6, MessageGot
  <2> QED BY <2>3, <2>4
<1>3. CASE FillLine
  <2>1. /\ framing = "line" /\ m_inbound' = m_inbound \o wire /\ wire' = <<>>
        /\ UNCHANGED <<framing, strand, m_queue, m_last, part, open, received, pushed, errors, asked>>
    BY <1>3 DEF FillLine
  <2>2. /\ m_inbound' \in Seq(Parts) /\ Len(m_inbound') = Len(m_inbound) + Len(wire)
        /\ \A k \in 1..Len(m_inbound) + Len(wire) :
             m_inbound'[k] = IF k <= Len(m_inbound) THEN m_inbound[k]
                                                   ELSE wire[k - Len(m_inbound)]
    BY <1>1, <2>1, ConcatProperties
  <2>3. Len(wire') = 0 /\ wire' \in Seq(Parts) BY <2>1
  <2>4. Span' = Span BY <1>1, <2>2, <2>3 DEF Span
  <2>5. ASSUME NEW k \in 1..Span PROVE Transit(k)' = Transit(k)
    <3>1. k \in 1..Len(m_inbound) + Len(wire) /\ k <= Len(m_inbound') BY <1>1, <2>2, <2>5
    <3>2. Transit(k)' = m_inbound'[k] BY <3>1 DEF Transit
    <3> QED BY <2>2, <3>1, <3>2 DEF Transit
  <2>6. Len(pushed') >= Len(pushed) /\ Len(pushed') \in Nat BY <1>1, <2>1
  <2>7. TransitInv' BY <2>1, <2>4, <2>5, <2>6, TransitKept
  <2>8. WriterTypeOK'
    <3>1. {wire, m_inbound}' \subseteq Seq(Messages \X {"first", "second"})
      BY <2>2, <2>3 DEF Parts
    <3> QED BY <2>1, <3>1 DEF WriterInv, WriterTyped, WriterTypeOK
  <2>9. Front' = Front BY <2>1 DEF Front
  <2>10. WriterTyped' BY <2>1, <2>8, <2>9 DEF WriterInv, WriterTyped
  <2>11. StrandInv' BY <2>1 DEF WriterInv, StrandInv
  <2>12. OfFront' = OfFront BY <2>1, <2>4, SentKept
  <2>13. SentInv' BY <2>1, <2>12 DEF WriterInv, SentInv
  <2>14. GotInv' BY <2>1 DEF WriterInv, GotInv
  <2> QED BY <2>7, <2>10, <2>11, <2>13, <2>14 DEF WriterInv
<1>4. CASE TakeLine
  <2>1. /\ framing = "line" /\ Len(m_inbound) >= 2
        /\ received' = Append(received, m_inbound[1][1])
        /\ m_inbound' = Tail(Tail(m_inbound))
        /\ UNCHANGED <<framing, strand, m_queue, m_last, part, open, wire, pushed, errors, asked>>
    BY <1>4 DEF TakeLine
  <2> DEFINE t == Tail(m_inbound)
  <2>2. /\ t \in Seq(Parts) /\ Len(t) = Len(m_inbound) - 1
        /\ \A i \in 1..Len(t) : t[i] = m_inbound[i + 1] /\ i + 1 \in 1..Len(m_inbound)
    <3>1. m_inbound # <<>> BY <1>1, <2>1
    <3> QED BY <1>1, <3>1, Taken
  <2>3. /\ m_inbound' \in Seq(Parts) /\ Len(m_inbound') = Len(t) - 1
        /\ \A i \in 1..Len(m_inbound') : m_inbound'[i] = t[i + 1] /\ i + 1 \in 1..Len(t)
    <3>1. t # <<>> /\ m_inbound' = Tail(t)
      <4>1. Len(t) # 0 BY <1>1, <2>1, <2>2
      <4> QED BY <2>1, <2>2, <4>1
    <3> HIDE DEF t
    <3> QED BY <2>2, <3>1, Taken
  <2> HIDE DEF t
  <2>4. Len(m_inbound') = Len(m_inbound) - 2 /\ Len(m_inbound') \in Nat BY <1>1, <2>1, <2>2, <2>3
  <2>5. Span' = Span - 2 /\ Span >= 2 BY <1>1, <2>1, <2>4 DEF Span
  <2>6. Transit(1) = m_inbound[1]
    <3>1. 1 <= Len(m_inbound) BY <1>1, <2>1
    <3> QED BY <3>1 DEF Transit
  <2>7. ASSUME NEW k \in 1..Span' PROVE Transit(k)' = Transit(k + 2)
    <3>0. k \in Nat /\ k >= 1 BY <1>1, <2>5, <2>7
    <3>1. CASE k <= Len(m_inbound')
      <4>1. k \in 1..Len(m_inbound') BY <2>4, <3>0, <3>1
      <4>2. m_inbound'[k] = t[k + 1] /\ k + 1 \in 1..Len(t) BY <2>3, <4>1
      <4>3. t[k + 1] = m_inbound[k + 1 + 1] /\ k + 1 + 1 = k + 2 BY <2>2, <3>0, <4>2
      <4>4. k + 2 <= Len(m_inbound) BY <1>1, <2>4, <3>0, <3>1
      <4>5. Transit(k)' = m_inbound'[k] BY <3>1 DEF Transit
      <4>6. Transit(k + 2) = m_inbound[k + 2] BY <4>4 DEF Transit
      <4> QED BY <4>2, <4>3, <4>5, <4>6
    <3>2. CASE ~(k <= Len(m_inbound'))
      <4>1. ~(k + 2 <= Len(m_inbound)) /\ k + 2 - Len(m_inbound) = k - Len(m_inbound')
        BY <1>1, <2>4, <3>0, <3>2
      <4>2. Transit(k)' = wire[k - Len(m_inbound')] BY <2>1, <3>2 DEF Transit
      <4>3. Transit(k + 2) = wire[k - Len(m_inbound')] BY <4>1 DEF Transit
      <4> QED BY <4>2, <4>3
    <3> QED BY <3>1, <3>2
  <2>8. {wire, m_inbound}' \subseteq Seq(Parts) BY <1>1, <2>1, <2>3
  <2> QED BY <2>1, <2>5, <2>6, <2>7, <2>8, MessageGot
<1> QED BY <1>2, <1>3, <1>4

(* The invariant holds at first. *)
LEMMA WriterInvInit == WriterInit => WriterInv
<1> SUFFICES ASSUME WriterInit PROVE WriterInv OBVIOUS
<1> USE DEF WriterInit
<1>1. /\ Len(strand) = 0 /\ Len(m_queue) = 0 /\ Len(pushed) = 0 /\ Len(received) = 0
      /\ Len(wire) = 0 /\ Len(m_inbound) = 0
  OBVIOUS
<1>2. Span = 0 /\ Front = 0 /\ OfFront = 0 BY <1>1 DEF Span, Front, OfFront
<1>3. WriterTypeOK
  <2>1. {m_queue, received, pushed} \subseteq Seq(Messages) /\ strand \in Seq(Handlers) OBVIOUS
  <2>2. {wire, m_inbound} \subseteq Seq(Messages \X {"first", "second"}) OBVIOUS
  <2>3. errors \in 0..MaxErrors BY MaxErrorsAssumption
  <2> QED BY <2>1, <2>2, <2>3 DEF WriterTypeOK
<1>4. WriterTyped BY <1>1, <1>2, <1>3 DEF WriterTyped
<1>5. StrandInv BY <1>1 DEF StrandInv
<1>6. SentInv BY <1>1, <1>2 DEF SentInv
<1>7. TransitInv BY <1>2 DEF TransitInv
<1>8. GotInv BY <1>1 DEF GotInv
<1> QED BY <1>4, <1>5, <1>6, <1>7, <1>8 DEF WriterInv

(* The invariant is kept by every step. *)
LEMMA WriterInvNext == WriterInv /\ [WriterNext]_writerVars => WriterInv'
<1> SUFFICES ASSUME WriterInv, [WriterNext]_writerVars PROVE WriterInv' OBVIOUS
<1>1. CASE UNCHANGED writerVars
  <2>1. UNCHANGED <<strand, part, asked, open, errors, m_last>>
        /\ UNCHANGED <<framing, m_queue, wire, m_inbound, received, pushed>>
    BY <1>1 DEF writerVars
  <2>2. WriterTypeOK' BY <2>1 DEF WriterInv, WriterTyped, WriterTypeOK
  <2>3. StrandInv' BY <2>1 DEF WriterInv, StrandInv
  <2>4. OfFront' = OfFront BY <2>1, SentKept DEF Span
  <2>5. SentInv' BY <2>1, <2>4 DEF WriterInv, SentInv
  <2>6. m_queue = <<>> <=> part' = "idle" BY <2>1 DEF WriterInv, WriterTyped
  <2> QED BY <2>1, <2>2, <2>3, <2>5, <2>6, OthersKeep
<1>2. CASE (\E m \in Messages : Write(m)) \/ (\E h \in Handlers : CloseWriter(h))
  BY <1>2, CallsKeep
<1>3. CASE \E m \in Messages : Push(m) BY <1>3, PushKeeps
<1>4. CASE Close_ \/ Terminate_ BY <1>4, EndsKeepOrder
<1>5. CASE HandleWrite BY <1>5, CompletionKeeps
<1>6. CASE HandleError BY <1>6, ErrorKeeps
<1>7. CASE WritePart BY <1>7, PartKeeps
<1>8. CASE WriteFails BY <1>8, FailureKeeps
<1>9. CASE ReadBlock \/ FillLine \/ TakeLine BY <1>9, ReadsKeep
<1> QED
  BY <1>1, <1>2, <1>3, <1>4, <1>5, <1>6, <1>7, <1>8, <1>9 DEF WriterNext, StrandStep

(* The invariant says what the peer has received. *)
LEMMA WriterDelivers == WriterInv => DeliveredInOrder
<1> SUFFICES ASSUME WriterInv PROVE DeliveredInOrder OBVIOUS
<1>1. /\ Span \in Nat /\ Len(received) \in Nat /\ Len(pushed) \in Nat
      /\ Len(m_inbound) \in Nat /\ Len(wire) \in Nat
      /\ m_inbound \in Seq(Parts) /\ wire \in Seq(Parts)
      /\ pushed \in Seq(Messages) /\ received \in Seq(Messages)
      /\ Span = Len(m_inbound) + Len(wire)
  BY WriterTypes DEF WriterInv, WriterTyped, Span
<1>2. Len(received) <= Len(pushed) /\ \A i \in 1..Len(received) : received[i] = pushed[i]
  BY DEF WriterInv, GotInv
<1>3. ASSUME NEW n \in 0..Len(pushed), Len(received) = n
      PROVE  received = SubSeq(pushed, 1, n)
  <2>1. /\ SubSeq(pushed, 1, n) \in Seq(Messages) /\ Len(SubSeq(pushed, 1, n)) = n
        /\ \A i \in 1..n : SubSeq(pushed, 1, n)[i] = pushed[i]
    BY <1>1, <1>3
  <2> QED BY <1>1, <1>2, <1>3, <2>1, SeqEqual
<1>4. IsPrefixOf(received, pushed)
  <2>1. Len(received) \in 0..Len(pushed) BY <1>1, <1>2
  <2> QED BY <1>2, <1>3, <2>1 DEF IsPrefixOf
<1>5. ASSUME ~open, ~Broken, wire = <<>>, m_inbound = <<>>
      PROVE  received = SubSeq(pushed, 1, Len(pushed) - Len(m_queue))
  <2>1. errors = 0 /\ <<"terminate">> \notin asked
    BY <1>5 DEF Broken, WriterInv, WriterTyped, WriterTypeOK
  <2>2. OfFront = 0 BY <1>5, <2>1 DEF WriterInv, SentInv
  <2>3. Span = 0 BY <1>1, <1>5
  <2>4. 2 * Len(received) + Span = 2 * Front + OfFront /\ Front \in Nat BY PartsOfPushed
  <2>5. Len(received) = Front BY <1>1, <2>2, <2>3, <2>4
  <2>6. Front \in 0..Len(pushed) BY <1>1, <1>2, <2>4, <2>5
  <2> QED BY <1>3, <2>5, <2>6 DEF Front
<1>6. ASSUME m_inbound # <<>> PROVE m_inbound[1][2] = "first"
  <2>1. Len(m_inbound) >= 1 BY <1>1, <1>6, EmptySeq
  <2>2. 1 \in 1..Span /\ Transit(1) = m_inbound[1] BY <1>1, <2>1 DEF Transit
  <2>3. 2 * Len(received) + Span <= 2 * Len(pushed) BY PartsOfPushed
  <2>4. Len(received) + 1 \in 1..Len(pushed) BY <1>1, <2>2, <2>3
  <2>5. 2 * Len(received) + 1 = 2 * (Len(received) + 1) - 1 BY <1>1
  <2>6. Transit(1) = <<pushed[Len(received) + 1], "first">>
    BY <2>2, <2>4, <2>5 DEF WriterInv, TransitInv
  <2> QED BY <2>2, <2>6
<1> QED BY <1>4, <1>5, <1>6 DEF DeliveredInOrder

----------------------------------------------------------------------------
(* The buffered connection *)

(* A chunk holds consecutive bytes. *)
Whole(c) == c # <<>> /\ \A j \in 1..Len(c) : c[j] = c[1] + j - 1
ChunksInv == \A k \in 1..Len(m_chunks) : Whole(m_chunks[k])
QueueInv ==
  /\ m_sink_ok /\ m_chunks = <<>> => Len(relayed) = consumed
  /\ m_sink_ok /\ m_chunks # <<>> =>
       /\ m_chunks[1][1] = Len(relayed) + 1
       /\ \A k \in 1..Len(m_chunks) :
            IF k = Len(m_chunks) THEN m_chunks[k][1] + Len(m_chunks[k]) = consumed + 1
                 ELSE m_chunks[k][1] + Len(m_chunks[k]) = m_chunks[k + 1][1]
Pending == (IF reading THEN 1 ELSE 0) + (IF m_chunks # <<>> THEN 1 ELSE 0)
EndInv ==
  /\ m_source_ok /\ ~m_closed => endings = 0
  /\ endings + Pending <= 2
  /\ consumed = 0 /\ m_source_ok => endings = 0 /\ m_chunks = <<>>
  /\ endings > 0 /\ ~m_closed => ~m_source_ok /\ m_chunks = <<>> /\ m_sink_ok
RelayFacts ==
  /\ RelayTypeOK
  /\ \A i \in 1..Len(relayed) : relayed[i] = i
  /\ ~m_source_ok => ~reading
  /\ writing # "none" => m_sink_ok /\ m_chunks # <<>>
  /\ ~m_sink_ok => m_chunks # <<>>
RelayInv == RelayFacts /\ ChunksInv /\ QueueInv /\ EndInv

(* The types of the relay's variables. *)
LEMMA RelayTypes ==
  ASSUME RelayInv
  PROVE  /\ m_chunks \in Seq(Seq(1..MaxBytes)) /\ relayed \in Seq(1..MaxBytes)
         /\ Len(m_chunks) \in Nat /\ Len(relayed) \in Nat /\ consumed \in Nat
         /\ consumed <= MaxBytes /\ MaxBytes \in Nat /\ endings \in 0..2
         /\ reading \in BOOLEAN /\ m_closed \in BOOLEAN /\ m_terminated \in BOOLEAN
         /\ m_source_ok \in BOOLEAN /\ m_sink_ok \in BOOLEAN /\ sinkOpen \in BOOLEAN
         /\ \A i \in 1..Len(m_chunks) : m_chunks[i] \in Seq(1..MaxBytes)
<1>1. m_chunks \in Seq(Seq(1..MaxBytes)) /\ relayed \in Seq(1..MaxBytes)
      /\ consumed \in 0..MaxBytes /\ endings \in 0..2
  BY DEF RelayInv, RelayFacts, RelayTypeOK
<1>2. /\ reading \in BOOLEAN /\ m_closed \in BOOLEAN /\ m_terminated \in BOOLEAN
      /\ m_source_ok \in BOOLEAN /\ m_sink_ok \in BOOLEAN /\ sinkOpen \in BOOLEAN
  BY DEF RelayInv, RelayFacts, RelayTypeOK
<1>3. \A i \in 1..Len(m_chunks) : m_chunks[i] \in Seq(1..MaxBytes) BY <1>1
<1>4. Len(m_chunks) \in Nat /\ Len(relayed) \in Nat BY <1>1
<1> QED BY <1>1, <1>2, <1>3, <1>4, RelayAssumption

(* A function from an interval is a sequence. *)
LEMMA FunctionIsSeq ==
  ASSUME NEW n \in Nat, NEW S, NEW f \in [1..n -> S]
  PROVE  f \in Seq(S)
OBVIOUS

(* The bytes of a chunk, by their places. *)
LEMMA BytesAre ==
  ASSUME NEW c \in Nat, NEW size \in Nat
  PROVE  Bytes(c + 1, c + size) = [i \in 1..size |-> c + i]
<1> DEFINE b == Bytes(c + 1, c + size)
<1>1. DOMAIN b = 1..size BY DEF Bytes
<1>2. \A i \in 1..size : b[i] = c + i BY DEF Bytes
<1>3. b = [i \in DOMAIN b |-> b[i]] BY DEF Bytes
<1> QED BY <1>1, <1>2, <1>3

(* The bytes of one read. *)
LEMMA BytesRead ==
  ASSUME RelayInv, NEW size \in Nat, size # 0, consumed + size <= MaxBytes
  PROVE  /\ Bytes(consumed + 1, consumed + size) \in Seq(1..MaxBytes)
         /\ Len(Bytes(consumed + 1, consumed + size)) = size
         /\ Whole(Bytes(consumed + 1, consumed + size))
         /\ Bytes(consumed + 1, consumed + size)[1] = consumed + 1
<1> DEFINE b == Bytes(consumed + 1, consumed + size)
<1>1. consumed \in Nat /\ MaxBytes \in Nat BY RelayTypes
<1>3. b = [i \in 1..size |-> consumed + i] BY <1>1, BytesAre
<1>4. \A i \in 1..size : consumed + i \in 1..MaxBytes BY <1>1
<1>5. b \in Seq(1..MaxBytes)
  <2>1. b \in [1..size -> 1..MaxBytes] BY <1>3, <1>4
  <2> HIDE DEF b
  <2> QED BY <2>1, FunctionIsSeq
<1>6. Len(b) = size
  <2>1. DOMAIN b = 1..size BY <1>3
  <2>2. DOMAIN b = 1..Len(b) /\ Len(b) \in Nat
    <3> HIDE DEF b
    <3> QED BY <1>5
  <2> HIDE DEF b
  <2> QED BY <2>1, <2>2
<1>7. 1 \in 1..size /\ b[1] = consumed + 1 BY <1>1, <1>3
<1>8. \A j \in 1..size : b[j] = b[1] + j - 1 BY <1>1, <1>3, <1>7
<1>9. b # <<>>
  <2> HIDE DEF b
  <2> QED BY <1>6
<1> HIDE DEF b
<1>10. Whole(b) BY <1>6, <1>8, <1>9 DEF Whole
<1> QED BY <1>5, <1>6, <1>7, <1>10 DEF b

(* A chunk that has been read is queued. *)
LEMMA ChunkQueued ==
  ASSUME RelayInv, NEW size \in Nat, size # 0, consumed + size <= MaxBytes,
         m_chunks' = Append(m_chunks, Bytes(consumed + 1, consumed + size)),
         consumed' = consumed + size, UNCHANGED <<relayed, m_sink_ok>>
  PROVE  /\ m_chunks' \in Seq(Seq(1..MaxBytes)) /\ m_chunks' # <<>>
         /\ ChunksInv' /\ QueueInv'
<1> DEFINE b == Bytes(consumed + 1, consumed + size)
<1>1. b \in Seq(1..MaxBytes) /\ Len(b) = size /\ Whole(b) /\ b[1] = consumed + 1
  BY BytesRead
<1>2. m_chunks' = Append(m_chunks, b) OBVIOUS
<1>3. /\ m_chunks \in Seq(Seq(1..MaxBytes)) /\ Len(m_chunks) \in Nat /\ Len(relayed) \in Nat
      /\ consumed \in Nat
  BY RelayTypes
<1> HIDE DEF b
<1>4. /\ m_chunks' \in Seq(Seq(1..MaxBytes)) /\ Len(m_chunks') = Len(m_chunks) + 1
      /\ m_chunks'[Len(m_chunks) + 1] = b /\ m_chunks' # <<>>
      /\ \A i \in 1..Len(m_chunks) : m_chunks'[i] = m_chunks[i]
      /\ \A i \in 1..Len(m_chunks) + 1 : i = Len(m_chunks) + 1 \/ i \in 1..Len(m_chunks)
  BY <1>1, <1>2, <1>3, Added
<1>5. ChunksInv'
  <2> SUFFICES ASSUME NEW k \in 1..Len(m_chunks') PROVE Whole(m_chunks'[k])
    BY DEF ChunksInv, Whole
  <2> QED BY <1>1, <1>4 DEF RelayInv, ChunksInv
<1>6. ASSUME m_sink_ok
      PROVE  /\ m_chunks'[1][1] = Len(relayed) + 1
             /\ \A k \in 1..Len(m_chunks') :
                  IF k = Len(m_chunks') THEN m_chunks'[k][1] + Len(m_chunks'[k]) = consumed' + 1
                  ELSE m_chunks'[k][1] + Len(m_chunks'[k]) = m_chunks'[k + 1][1]
  <2>1. m_chunks'[1][1] = Len(relayed) + 1
    <3>1. CASE m_chunks = <<>>
      <4>1. Len(m_chunks) = 0 /\ Len(relayed) = consumed BY <1>6, <3>1 DEF RelayInv, QueueInv
      <4> QED BY <1>1, <1>4, <4>1
    <3>2. CASE m_chunks # <<>>
      <4>1. Len(m_chunks) # 0 BY <1>3, <3>2, EmptySeq
      <4>2. 1 \in 1..Len(m_chunks) BY <1>3, <4>1
      <4> QED BY <1>4, <1>6, <3>2, <4>2 DEF RelayInv, QueueInv
    <3> QED BY <3>1, <3>2
  <2>2. ASSUME NEW k \in 1..Len(m_chunks')
        PROVE  IF k = Len(m_chunks') THEN m_chunks'[k][1] + Len(m_chunks'[k]) = consumed' + 1
               ELSE m_chunks'[k][1] + Len(m_chunks'[k]) = m_chunks'[k + 1][1]
    <3>1. CASE k = Len(m_chunks')
      <4>1. m_chunks'[k] = b BY <1>4, <3>1
      <4>2. consumed + 1 + size = consumed + size + 1 BY <1>3
      <4> QED BY <1>1, <3>1, <4>1, <4>2
    <3>2. CASE k # Len(m_chunks')
      <4>1. k \in 1..Len(m_chunks) /\ m_chunks # <<>> /\ k \in Nat
        <5>1. k \in 1..Len(m_chunks) BY <1>3, <1>4, <3>2
        <5>2. Len(m_chunks) # 0 BY <1>3, <5>1
        <5> QED BY <5>1, <5>2
      <4>2. IF k = Len(m_chunks) THEN m_chunks[k][1] + Len(m_chunks[k]) = consumed + 1
            ELSE m_chunks[k][1] + Len(m_chunks[k]) = m_chunks[k + 1][1]
        BY <1>6, <4>1 DEF RelayInv, QueueInv
      <4>3. CASE k = Len(m_chunks)
        <5>1. m_chunks'[k + 1][1] = consumed + 1 BY <1>1, <1>4, <4>3
        <5> QED BY <1>4, <3>2, <4>1, <4>2, <4>3, <5>1
      <4>4. CASE k # Len(m_chunks)
        <5>1. k + 1 \in 1..Len(m_chunks) BY <1>3, <4>1, <4>4
        <5> QED BY <1>4, <3>2, <4>1, <4>2, <4>4, <5>1
      <4> QED BY <4>3, <4>4
    <3> QED BY <3>1, <3>2
  <2> QED BY <2>1, <2>2
<1>7. QueueInv' BY <1>4, <1>6 DEF QueueInv
<1> QED BY <1>4, <1>5, <1>7

(* The front of the queue holds the bytes that the sink takes next. *)
LEMMA FrontIsNext ==
  ASSUME RelayInv, m_sink_ok, m_chunks # <<>>
  PROVE  /\ Head(m_chunks) = m_chunks[1] /\ Head(m_chunks) \in Seq(1..MaxBytes)
         /\ 1 \in 1..Len(m_chunks) /\ Len(Head(m_chunks)) \in Nat /\ Len(Head(m_chunks)) # 0
         /\ \A j \in 1..Len(Head(m_chunks)) : Head(m_chunks)[j] = Len(relayed) + j
<1>1. m_chunks \in Seq(Seq(1..MaxBytes)) /\ Len(relayed) \in Nat BY RelayTypes
<1>2. Head(m_chunks) = m_chunks[1] /\ Head(m_chunks) \in Seq(1..MaxBytes) /\ 1 \in 1..Len(m_chunks)
  BY <1>1, Taken
<1>3. Whole(Head(m_chunks)) BY <1>2 DEF RelayInv, ChunksInv
<1>4. Head(m_chunks)[1] = Len(relayed) + 1 BY <1>2 DEF RelayInv, QueueInv
<1> DEFINE c == Head(m_chunks)
<1>5. Len(c) \in Nat /\ Len(c) # 0
  <2>1. c \in Seq(1..MaxBytes) /\ c # <<>> BY <1>2, <1>3 DEF Whole
  <2> HIDE DEF c
  <2> QED BY <2>1, EmptySeq
<1>6. \A j \in 1..Len(c) : c[j] = Len(relayed) + j
  <2>1. \A j \in 1..Len(c) : c[j] = c[1] + j - 1 BY <1>3 DEF Whole
  <2>2. c[1] = Len(relayed) + 1 BY <1>4
  <2> HIDE DEF c
  <2> QED BY <1>1, <1>5, <2>1, <2>2
<1> QED BY <1>2, <1>5, <1>6

(* The sink takes some of the front. *)
LEMMA BytesTaken ==
  ASSUME RelayInv, m_sink_ok, m_chunks # <<>>,
         NEW size \in 0..Len(Head(m_chunks)),
         relayed' = relayed \o SubSeq(Head(m_chunks), 1, size)
  PROVE  /\ relayed' \in Seq(1..MaxBytes) /\ Len(relayed') = Len(relayed) + size
         /\ \A i \in 1..Len(relayed') : relayed'[i] = i
<1> DEFINE c == Head(m_chunks)
           t == SubSeq(c, 1, size)
<1>1. /\ c \in Seq(1..MaxBytes) /\ Len(c) \in Nat
      /\ \A j \in 1..Len(c) : c[j] = Len(relayed) + j
  BY FrontIsNext
<1>2. relayed \in Seq(1..MaxBytes) /\ Len(relayed) \in Nat BY RelayTypes
<1>3. relayed' = relayed \o t /\ size \in 0..Len(c) OBVIOUS
<1> HIDE DEF c
<1>4. /\ t \in Seq(1..MaxBytes) /\ Len(t) = size
      /\ \A j \in 1..size : t[j] = c[j] /\ j \in 1..Len(c)
  <2>0. \A i \in 1..size : i \in 1..Len(c) BY <1>1, <1>3
  <2>a. c \in Seq(1..MaxBytes) BY <1>1
  <2>b. \A i \in 1..Len(c) : c[i] \in 1..MaxBytes BY <2>a, ElementOfSeq
  <2>1. \A i \in 1..size : c[i] \in 1..MaxBytes /\ i \in 1..Len(c) BY <2>0, <2>b
  <2>2. /\ t \in Seq(1..MaxBytes) /\ Len(t) = IF 1 <= size THEN size - 1 + 1 ELSE 0
        /\ \A j \in 1..size - 1 + 1 : t[j] = c[1 + j - 1]
    BY <1>3, <2>1, SubSeqProperties
  <2>3. \A j \in 1..size : j \in 1..size - 1 + 1 /\ 1 + j - 1 = j BY <1>3
  <2> QED BY <1>1, <1>3, <2>1, <2>2, <2>3
<1> HIDE DEF t
<1>5. /\ relayed' \in Seq(1..MaxBytes) /\ Len(relayed') = Len(relayed) + size
      /\ \A i \in 1..Len(relayed) + size :
           relayed'[i] = IF i <= Len(relayed) THEN relayed[i] ELSE t[i - Len(relayed)]
  <2>1. /\ relayed \o t \in Seq(1..MaxBytes) /\ Len(relayed \o t) = Len(relayed) + Len(t)
        /\ \A i \in 1..Len(relayed) + Len(t) :
             (relayed \o t)[i] = IF i <= Len(relayed) THEN relayed[i] ELSE t[i - Len(relayed)]
    BY <1>2, <1>4, ConcatProperties
  <2> QED BY <1>3, <1>4, <2>1
<1>6. ASSUME NEW i \in 1..Len(relayed') PROVE relayed'[i] = i
  <2>1. CASE i <= Len(relayed)
    <3>1. i \in 1..Len(relayed) /\ i \in 1..Len(relayed) + size BY <1>2, <1>5, <2>1
    <3>2. relayed[i] = i BY <3>1 DEF RelayInv, RelayFacts
    <3> QED BY <1>5, <2>1, <3>1, <3>2
  <2>2. CASE ~(i <= Len(relayed))
    <3>1. i - Len(relayed) \in 1..size /\ i \in 1..Len(relayed) + size BY <1>2, <1>3, <1>5, <2>2
    <3>2. c[i - Len(relayed)] = Len(relayed) + (i - Len(relayed)) BY <1>1, <1>4, <3>1
    <3>3. Len(relayed) + (i - Len(relayed)) = i BY <1>2, <3>1
    <3> QED BY <1>4, <1>5, <2>2, <3>1, <3>2, <3>3
  <2> QED BY <2>1, <2>2
<1> QED BY <1>5, <1>6

(* The front has been written whole. *)
LEMMA ChunkWritten ==
  ASSUME RelayInv, m_sink_ok, m_chunks # <<>>, UNCHANGED <<consumed, m_sink_ok>>,
         m_chunks' = Tail(m_chunks), Len(relayed') = Len(relayed) + Len(Head(m_chunks))
  PROVE  m_chunks' \in Seq(Seq(1..MaxBytes)) /\ ChunksInv' /\ QueueInv'
<1>1. /\ m_chunks \in Seq(Seq(1..MaxBytes)) /\ Len(m_chunks) \in Nat /\ Len(relayed) \in Nat
      /\ consumed \in Nat
  BY RelayTypes
<1>2. /\ m_chunks' \in Seq(Seq(1..MaxBytes)) /\ Len(m_chunks') = Len(m_chunks) - 1
      /\ 1 \in 1..Len(m_chunks)
      /\ \A i \in 1..Len(m_chunks') : m_chunks'[i] = m_chunks[i + 1] /\ i + 1 \in 1..Len(m_chunks)
  BY <1>1, Taken
<1>2a. PICK n \in Nat : n = Len(m_chunks') /\ n + 1 = Len(m_chunks)
  <2>1. \A a \in Nat : \A b : b = a - 1 /\ 1 \in 1..a => b \in Nat /\ b + 1 = a OBVIOUS
  <2>2. Len(m_chunks') \in Nat /\ Len(m_chunks') + 1 = Len(m_chunks) BY <1>1, <1>2, <2>1, Zenon
  <2> QED BY <2>2, Zenon
<1>3. ChunksInv'
  <2> SUFFICES ASSUME NEW k \in 1..Len(m_chunks') PROVE Whole(m_chunks'[k])
    BY DEF ChunksInv, Whole
  <2> QED BY <1>2 DEF RelayInv, ChunksInv
<1>4. /\ m_chunks[1][1] = Len(relayed) + 1 /\ m_chunks[1] = Head(m_chunks)
      /\ Len(Head(m_chunks)) \in Nat
      /\ \A k \in 1..Len(m_chunks) :
           IF k = Len(m_chunks) THEN m_chunks[k][1] + Len(m_chunks[k]) = consumed + 1
           ELSE m_chunks[k][1] + Len(m_chunks[k]) = m_chunks[k + 1][1]
  BY FrontIsNext DEF RelayInv, QueueInv
<1> DEFINE f == Len(Head(m_chunks))
<1>5. f \in Nat /\ Len(m_chunks[1]) = f /\ Len(relayed') = Len(relayed) + f
      /\ m_chunks[1][1] + f = Len(relayed') + 1
  <2>1. f \in Nat /\ Len(m_chunks[1]) = f /\ Len(relayed') = Len(relayed) + f BY <1>4
  <2>2. m_chunks[1][1] = Len(relayed) + 1 BY <1>4
  <2> HIDE DEF f
  <2> QED BY <1>1, <2>1, <2>2
<1> HIDE DEF f
<1>6. m_chunks' = <<>> => Len(relayed') = consumed
  <2> SUFFICES ASSUME m_chunks' = <<>> PROVE Len(relayed') = consumed OBVIOUS
  <2>1. Len(m_chunks) = 1
    <3>1. Len(m_chunks') = 0
      <4>1. \A q : q = <<>> => Len(q) = 0 OBVIOUS
      <4> QED BY <4>1
    <3>2. n = 0 BY <1>2a, <3>1, Zenon
    <3>3. n + 1 = 1 BY <3>2
    <3> QED BY <1>2a, <3>3, Zenon
  <2>2. m_chunks[1][1] + Len(m_chunks[1]) = consumed + 1 BY <1>2, <1>4, <2>1
  <2> QED BY <1>1, <1>5, <2>2
<1>7. m_chunks' # <<>> => m_chunks'[1][1] = Len(relayed') + 1
  <2> SUFFICES ASSUME m_chunks' # <<>> PROVE m_chunks'[1][1] = Len(relayed') + 1 OBVIOUS
  <2>1. Len(m_chunks') # 0 BY <1>2, EmptySeq
  <2>2. 1 \in 1..Len(m_chunks') /\ 1 # Len(m_chunks) BY <1>1, <1>2, <2>1
  <2>3. m_chunks'[1] = m_chunks[2] BY <1>2, <2>2
  <2>4. m_chunks[1][1] + Len(m_chunks[1]) = m_chunks[2][1]
    <3>1. m_chunks[1][1] + Len(m_chunks[1]) = m_chunks[1 + 1][1] BY <1>2, <1>4, <2>2
    <3> QED BY <3>1
  <2> QED BY <1>5, <2>3, <2>4
<1>8. ASSUME NEW k \in 1..Len(m_chunks')
      PROVE  IF k = Len(m_chunks') THEN m_chunks'[k][1] + Len(m_chunks'[k]) = consumed + 1
             ELSE m_chunks'[k][1] + Len(m_chunks'[k]) = m_chunks'[k + 1][1]
  <2>1. m_chunks'[k] = m_chunks[k + 1] /\ k + 1 \in 1..Len(m_chunks) /\ k \in Nat BY <1>2
  <2>2. k + 1 = Len(m_chunks) <=> k = Len(m_chunks') BY <1>1, <1>2, <2>1
  <2>3. IF k + 1 = Len(m_chunks) THEN m_chunks[k + 1][1] + Len(m_chunks[k + 1]) = consumed + 1
        ELSE m_chunks[k + 1][1] + Len(m_chunks[k + 1]) = m_chunks[k + 1 + 1][1]
    BY <1>4, <2>1
  <2>4. k # Len(m_chunks') => m_chunks'[k + 1] = m_chunks[k + 1 + 1]
    <3>0. \A i \in 1..n : i # n => i + 1 \in 1..n OBVIOUS
    <3>1. k # Len(m_chunks') => k + 1 \in 1..Len(m_chunks') BY <1>2a, <3>0, Zenon
    <3> QED BY <1>2, <3>1
  <2> QED BY <2>1, <2>2, <2>3, <2>4
<1>9. QueueInv' BY <1>6, <1>7, <1>8 DEF QueueInv
<1> QED BY <1>2, <1>3, <1>9

(* An error leaves the rest of the front. *)
LEMMA ChunkCut ==
  ASSUME RelayInv, m_sink_ok, m_chunks # <<>>,
         NEW size \in Nat, size < Len(Head(m_chunks)), m_sink_ok' = FALSE,
         m_chunks' = <<SubSeq(Head(m_chunks), size + 1, Len(Head(m_chunks)))>> \o Tail(m_chunks)
  PROVE  /\ m_chunks' \in Seq(Seq(1..MaxBytes)) /\ m_chunks' # <<>>
         /\ ChunksInv' /\ QueueInv'
<1> DEFINE c == Head(m_chunks)
           t == SubSeq(c, size + 1, Len(c))
<1>1. /\ c \in Seq(1..MaxBytes) /\ Len(c) \in Nat /\ Len(c) # 0
      /\ \A j \in 1..Len(c) : c[j] = Len(relayed) + j
  BY FrontIsNext
<1>2. m_chunks \in Seq(Seq(1..MaxBytes)) /\ Len(m_chunks) \in Nat /\ Len(relayed) \in Nat
  BY RelayTypes
<1>3. m_chunks' = <<t>> \o Tail(m_chunks) /\ size < Len(c) OBVIOUS
<1>4. /\ Tail(m_chunks) \in Seq(Seq(1..MaxBytes)) /\ Len(Tail(m_chunks)) \in Nat
      /\ \A i \in 1..Len(Tail(m_chunks)) :
           Tail(m_chunks)[i] = m_chunks[i + 1] /\ i + 1 \in 1..Len(m_chunks)
  BY <1>2, Taken
<1> HIDE DEF c
<1>5. /\ t \in Seq(1..MaxBytes) /\ Len(t) = Len(c) - size
      /\ \A j \in 1..Len(c) - size : t[j] = Len(relayed) + size + j
  <2>1. \A i \in size + 1..Len(c) : i \in 1..Len(c) BY <1>1, <1>3
  <2>2. c \in Seq(1..MaxBytes) BY <1>1
  <2>3. \A i \in 1..Len(c) : c[i] \in 1..MaxBytes BY <2>2, ElementOfSeq
  <2>4. \A i \in size + 1..Len(c) : c[i] \in 1..MaxBytes BY <2>1, <2>3
  <2>5. /\ t \in Seq(1..MaxBytes)
        /\ Len(t) = IF size + 1 <= Len(c) THEN Len(c) - (size + 1) + 1 ELSE 0
        /\ \A j \in 1..Len(c) - (size + 1) + 1 : t[j] = c[size + 1 + j - 1]
    BY <1>1, <2>4, SubSeqProperties
  <2>6. Len(t) = Len(c) - size BY <1>1, <1>3, <2>5
  <2>7. ASSUME NEW j \in 1..Len(c) - size PROVE t[j] = Len(relayed) + size + j
    <3>1. j \in 1..Len(c) - (size + 1) + 1 /\ size + 1 + j - 1 = size + j BY <1>1
    <3>2. size + j \in 1..Len(c) BY <1>1
    <3>3. t[j] = c[size + j] BY <2>5, <3>1
    <3>4. c[size + j] = Len(relayed) + (size + j) BY <1>1, <3>2
    <3> QED BY <1>2, <3>3, <3>4
  <2> QED BY <2>5, <2>6, <2>7
<1> HIDE DEF t
<1>6. Whole(t)
  <2>1. Len(t) # 0 /\ Len(t) \in Nat BY <1>1, <1>3, <1>5
  <2>2. t # <<>> BY <2>1
  <2>3. t[1] = Len(relayed) + size + 1 BY <1>5, <2>1
  <2>4. \A j \in 1..Len(t) : t[j] = t[1] + j - 1 BY <1>2, <1>5, <2>3
  <2> QED BY <2>2, <2>4 DEF Whole
<1>7. <<t>> \in Seq(Seq(1..MaxBytes)) /\ Len(<<t>>) = 1 /\ <<t>>[1] = t BY <1>5
<1> DEFINE h == <<t>>
           r == Tail(m_chunks)
<1>8. h \in Seq(Seq(1..MaxBytes)) /\ r \in Seq(Seq(1..MaxBytes)) /\ m_chunks' = h \o r
  BY <1>3, <1>4, <1>7
<1>9. Len(h) = 1 /\ h[1] = t /\ Len(r) \in Nat
      /\ \A i \in 1..Len(r) : r[i] = m_chunks[i + 1] /\ i + 1 \in 1..Len(m_chunks)
  BY <1>4, <1>7
<1> HIDE DEF h, r
<1>10. /\ m_chunks' \in Seq(Seq(1..MaxBytes)) /\ Len(m_chunks') = 1 + Len(r)
       /\ \A i \in 1..1 + Len(r) : m_chunks'[i] = IF i <= 1 THEN h[i] ELSE r[i - 1]
  <2>1. /\ h \o r \in Seq(Seq(1..MaxBytes)) /\ Len(h \o r) = Len(h) + Len(r)
        /\ \A i \in 1..Len(h) + Len(r) : (h \o r)[i] = IF i <= Len(h) THEN h[i] ELSE r[i - Len(h)]
    BY <1>8, ConcatProperties
  <2> QED BY <1>8, <1>9, <2>1
<1>11. m_chunks' # <<>>
  <2>1. Len(m_chunks') # 0 BY <1>9, <1>10
  <2> QED BY <1>10, <2>1
<1>12. ChunksInv'
  <2> SUFFICES ASSUME NEW k \in 1..Len(m_chunks') PROVE Whole(m_chunks'[k])
    BY DEF ChunksInv, Whole
  <2>1. CASE k = 1
    <3>1. m_chunks'[k] = t BY <1>9, <1>10, <2>1
    <3> QED BY <1>6, <3>1
  <2>2. CASE k # 1
    <3>1. m_chunks'[k] = r[k - 1] /\ k - 1 \in 1..Len(r) BY <1>9, <1>10, <2>2
    <3>2. r[k - 1] = m_chunks[k - 1 + 1] /\ k - 1 + 1 \in 1..Len(m_chunks) BY <1>9, <3>1
    <3> QED BY <3>1, <3>2 DEF RelayInv, ChunksInv
  <2> QED BY <2>1, <2>2
<1>13. QueueInv' BY DEF QueueInv
<1> QED BY <1>10, <1>11, <1>12, <1>13

(* The start, and what the user calls to end it. *)
LEMMA RelayCallsKeep ==
  ASSUME RelayInv, Start \/ CloseRelay \/ TerminateRelay
  PROVE  RelayInv'
<1>1. /\ UNCHANGED <<relayOptions, consumed, writing, m_chunks, m_source_ok, m_sink_ok,
                     relayed, endings>>
      /\ source' \in {"data", "eof", "closed"} /\ sinkOpen' \in BOOLEAN
      /\ m_closed' \in BOOLEAN /\ m_terminated' \in BOOLEAN /\ reading' \in BOOLEAN
      /\ m_closed => m_closed'
      /\ reading' = reading \/ (reading' = TRUE /\ consumed = 0 /\ m_source_ok /\ UNCHANGED m_closed)
      /\ m_closed' # m_closed => reading' = reading
  <2>0. /\ reading \in BOOLEAN /\ m_closed \in BOOLEAN /\ m_terminated \in BOOLEAN
        /\ sinkOpen \in BOOLEAN /\ source \in {"data", "eof", "closed"}
    BY DEF RelayInv, RelayFacts, RelayTypeOK
  <2>1. CASE Start BY <2>0, <2>1 DEF Start
  <2>2. CASE CloseRelay
    <3>1. sinkOpen' \in BOOLEAN
      <4>1. sinkOpen' = (sinkOpen /\ m_chunks # <<>>) BY <2>2 DEF CloseRelay
      <4> QED BY <4>1
    <3> QED BY <2>0, <2>2, <3>1 DEF CloseRelay
  <2>3. CASE TerminateRelay BY <2>0, <2>3 DEF TerminateRelay
  <2> QED BY <2>1, <2>2, <2>3
<1>2. RelayFacts'
  <2>1. RelayTypeOK' BY <1>1 DEF RelayInv, RelayFacts, RelayTypeOK, relayOptions
  <2>2. ~m_source_ok' => ~reading' BY <1>1 DEF RelayInv, RelayFacts
  <2> QED BY <1>1, <2>1, <2>2 DEF RelayInv, RelayFacts
<1>3. ChunksInv' /\ QueueInv' BY <1>1 DEF RelayInv, ChunksInv, QueueInv, Whole
<1>4. EndInv'
  <2>1. endings' + Pending' <= 2
    <3>1. CASE reading' = reading
      <4>1. Pending' = Pending BY <1>1, <3>1 DEF Pending
      <4> QED BY <1>1, <4>1 DEF RelayInv, EndInv
    <3>2. CASE reading' # reading
      <4>1. consumed = 0 /\ m_source_ok BY <1>1, <3>2
      <4>2. endings' = 0 /\ m_chunks' = <<>> BY <1>1, <4>1 DEF RelayInv, EndInv
      <4>3. Pending' \in 0..2 BY DEF Pending
      <4>4. \A k \in 0..2 : 0 + k <= 2 OBVIOUS
      <4> QED BY <4>2, <4>3, <4>4, Zenon
    <3> QED BY <3>1, <3>2
  <2>2. m_source_ok' /\ ~m_closed' => endings' = 0 BY <1>1 DEF RelayInv, EndInv
  <2>3. consumed' = 0 /\ m_source_ok' => endings' = 0 /\ m_chunks' = <<>>
    BY <1>1 DEF RelayInv, EndInv
  <2>4. endings' > 0 /\ ~m_closed' => ~m_source_ok' /\ m_chunks' = <<>> /\ m_sink_ok'
    BY <1>1 DEF RelayInv, EndInv
  <2> QED BY <2>1, <2>2, <2>3, <2>4 DEF EndInv
<1> QED BY <1>2, <1>3, <1>4 DEF RelayInv

(* What a step of the strand leaves as it was. *)
LEMMA RelayTyped ==
  ASSUME RelayInv, UNCHANGED <<relayOptions, m_closed, m_terminated>>,
         source' \in {"data", "eof", "closed"}, reading' \in BOOLEAN,
         m_source_ok' \in BOOLEAN, m_sink_ok' \in BOOLEAN, sinkOpen' \in BOOLEAN,
         writing' \in {"none", "open", "closed"}, consumed' \in 0..MaxBytes,
         m_chunks' \in Seq(Seq(1..MaxBytes)), relayed' \in Seq(1..MaxBytes), endings' \in 0..2
  PROVE  RelayTypeOK'
  BY DEF RelayInv, RelayFacts, RelayTypeOK, relayOptions

(* The end of the source. *)
LEMMA EndRead ==
  ASSUME RelayInv, HandleRead(0)
  PROVE  RelayInv'
<1>1. /\ reading /\ consumed' = consumed /\ UNCHANGED <<m_sink_ok, m_chunks, writing>>
      /\ m_source_ok' = FALSE /\ reading' = FALSE
      /\ UNCHANGED <<relayOptions, m_closed, m_terminated, relayed>>
      /\ source' \in {"data", "eof", "closed"}
      /\ IF m_chunks = <<>> THEN TryCloseSink ELSE UNCHANGED <<sinkOpen, endings>>
  <2>1. consumed + 0 = consumed BY RelayTypes
  <2>2. source \in {"data", "eof", "closed"} BY DEF RelayInv, RelayFacts, RelayTypeOK
  <2> QED BY <2>1, <2>2 DEF HandleRead
<1>2. m_source_ok
  BY <1>1 DEF RelayInv, RelayFacts
<1>3. /\ endings \in 0..2 /\ endings + Pending <= 2 /\ sinkOpen \in BOOLEAN /\ consumed \in 0..MaxBytes
      /\ m_chunks \in Seq(Seq(1..MaxBytes)) /\ relayed \in Seq(1..MaxBytes)
      /\ m_sink_ok \in BOOLEAN
  BY RelayTypes DEF RelayInv, EndInv
<1>4. \/ UNCHANGED <<sinkOpen, endings>>
      \/ m_chunks = <<>> /\ sinkOpen' = FALSE /\ endings' = endings + 1
  BY <1>1 DEF TryCloseSink
<1>5. endings' + Pending' <= 2 /\ endings' \in 0..2
  <2>1. Pending = 1 + (IF m_chunks # <<>> THEN 1 ELSE 0)
        /\ Pending' = (IF m_chunks # <<>> THEN 1 ELSE 0)
    <3>1. Pending' = 0 + (IF m_chunks # <<>> THEN 1 ELSE 0) BY <1>1 DEF Pending
    <3> QED BY <1>1, <3>1 DEF Pending
  <2> QED BY <1>3, <1>4, <2>1
<1>6. RelayTypeOK'
  <2>1. writing' \in {"none", "open", "closed"} BY <1>1 DEF RelayInv, RelayFacts, RelayTypeOK
  <2>2. sinkOpen' \in BOOLEAN BY <1>3, <1>4
  <2> QED BY <1>1, <1>3, <1>5, <2>1, <2>2, RelayTyped
<1>7. RelayFacts' BY <1>1, <1>6 DEF RelayInv, RelayFacts
<1>8. ChunksInv' /\ QueueInv' BY <1>1 DEF RelayInv, ChunksInv, QueueInv, Whole
<1>9. endings' > 0 /\ ~m_closed' => ~m_source_ok' /\ m_chunks' = <<>> /\ m_sink_ok'
  <2> SUFFICES ASSUME endings' > 0, ~m_closed PROVE m_chunks = <<>> /\ m_sink_ok
    BY <1>1
  <2>1. endings = 0 BY <1>2 DEF RelayInv, EndInv
  <2>2. m_chunks = <<>> BY <1>4, <2>1
  <2> QED BY <2>2 DEF RelayInv, RelayFacts
<1>10. EndInv' BY <1>1, <1>5, <1>9 DEF EndInv
<1> QED BY <1>7, <1>8, <1>10 DEF RelayInv

(* Data of the source. *)
LEMMA DataRead ==
  ASSUME RelayInv, NEW size \in Nat, size # 0, HandleRead(size)
  PROVE  RelayInv'
<1> DEFINE b == Bytes(consumed + 1, consumed + size)
<1>1. /\ reading /\ consumed' = consumed + size /\ consumed + size <= MaxBytes
      /\ UNCHANGED <<relayOptions, source, m_closed, m_terminated, m_sink_ok, relayed>>
      /\ m_source_ok' = (m_source_ok /\ TRUE)
      /\ reading' = (TRUE /\ ~m_closed /\ ~m_terminated)
      /\ IF m_chunks' = <<>> THEN TryCloseSink ELSE UNCHANGED <<sinkOpen, endings>>
  BY DEF HandleRead
<1>2. /\ reading' \in BOOLEAN /\ (m_closed => ~reading')
  BY <1>1
<1>3. m_source_ok /\ m_source_ok' = TRUE BY <1>1 DEF RelayInv, RelayFacts
<1>4. \/ /\ m_chunks' = Append(m_chunks, b)
         /\ writing' = writing \/ m_sink_ok
         /\ writing' \in {"none", "open", "closed"}
      \/ /\ ~m_sink_ok /\ UNCHANGED <<m_chunks, writing>>
  <2>0. writing \in {"none", "open", "closed"} BY DEF RelayInv, RelayFacts, RelayTypeOK
  <2>1. CASE m_chunks = <<>>
    <3>1. m_sink_ok /\ m_sink_ok' BY <1>1, <2>1 DEF RelayInv, RelayFacts
    <3>2. SpawnWriter(Append(m_chunks, b)) BY <2>1, <3>1 DEF HandleRead
    <3>3. m_chunks' = Append(m_chunks, b) /\ writing' \in {"none", "open", "closed"}
      BY <3>1, <3>2 DEF SpawnWriter
    <3> QED BY <3>1, <3>3
  <2>2. CASE m_chunks # <<>> BY <2>0, <2>2 DEF HandleRead
  <2> QED BY <2>1, <2>2
<1>5. /\ m_chunks' \in Seq(Seq(1..MaxBytes)) /\ m_chunks' # <<>>
      /\ ChunksInv' /\ QueueInv'
  <2>1. CASE m_chunks' = Append(m_chunks, b) BY <1>1, <2>1, ChunkQueued
  <2>2. CASE ~m_sink_ok /\ UNCHANGED <<m_chunks, writing>>
    <3>1. m_chunks # <<>> BY <2>2 DEF RelayInv, RelayFacts
    <3>2. ChunksInv' BY <2>2 DEF RelayInv, ChunksInv, Whole
    <3>3. QueueInv' BY <1>1, <2>2 DEF QueueInv
    <3> QED BY <2>2, <3>1, <3>2, <3>3, RelayTypes
  <2> QED BY <1>4, <2>1, <2>2
<1>6. UNCHANGED <<sinkOpen, endings>> BY <1>1, <1>5
<1>7. /\ consumed' \in 0..MaxBytes /\ consumed' # 0 /\ endings \in 0..2 /\ endings + Pending <= 2
      /\ sinkOpen \in BOOLEAN /\ relayed \in Seq(1..MaxBytes) /\ m_sink_ok \in BOOLEAN
  <2>1. consumed' \in 0..MaxBytes /\ consumed' # 0
    <3>1. consumed \in Nat /\ MaxBytes \in Nat BY RelayTypes
    <3> QED BY <1>1, <3>1
  <2> QED BY <2>1, RelayTypes DEF RelayInv, EndInv
<1>8. RelayTypeOK'
  <2>1. writing' \in {"none", "open", "closed"}
    BY <1>4 DEF RelayInv, RelayFacts, RelayTypeOK
  <2>2. source' \in {"data", "eof", "closed"} BY <1>1 DEF RelayInv, RelayFacts, RelayTypeOK
  <2> QED BY <1>1, <1>2, <1>3, <1>5, <1>6, <1>7, <2>1, <2>2, RelayTyped
<1>9. RelayFacts'
  <2>1. writing' # "none" => m_sink_ok' BY <1>1, <1>4 DEF RelayInv, RelayFacts
  <2> QED BY <1>1, <1>3, <1>5, <1>8, <2>1 DEF RelayInv, RelayFacts
<1>10. endings' + Pending' <= 2
  <2>1. CASE m_closed
    <3>1. Pending' = 0 + 1 BY <1>2, <1>5, <2>1 DEF Pending
    <3>2. Pending >= 1
      <4>1. Pending = 1 + (IF m_chunks # <<>> THEN 1 ELSE 0) BY <1>1 DEF Pending
      <4> QED BY <4>1
    <3>3. Pending \in Nat BY DEF Pending
    <3> QED BY <1>6, <1>7, <3>1, <3>2, <3>3
  <2>2. CASE ~m_closed
    <3>1. endings = 0 BY <1>3, <2>2 DEF RelayInv, EndInv
    <3>2. Pending' \in 0..2 BY DEF Pending
    <3>3. \A k \in 0..2 : 0 + k <= 2 OBVIOUS
    <3>4. endings' = 0 BY <1>6, <3>1
    <3> QED BY <3>2, <3>3, <3>4, Zenon
  <2> QED BY <2>1, <2>2
<1>11. EndInv'
  <2>1. m_source_ok' /\ ~m_closed' => endings' = 0 BY <1>1, <1>3, <1>6 DEF RelayInv, EndInv
  <2>2. ~(endings' > 0 /\ ~m_closed') BY <1>1, <1>3, <1>6 DEF RelayInv, EndInv
  <2> QED BY <1>7, <1>10, <2>1, <2>2 DEF EndInv
<1> QED BY <1>5, <1>9, <1>11 DEF RelayInv

(* The sink takes the front, or a part of it. *)
LEMMA FrontWritten ==
  ASSUME RelayInv, NEW size \in Nat, HandleWritten(size)
  PROVE  RelayInv'
<1> DEFINE f == Len(Head(m_chunks))
<1>1. /\ writing # "none" /\ size <= f /\ UNCHANGED consumed
      /\ UNCHANGED <<relayOptions, source, reading, m_closed, m_terminated, m_source_ok>>
      /\ relayed' = relayed \o SubSeq(Head(m_chunks), 1, size)
      /\ m_sink_ok' = (m_sink_ok /\ ~(size < f))
      /\ IF size < f
           THEN /\ m_chunks' = <<SubSeq(Head(m_chunks), size + 1, f)>> \o Tail(m_chunks)
                /\ writing' = "none" /\ UNCHANGED <<sinkOpen, endings>>
           ELSE IF Tail(m_chunks) # <<>>
           THEN SpawnWriter(Tail(m_chunks)) /\ UNCHANGED <<sinkOpen, endings>>
           ELSE m_chunks' = <<>> /\ writing' = "none" /\ TryCloseSink
  BY DEF HandleWritten
<1>2. m_sink_ok /\ m_chunks # <<>> BY <1>1 DEF RelayInv, RelayFacts
<1>3. f \in Nat /\ size \in 0..f BY <1>1, <1>2, FrontIsNext
<1>4. /\ relayed' \in Seq(1..MaxBytes) /\ Len(relayed') = Len(relayed) + size
      /\ \A i \in 1..Len(relayed') : relayed'[i] = i
  BY <1>1, <1>2, <1>3, BytesTaken
<1>5. /\ consumed \in 0..MaxBytes /\ endings \in 0..2 /\ endings + Pending <= 2
      /\ sinkOpen \in BOOLEAN /\ m_source_ok \in BOOLEAN /\ reading \in BOOLEAN
      /\ source \in {"data", "eof", "closed"} /\ (~m_source_ok => ~reading)
      /\ (m_source_ok /\ ~m_closed => endings = 0) /\ ~(consumed = 0 /\ m_source_ok)
      /\ ~(endings > 0 /\ ~m_closed)
  <2>1. source \in {"data", "eof", "closed"} BY DEF RelayInv, RelayFacts, RelayTypeOK
  <2> QED BY <1>2, <2>1, RelayTypes DEF RelayInv, RelayFacts, EndInv
<1>6. CASE size < f
  <2>1. /\ m_sink_ok' = FALSE /\ writing' = "none" /\ UNCHANGED <<sinkOpen, endings>>
        /\ m_chunks' = <<SubSeq(Head(m_chunks), size + 1, f)>> \o Tail(m_chunks)
    BY <1>1, <1>6
  <2>2. /\ m_chunks' \in Seq(Seq(1..MaxBytes)) /\ m_chunks' # <<>>
        /\ ChunksInv' /\ QueueInv'
    BY <1>2, <1>6, <2>1, ChunkCut
  <2>3. RelayTypeOK' BY <1>1, <1>4, <1>5, <2>1, <2>2, RelayTyped
  <2>4. RelayFacts' BY <1>1, <1>4, <1>5, <2>1, <2>2, <2>3 DEF RelayFacts
  <2>5. Pending' = Pending BY <1>1, <1>2, <2>2 DEF Pending
  <2>6. EndInv' BY <1>1, <1>5, <2>1, <2>5 DEF EndInv
  <2> QED BY <2>2, <2>4, <2>6 DEF RelayInv
<1>7. CASE ~(size < f)
  <2>1. size = f /\ m_sink_ok' = TRUE /\ UNCHANGED m_sink_ok
    <3>1. m_sink_ok' = (TRUE /\ TRUE) BY <1>1, <1>2, <1>7
    <3>2. size = f BY <1>3, <1>7
    <3> QED BY <1>2, <3>1, <3>2
  <2>2. m_chunks' = Tail(m_chunks) /\ writing' \in {"none", "open", "closed"}
        /\ (writing' # "none" => m_chunks' # <<>>)
    <3>1. CASE Tail(m_chunks) # <<>>
      <4>1. SpawnWriter(Tail(m_chunks)) BY <1>1, <1>7, <3>1
      <4> QED BY <2>1, <3>1, <4>1 DEF SpawnWriter
    <3>2. CASE Tail(m_chunks) = <<>> BY <1>1, <1>7, <3>2
    <3> QED BY <3>1, <3>2
  <2>3. m_chunks' \in Seq(Seq(1..MaxBytes)) /\ ChunksInv' /\ QueueInv'
    <3>1. Len(relayed') = Len(relayed) + Len(Head(m_chunks)) BY <1>4, <2>1
    <3> QED BY <1>1, <1>2, <2>1, <2>2, <3>1, ChunkWritten
  <2>4. \/ m_chunks' # <<>> /\ UNCHANGED <<sinkOpen, endings>>
        \/ /\ m_chunks' = <<>> /\ sinkOpen' \in BOOLEAN
           /\ \/ endings' = endings
              \/ endings' = endings + 1 /\ (m_closed \/ ~m_source_ok)
    <3>1. CASE Tail(m_chunks) # <<>> BY <1>1, <1>7, <2>2, <3>1
    <3>2. CASE Tail(m_chunks) = <<>>
      <4>1. m_chunks' = <<>> /\ TryCloseSink BY <1>1, <1>7, <3>2
      <4> QED BY <1>1, <1>5, <4>1 DEF TryCloseSink
    <3> QED BY <3>1, <3>2
  <2>5. endings' + Pending' <= 2 /\ endings' \in 0..2
    <3> DEFINE r == IF reading THEN 1 ELSE 0
    <3>1. Pending = r + 1 /\ r \in 0..1 BY <1>2 DEF Pending
    <3>2. CASE m_chunks' # <<>>
      <4>1. Pending' = r + 1
        <5>1. Pending' = (IF reading' THEN 1 ELSE 0) + 1 BY <3>2 DEF Pending
        <5> QED BY <1>1, <5>1
      <4>2. endings' = endings BY <2>4, <3>2
      <4> QED BY <1>5, <3>1, <4>1, <4>2
    <3>3. CASE m_chunks' = <<>>
      <4>1. Pending' = r
        <5>1. Pending' = (IF reading' THEN 1 ELSE 0) + 0 BY <3>3 DEF Pending
        <5> QED BY <1>1, <5>1
      <4>2. endings' = endings \/ endings' = endings + 1 BY <2>4
      <4> HIDE DEF r
      <4> QED BY <1>5, <3>1, <4>1, <4>2
    <3> QED BY <3>2, <3>3
  <2>6. sinkOpen' \in BOOLEAN BY <1>5, <2>4
  <2>7. RelayTypeOK'
    BY <1>1, <1>4, <1>5, <2>1, <2>2, <2>3, <2>5, <2>6, RelayTyped
  <2>8. RelayFacts' BY <1>1, <1>4, <1>5, <2>1, <2>2, <2>7 DEF RelayFacts
  <2>9. m_source_ok' /\ ~m_closed' => endings' = 0 BY <1>1, <1>5, <2>4
  <2>10. endings' > 0 /\ ~m_closed' => ~m_source_ok' /\ m_chunks' = <<>> /\ m_sink_ok'
    <3> SUFFICES ASSUME endings' > 0, ~m_closed PROVE ~m_source_ok /\ m_chunks' = <<>>
      BY <1>1, <2>1
    <3>1. endings' # endings BY <1>5
    <3> QED BY <2>4, <3>1
  <2>11. EndInv' BY <1>1, <1>5, <2>5, <2>9, <2>10 DEF EndInv
  <2> QED BY <2>3, <2>8, <2>11 DEF RelayInv
<1> QED BY <1>6, <1>7

(* The invariant holds at first. *)
LEMMA RelayInvInit == RelayInit => RelayInv
<1> SUFFICES ASSUME RelayInit PROVE RelayInv OBVIOUS
<1> USE DEF RelayInit
<1>1. Len(m_chunks) = 0 /\ Len(relayed) = 0 OBVIOUS
<1>2. RelayTypeOK
  <2>1. m_chunks \in Seq(Seq(1..MaxBytes)) /\ relayed \in Seq(1..MaxBytes) OBVIOUS
  <2>2. consumed \in 0..MaxBytes BY RelayAssumption
  <2>3. {m_close_sink_on_eof, m_discard_on_sink_error, reading, m_closed, m_terminated,
         m_source_ok, m_sink_ok, sinkOpen} \subseteq BOOLEAN
    OBVIOUS
  <2>4. writing \in {"none", "open", "closed"} /\ source \in {"data", "eof", "closed"}
        /\ endings \in 0..2
    OBVIOUS
  <2> HIDE DEF RelayInit
  <2> QED BY <2>1, <2>2, <2>3, <2>4 DEF RelayTypeOK
<1>3. RelayFacts BY <1>1, <1>2 DEF RelayFacts
<1>4. ChunksInv /\ QueueInv BY <1>1 DEF ChunksInv, QueueInv
<1>5. EndInv
  <2>1. Pending = 0 + 0 BY DEF Pending
  <2> QED BY <2>1 DEF EndInv
<1> QED BY <1>3, <1>4, <1>5 DEF RelayInv

(* The invariant is kept by every step. *)
LEMMA RelayInvNext == RelayInv /\ [RelayNext]_relayVars => RelayInv'
<1> SUFFICES ASSUME RelayInv, [RelayNext]_relayVars PROVE RelayInv' OBVIOUS
<1>1. CASE UNCHANGED relayVars
  <2> USE <1>1 DEF relayVars, relayOptions
  <2>1. RelayFacts' BY DEF RelayInv, RelayFacts, RelayTypeOK
  <2>2. ChunksInv' /\ QueueInv' BY DEF RelayInv, ChunksInv, QueueInv, Whole
  <2>3. Pending' = Pending BY DEF Pending
  <2>4. EndInv' BY <2>3 DEF RelayInv, EndInv
  <2> QED BY <2>1, <2>2, <2>4 DEF RelayInv
<1>2. CASE Start \/ CloseRelay \/ TerminateRelay BY <1>2, RelayCallsKeep
<1>3. ASSUME NEW size \in 0..MaxChunk, HandleRead(size) PROVE RelayInv'
  <2>1. size \in Nat BY RelayAssumption
  <2> QED BY <1>3, <2>1, EndRead, DataRead
<1>4. ASSUME NEW size \in 0..MaxChunk, HandleWritten(size) PROVE RelayInv'
  <2>1. size \in Nat BY RelayAssumption
  <2> QED BY <1>4, <2>1, FrontWritten
<1> QED BY <1>1, <1>2, <1>3, <1>4 DEF RelayNext, RelayStep

(* The invariant says what the relay has passed on. *)
LEMMA RelayOrders == RelayInv => RelayedInOrder
<1> SUFFICES ASSUME RelayInv PROVE RelayedInOrder OBVIOUS
<1>1. endings > 0 /\ ~m_closed => Len(relayed) = consumed /\ ~m_source_ok
  BY DEF RelayInv, EndInv, QueueInv
<1> QED BY <1>1 DEF RelayInv, RelayFacts, QueueInv, RelayedInOrder

----------------------------------------------------------------------------
(* A queued writer delivers the messages whole and in the order in which     *)
(* they were queued, and a relay the bytes of the source from the first on,  *)
(* for any messages, any sizes of chunks and any end.                        *)
(* (queued_writer.hpp:42-83, buffer_connection.hpp:99-173)                   *)
THEOREM ConnectionsDeliver == WriterSpec /\ RelaySpec => []ConnectionsKeepOrder
<1>1. WriterSpec => []WriterInv
  BY WriterInvInit, WriterInvNext, PTL DEF WriterSpec
<1>2. RelaySpec => []RelayInv
  BY RelayInvInit, RelayInvNext, PTL DEF RelaySpec
<1>3. WriterInv /\ RelayInv => ConnectionsKeepOrder
  BY WriterDelivers, RelayOrders DEF ConnectionsKeepOrder
<1> QED BY <1>1, <1>2, <1>3, PTL
=============================================================================
