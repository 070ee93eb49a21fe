------------------------ MODULE ExchangeServerProofs -------------------------
(***************************************************************************)
(* The server routes by session, counts what it owes, answers before it    *)
(* removes and stops clean, for any clients, queue sizes, budgets and      *)
(* limits and whatever faults there are.                                   *)
(***************************************************************************)
EXTENDS ExchangeServer, SequenceTheorems, FiniteSetTheorems, TLAPS

\* A leaf that names no other prover is proved by Zenon.
USE ZenonT(30)

(* Types *)

Envelopes == [connection : Nat \ {0}, action : {"Command", "Snapshot"}, client : Clients \cup {0}]

\* The last report for a request names its connection.
Reports ==
    {r \in [client : Clients \cup {0}, connection : Nat, last : BOOLEAN] : r.last => r.connection # 0}

Connections ==
    [client : Clients \cup {0}, input : Frames \cup {None}, output : Nat, closing : BOOLEAN,
     read_closed : BOOLEAN, admitted : Nat]

Engines ==
    [at : {"load", "pop", "push", "end", "done"}, input_finished : BOOLEAN,
     reports : Seq(Reports), updates : Nat]

Publishers == [at : {"load", "pop", "done"}, matching_finished : BOOLEAN]

Ios ==
    [at : {"serve", "route", "decide", "join", "end"}, matching_finished : BOOLEAN, routed : Nat,
     todo : SUBSET Nat, remove : SUBSET Nat, lost : SUBSET Nat]

\* The connections are numbered from 1 in the order they are accepted.
TypeOK ==
    /\ stop \in BOOLEAN /\ fatal \in BOOLEAN /\ ingress_done \in BOOLEAN /\ engine_done \in BOOLEAN
    /\ requests \in Seq(Envelopes) /\ responses \in Seq(Reports) /\ updates \in Seq({"Delta"})
    /\ engine \in Engines /\ publisher \in Publishers /\ io \in Ios
    /\ draining \in BOOLEAN
    /\ next_connection \in Nat \ {0}
    /\ DOMAIN connections \subseteq 1..(next_connection - 1)
    /\ connections \in [DOMAIN connections -> Connections]
    /\ DOMAIN routes \subseteq Clients

-----------------------------------------------------------------------------
(* The inductive invariants *)

\* The connections still to be served in a turn, and those served and found
\* dead, are connections; there are none outside of the serving.
TurnOK ==
    /\ io.todo \cup io.remove \subseteq DOMAIN connections
    /\ io.todo \cap io.remove = {}
    /\ io.at # "serve" => io.todo = {} /\ io.remove = {}

\* The threads go down one after the other: the flags are set when there is no
\* more to come, and a flag that was seen is still set.
Ending ==
    /\ engine_done <=> engine.at = "done"
    /\ engine.at # "push" => engine.reports = <<>> /\ engine.updates = 0
    /\ engine.at = "pop" /\ engine.input_finished => ingress_done
    /\ io.matching_finished => engine_done
    /\ publisher.matching_finished => engine_done
    /\ io.at = "end" => engine.at = "done" /\ publisher.at = "done"
    /\ io.at = "decide" => draining
    /\ io.at = "decide" /\ io.matching_finished /\ io.routed = 0 => responses = <<>>

\* Without a fatal error the engine ends after the requests have, the publisher
\* after the updates, and the I/O thread after the responses have been sent.
Finishing ==
    ~fatal =>
        /\ ingress_done => draining
        /\ engine.at \in {"end", "done"} => ingress_done /\ requests = <<>>
        /\ publisher.at = "done" => engine_done /\ updates = <<>>
        /\ io.at \in {"join", "end"} => engine_done /\ responses = <<>> /\ NothingPending

\* What a connection is owed is what it was admitted for; a fatal error drops
\* answers, so it may then be owed less.  Nothing is on its way to connections
\* that are still to come.
Counted ==
    \A id \in Nat \ {0} :
        /\ id >= next_connection => Outstanding(id) = 0
        /\ id \in DOMAIN connections /\ ~connections[id].closing =>
              /\ Outstanding(id) <= connections[id].admitted
              /\ ~fatal => connections[id].admitted = Outstanding(id)

\* Why a connection is to be removed.
Marked ==
    \A id \in io.remove :
        \/ id \in io.lost
        \/ connections[id].closing
        \/ IsWhole(connections[id].input)
        \/ connections[id].output = 0 /\ connections[id].admitted = 0

ServerInv == TypeOK /\ TurnOK /\ RoutesAreSessions /\ Ending /\ Finishing /\ Counted /\ Marked

-----------------------------------------------------------------------------
(* Counting *)

Count(s, T) == Cardinality({n \in DOMAIN s : s[n] \in T})

\* What is counted is finite.
LEMMA CountType ==
    ASSUME NEW S, NEW s \in Seq(S), NEW T
    PROVE  IsFiniteSet({n \in DOMAIN s : s[n] \in T}) /\ Count(s, T) \in Nat
  <1>1. IsFiniteSet(1..Len(s)) /\ DOMAIN s = 1..Len(s)
    BY FS_Interval, LenProperties, SMTT(30)
  <1>2. IsFiniteSet({n \in DOMAIN s : s[n] \in T})
    BY <1>1, FS_Subset
  <1> QED
    BY <1>2, FS_CardinalityType DEF Count

\* One more at the end of a queue.
LEMMA CountAppend ==
    ASSUME NEW S, NEW s \in Seq(S), NEW e \in S, NEW T
    PROVE  Count(Append(s, e), T) = Count(s, T) + (IF e \in T THEN 1 ELSE 0)
  <1> DEFINE t == Append(s, e)
             A == {n \in DOMAIN s : s[n] \in T}
             B == {n \in DOMAIN t : t[n] \in T}
  <1>1. /\ Len(s) \in Nat /\ DOMAIN s = 1..Len(s) /\ DOMAIN t = 1..(Len(s) + 1)
        /\ \A n \in 1..Len(s) : t[n] = s[n]
        /\ t[Len(s) + 1] = e
    BY AppendProperties, LenProperties, SMTT(30)
  <1>2. IsFiniteSet(A) /\ Cardinality(A) \in Nat
    BY CountType, FS_CardinalityType
  <1>3. Len(s) + 1 \notin A /\ (e \in T => B = A \cup {Len(s) + 1}) /\ (e \notin T => B = A)
    BY <1>1, SMTT(30)
  <1>4. Count(s, T) = Cardinality(A) /\ Count(t, T) = Cardinality(B)
    BY DEF Count
  <1> HIDE DEF t, A, B
  <1>5. Cardinality(A \cup {Len(s) + 1}) = Cardinality(A) + 1
    BY <1>2, <1>3, FS_AddElement
  <1>6. Count(t, T) = Count(s, T) + (IF e \in T THEN 1 ELSE 0)
    <2>1. CASE e \in T
      BY <1>2, <1>3, <1>4, <1>5, <2>1
    <2>2. CASE e \notin T
      BY <1>2, <1>3, <1>4, <2>2, SMTT(30)
    <2> QED
      BY <2>1, <2>2
  <1> QED
    BY <1>6 DEF t

\* One less at its head.
LEMMA CountTail ==
    ASSUME NEW S, NEW s \in Seq(S), s # <<>>, NEW T
    PROVE  Count(s, T) = Count(Tail(s), T) + (IF Head(s) \in T THEN 1 ELSE 0)
  <1> DEFINE t == Tail(s)
             A == {n \in DOMAIN s : s[n] \in T}
             B == {n \in DOMAIN t : t[n] \in T}
             C == {n \in A : n > 1}
             shift == [n \in B |-> n + 1]
  <1>1. /\ Len(s) \in Nat /\ Len(s) > 0 /\ DOMAIN s = 1..Len(s) /\ DOMAIN t = 1..(Len(s) - 1)
        /\ \A n \in 1..(Len(s) - 1) : t[n] = s[n + 1]
        /\ Head(s) = s[1]
    <2>1. Tail(s) \in Seq(S) /\ Len(Tail(s)) = Len(s) - 1
          /\ \A i \in 1..Len(Tail(s)) : Tail(s)[i] = s[i + 1]
      BY HeadTailProperties
    <2>2. Len(s) \in Nat /\ Len(s) > 0 /\ DOMAIN s = 1..Len(s)
      BY EmptySeq, LenProperties, SMTT(30)
    <2>3. DOMAIN Tail(s) = 1..Len(Tail(s))
      BY <2>1, LenProperties
    <2> QED
      BY <2>1, <2>2, <2>3, SMTT(30)
  <1>2. /\ 1 \notin C /\ (Head(s) \in T => A = C \cup {1}) /\ (Head(s) \notin T => A = C)
    BY <1>1, SMTT(30)
  <1>3. shift \in Bijection(B, C)
    <2>1. ASSUME NEW n \in B PROVE n + 1 \in C
      BY <1>1, SMTT(30)
    <2>2. shift \in [B -> C]
      BY <2>1
    <2>3. IsInjective(shift)
      BY <1>1, SMTT(30) DEF IsInjective
    <2>4. ASSUME NEW c \in C PROVE \E n \in B : shift[n] = c
      <3>1. c - 1 \in B /\ (c - 1) + 1 = c
        BY <1>1, SMTT(30)
      <3> QED
        BY <3>1
    <2> QED
      BY <2>2, <2>3, <2>4 DEF Bijection, Injection, Surjection
  <1>4. IsFiniteSet(B) /\ Cardinality(B) \in Nat
    <2>1. t \in Seq(S)
      BY HeadTailProperties
    <2> QED
      BY <2>1, CountType, FS_CardinalityType
  <1>5. Count(s, T) = Cardinality(A) /\ Count(t, T) = Cardinality(B)
    BY DEF Count
  <1> HIDE DEF t, A, B, C, shift
  <1>6. IsFiniteSet(C) /\ Cardinality(C) = Cardinality(B)
    <2>1. ExistsBijection(B, C)
      BY <1>3 DEF ExistsBijection
    <2> QED
      BY <1>4, <2>1, FS_Bijection
  <1>7. Cardinality(C \cup {1}) = Cardinality(C) + 1
    BY <1>2, <1>6, FS_AddElement, SMTT(30)
  <1>8. Count(s, T) = Count(t, T) + (IF Head(s) \in T THEN 1 ELSE 0)
    <2>1. CASE Head(s) \in T
      BY <1>2, <1>4, <1>5, <1>6, <1>7, <2>1
    <2>2. CASE Head(s) \notin T
      BY <1>2, <1>4, <1>5, <1>6, <2>2, SMTT(30)
    <2> QED
      BY <2>1, <2>2
  <1> QED
    BY <1>8 DEF t

\* Where there is none there is none to count.
LEMMA CountEmpty == \A T : Count(<<>>, T) = 0
  <1> TAKE T
  <1>1. {n \in DOMAIN <<>> : <<>>[n] \in T} = {}
    BY SMTT(30)
  <1> QED
    BY <1>1, FS_EmptySet DEF Count

\* Only the last one of one or two counts, or does not.
LEMMA CountLast ==
    ASSUME NEW T, NEW r, r \notin T, NEW x
    PROVE  /\ Count(<<x>>, T) = IF x \in T THEN 1 ELSE 0
           /\ Count(<<r, x>>, T) = IF x \in T THEN 1 ELSE 0
  <1>1. /\ DOMAIN <<x>> = {1} /\ <<x>>[1] = x
        /\ DOMAIN <<r, x>> = {1, 2} /\ <<r, x>>[1] = r /\ <<r, x>>[2] = x
    BY SMTT(30)
  <1>2. CASE x \in T
    <2>1. {n \in DOMAIN <<x>> : <<x>>[n] \in T} = {1}
      BY <1>1, <1>2
    <2>2. {n \in DOMAIN <<r, x>> : <<r, x>>[n] \in T} = {2}
      BY <1>1, <1>2
    <2> QED
      BY <1>2, <2>1, <2>2, FS_Singleton DEF Count
  <1>3. CASE x \notin T
    <2>1. {n \in DOMAIN <<x>> : <<x>>[n] \in T} = {}
      BY <1>1, <1>3
    <2>2. {n \in DOMAIN <<r, x>> : <<r, x>>[n] \in T} = {}
      BY <1>1, <1>3
    <2> QED
      BY <1>3, <2>1, <2>2, FS_EmptySet DEF Count
  <1> QED
    BY <1>2, <1>3

-----------------------------------------------------------------------------
(* What the queues hold *)

\* The requests of connection id, and the last reports for them.
Own(id) == [connection : {id}, action : {"Command", "Snapshot"}, client : Clients \cup {0}]

Ends(id) == [client : Clients \cup {0}, connection : {id}, last : {TRUE}]

\* The requests of a connection in one queue, and the last reports for them in
\* another.
LEMMA QueueCounts ==
    ASSUME NEW id \in Nat \ {0}, NEW p \in Seq(Envelopes), NEW q \in Seq(Reports)
    PROVE  /\ Cardinality({n \in DOMAIN p : p[n].connection = id}) = Count(p, Own(id))
           /\ Cardinality({n \in DOMAIN q : q[n].connection = id /\ q[n].last}) = Count(q, Ends(id))
           /\ Count(p, Own(id)) \in Nat /\ Count(q, Ends(id)) \in Nat
  <1>1. {n \in DOMAIN q : q[n].connection = id /\ q[n].last} = {n \in DOMAIN q : q[n] \in Ends(id)}
    <2>1. \A n \in DOMAIN q : q[n] \in Reports
      BY ElementOfSeq, LenProperties
    <2>2. \A r \in Reports : r.connection = id /\ r.last <=> r \in Ends(id)
      BY DEF Reports, Ends
    <2> QED
      BY <2>1, <2>2
  <1>2. {n \in DOMAIN p : p[n].connection = id} = {n \in DOMAIN p : p[n] \in Own(id)}
    <2>1. \A n \in DOMAIN p : p[n] \in Envelopes
      BY ElementOfSeq, LenProperties
    <2>2. \A e \in Envelopes : e.connection = id <=> e \in Own(id)
      BY DEF Envelopes, Own
    <2> QED
      BY <2>1, <2>2
  <1>3. Count(p, Own(id)) \in Nat /\ Count(q, Ends(id)) \in Nat
    BY CountType
  <1> QED
    BY <1>1, <1>2, <1>3 DEF Count

\* Outstanding is a sum of counts.
LEMMA OutstandingCounts ==
    ASSUME TypeOK, NEW id \in Nat \ {0}
    PROVE  /\ Outstanding(id) = Count(requests, Own(id)) + Count(engine.reports, Ends(id))
                                   + Count(responses, Ends(id))
           /\ Count(requests, Own(id)) \in Nat
           /\ Count(engine.reports, Ends(id)) \in Nat /\ Count(responses, Ends(id)) \in Nat
  <1>1. requests \in Seq(Envelopes) /\ engine.reports \in Seq(Reports) /\ responses \in Seq(Reports)
    BY DEF TypeOK, Engines
  <1> QED
    BY <1>1, QueueCounts DEF Outstanding

\* It is one after a step, too.
LEMMA OutstandingNext ==
    ASSUME TypeOK', NEW id \in Nat \ {0}
    PROVE  /\ Outstanding(id)' = Count(requests', Own(id)) + Count(engine'.reports, Ends(id))
                                    + Count(responses', Ends(id))
           /\ Count(requests', Own(id)) \in Nat
           /\ Count(engine'.reports, Ends(id)) \in Nat /\ Count(responses', Ends(id)) \in Nat
  <1>1. requests' \in Seq(Envelopes) /\ engine'.reports \in Seq(Reports) /\ responses' \in Seq(Reports)
    BY DEF TypeOK, Engines
  <1> QED
    BY <1>1, QueueCounts DEF Outstanding

\* The engine's answer to a request is made of reports, and one of them is the
\* last one for it.
LEMMA AnswersType ==
    ASSUME NEW e \in Envelopes, NEW answer \in Answers(e)
    PROVE  /\ answer.reports \in Seq(Reports) /\ answer.updates \in Nat
           /\ \A id \in Nat \ {0} :
                 Count(answer.reports, Ends(id)) = IF e \in Own(id) THEN 1 ELSE 0
  <1> DEFINE own == Report(e.client, e.connection, TRUE)
  <1>1. own \in Reports
    BY DEF Envelopes, Reports, Report
  <1>2. \E r \in Reports : /\ r.last = FALSE /\ answer.updates \in Nat
                           /\ answer.reports = <<own>> \/ answer.reports = <<r, own>>
    <2>1. CASE e.action = "Command"
      <3>1. \/ answer \in [reports : {<<own>>}, updates : 0..1]
            \/ answer \in [reports : {<<Report(k, 0, FALSE), own>> : k \in Clients \ {e.client}}, updates : {1}]
        BY <2>1 DEF Answers
      <3>2. \A k \in Clients \cup {0} : Report(k, 0, FALSE) \in Reports /\ Report(k, 0, FALSE).last = FALSE
        BY DEF Report, Reports
      <3> HIDE DEF own
      <3>3. CASE answer \in [reports : {<<own>>}, updates : 0..1]
        <4>1. answer.reports = <<own>> /\ answer.updates \in Nat
          BY <3>3, SMTT(30)
        <4>2. Report(0, 0, FALSE) \in Reports /\ Report(0, 0, FALSE).last = FALSE
          BY <3>2
        <4> QED
          BY <4>1, <4>2
      <3>4. CASE answer \in [reports : {<<Report(k, 0, FALSE), own>> : k \in Clients \ {e.client}}, updates : {1}]
        <4>1. PICK k \in Clients : answer.reports = <<Report(k, 0, FALSE), own>>
          BY <3>4
        <4>2. answer.updates \in Nat
          BY <3>4, SMTT(30)
        <4> QED
          BY <3>2, <4>1, <4>2
      <3> QED
        BY <3>1, <3>3, <3>4
    <2>2. CASE e.action = "Snapshot"
      <3> DEFINE r == Report(e.client, e.connection, FALSE)
      <3>1. answer \in [reports : {<<r, own>>}, updates : {0}]
        BY <2>2 DEF Answers
      <3>2. r \in Reports /\ r.last = FALSE
        BY DEF Report, Reports, Envelopes
      <3> HIDE DEF own, r
      <3>3. answer.reports = <<r, own>> /\ answer.updates \in Nat
        BY <3>1, SMTT(30)
      <3> QED
        BY <3>2, <3>3
    <2> QED
      BY <2>1, <2>2 DEF Envelopes
  <1>3. \A id \in Nat \ {0} : own \in Ends(id) <=> e \in Own(id)
    BY DEF Report, Ends, Own, Envelopes
  <1> HIDE DEF own
  <1>4. PICK r \in Reports : /\ r.last = FALSE /\ answer.updates \in Nat
                             /\ answer.reports = <<own>> \/ answer.reports = <<r, own>>
    BY <1>2
  <1>5. <<own>> \in Seq(Reports) /\ <<r, own>> \in Seq(Reports)
    BY <1>1, SMTT(30)
  <1>6. \A id : r \notin Ends(id)
    BY <1>4 DEF Ends
  <1>7. \A id : /\ Count(<<own>>, Ends(id)) = IF own \in Ends(id) THEN 1 ELSE 0
                /\ Count(<<r, own>>, Ends(id)) = IF own \in Ends(id) THEN 1 ELSE 0
    BY <1>6, CountLast
  <1>8. answer.reports \in Seq(Reports) /\ answer.updates \in Nat
    BY <1>4, <1>5
  <1>9. \A id : Count(answer.reports, Ends(id)) = IF own \in Ends(id) THEN 1 ELSE 0
    BY <1>4, <1>7
  <1> QED
    BY <1>3, <1>8, <1>9

-----------------------------------------------------------------------------
(* Types *)

\* The engine thread keeps them.
LEMMA EngineKeepsTypes == ASSUME TypeOK, EngineThread PROVE TypeOK'
  <1>1. /\ requests \in Seq(Envelopes) /\ responses \in Seq(Reports) /\ updates \in Seq({"Delta"})
        /\ engine \in Engines /\ engine.reports \in Seq(Reports) /\ engine.updates \in Nat
        /\ ingress_done \in BOOLEAN
    BY DEF TypeOK, Engines
  <1>2. UNCHANGED <<publisher, io, draining, sessions>>
    BY DEF EngineThread, EngineLoad, EnginePop, EnginePush, EngineFails, EngineEnd
  <1>3. stop' \in BOOLEAN /\ fatal' \in BOOLEAN /\ ingress_done' \in BOOLEAN /\ engine_done' \in BOOLEAN
    BY DEF TypeOK, EngineThread, EngineLoad, EnginePop, EnginePush, EngineFails, EngineEnd, flags
  <1> SUFFICES /\ requests' \in Seq(Envelopes) /\ responses' \in Seq(Reports)
               /\ updates' \in Seq({"Delta"}) /\ engine' \in Engines
    BY <1>2, <1>3 DEF TypeOK, sessions
  <1>4. <<>> \in Seq(Reports)
    BY EmptySeq
  <1>5. CASE EngineLoad \/ EngineEnd
    <2>1. UNCHANGED <<requests, responses, updates>>
      BY <1>5 DEF EngineLoad, EngineEnd, queues
    <2>2. engine' \in Engines
      BY <1>1, <1>5 DEF EngineLoad, EngineEnd, Engines
    <2> QED
      BY <1>1, <2>1, <2>2
  <1>6. CASE EnginePop
    <2>1. UNCHANGED <<responses, updates>>
      BY <1>6 DEF EnginePop
    <2>2. CASE requests = <<>>
      <3>1. requests' = requests
        BY <1>6, <2>2 DEF EnginePop
      <3>2. engine' \in Engines
        BY <1>1, <1>6, <2>2 DEF EnginePop, Engines
      <3> QED
        BY <1>1, <2>1, <3>1, <3>2
    <2>3. CASE requests # <<>>
      <3>1. Head(requests) \in Envelopes /\ Tail(requests) \in Seq(Envelopes)
        BY <1>1, <2>3, HeadTailProperties
      <3>2. PICK answer \in Answers(Head(requests)) :
              /\ requests' = Tail(requests)
              /\ engine' = [at |-> "push", input_finished |-> FALSE,
                            reports |-> answer.reports, updates |-> answer.updates]
        BY <1>6, <2>3 DEF EnginePop
      <3>3. answer.reports \in Seq(Reports) /\ answer.updates \in Nat
        BY <3>1, AnswersType
      <3>4. engine' \in Engines
        BY <3>2, <3>3 DEF Engines
      <3> QED
        BY <1>1, <2>1, <3>1, <3>2, <3>4
    <2> QED
      BY <2>2, <2>3
  <1>7. CASE EnginePush
    <2>1. requests' = requests
      BY <1>7 DEF EnginePush
    <2>2. /\ updates' \in {updates, Append(updates, "Delta")}
          /\ \/ responses' = responses
             \/ engine.reports # <<>> /\ responses' = Append(responses, Head(engine.reports))
      BY <1>7 DEF EnginePush
    <2> DEFINE h == Head(engine.reports)
               t == Tail(engine.reports)
    <2>3. engine.reports # <<>> => h \in Reports /\ t \in Seq(Reports)
      BY <1>1, HeadTailProperties
    <2> HIDE DEF h, t
    <2>4. responses' \in Seq(Reports)
      <3>1. responses' = responses \/ (engine.reports # <<>> /\ responses' = Append(responses, h))
        BY <2>2 DEF h
      <3> QED
        BY <1>1, <2>3, <3>1, AppendProperties
    <2>5. updates' \in Seq({"Delta"})
      BY <1>1, <2>2, AppendProperties, SMTT(30)
    <2>6. engine' \in Engines
      <3>1. \/ engine.reports # <<>> /\ engine' = [engine EXCEPT !.reports = t]
            \/ engine' = [engine EXCEPT !.reports = <<>>]
            \/ engine.updates > 0 /\ engine' = [engine EXCEPT !.updates = @ - 1]
            \/ engine' = [engine EXCEPT !.updates = 0]
            \/ engine' = [engine EXCEPT !.at = "load"]
        BY <1>7 DEF EnginePush, t
      <3>2. ASSUME NEW s \in Seq(Reports) PROVE [engine EXCEPT !.reports = s] \in Engines
        BY <1>1 DEF Engines
      <3>3. ASSUME NEW n \in Nat PROVE [engine EXCEPT !.updates = n] \in Engines
        BY <1>1 DEF Engines
      <3>4. [engine EXCEPT !.at = "load"] \in Engines
        BY <1>1 DEF Engines
      <3>5. engine.updates > 0 => engine.updates - 1 \in Nat
        BY <1>1, SMTT(30)
      <3> QED
        BY <1>4, <2>3, <3>1, <3>2, <3>3, <3>4, <3>5
    <2> QED
      BY <1>1, <2>1, <2>4, <2>5, <2>6
  <1>8. CASE EngineFails
    <2>1. requests # <<>> /\ requests' = Tail(requests) /\ UNCHANGED <<responses, updates>>
      BY <1>8 DEF EngineFails
    <2>2. requests' \in Seq(Envelopes)
      BY <1>1, <2>1, HeadTailProperties
    <2>3. engine' \in Engines
      BY <1>1, <1>8 DEF EngineFails, Engines
    <2> QED
      BY <1>1, <2>1, <2>2, <2>3
  <1> QED
    BY <1>5, <1>6, <1>7, <1>8 DEF EngineThread

\* So does the publisher thread.
LEMMA PublisherKeepsTypes == ASSUME TypeOK, PublisherThread PROVE TypeOK'
  <1>1. updates \in Seq({"Delta"}) /\ publisher \in Publishers /\ engine_done \in BOOLEAN
    BY DEF TypeOK
  <1>2. UNCHANGED <<requests, responses, engine, io, draining, sessions>>
    BY DEF PublisherThread, PublisherLoad, PublisherPop, PublisherFails, queues
  <1>3. stop' \in BOOLEAN /\ fatal' \in BOOLEAN /\ ingress_done' \in BOOLEAN /\ engine_done' \in BOOLEAN
    BY DEF TypeOK, PublisherThread, PublisherLoad, PublisherPop, PublisherFails, flags
  <1>4. updates' \in Seq({"Delta"})
    <2>1. updates' = updates \/ (updates # <<>> /\ updates' = Tail(updates))
      BY DEF PublisherThread, PublisherLoad, PublisherPop, PublisherFails, queues
    <2> QED
      BY <1>1, <2>1, HeadTailProperties
  <1>5. publisher' \in Publishers
    <2>1. CASE PublisherLoad
      BY <1>1, <2>1 DEF PublisherLoad, Publishers
    <2>2. CASE PublisherPop \/ PublisherFails
      <3>1. \E at \in {"load", "done"} : publisher' = [at |-> at, matching_finished |-> FALSE]
        BY <2>2 DEF PublisherPop, PublisherFails
      <3> QED
        BY <3>1, SMTT(30) DEF Publishers
    <2> QED
      BY <2>1, <2>2 DEF PublisherThread
  <1> QED
    BY <1>2, <1>3, <1>4, <1>5 DEF TypeOK, sessions

-----------------------------------------------------------------------------
(* What serving a connection does *)

\* A frame is whole, and one that is an order names a client.
LEMMA FramesType ==
    ASSUME NEW m \in Frames
    PROVE  /\ IsWhole(m) /\ m.client \in Clients \cup {0}
           /\ m.action # "Garbage" => m.action \in {"Command", "Snapshot"}
           /\ m.action = "Command" => m.client \in Clients
  <1>1. \/ m \in [action : {"Command"}, client : Clients]
        \/ m \in [action : {"Snapshot"}, client : Clients \cup {0}]
        \/ m \in [action : {"Garbage"}, client : {0}]
    BY DEF Frames
  <1> QED
    BY <1>1, SMTT(30) DEF IsWhole, None, Eof

\* append closes the connection or adds to its output, and counts down at most
\* the requests admitted.
LEMMA AppendType ==
    ASSUME NEW c \in Connections, NEW last \in BOOLEAN
    PROVE  /\ append(c, last) \in Connections
           /\ append(c, last).client = c.client
           /\ append(c, last).input = c.input
           /\ c.closing => append(c, last).closing
           /\ ~append(c, last).closing =>
                append(c, last).admitted = IF last /\ c.admitted > 0 THEN c.admitted - 1 ELSE c.admitted
  <1>1. OutputLimit \in Nat
    BY ServerAssumption
  <1> DEFINE a == append(c, last)
             less == IF last /\ c.admitted > 0 THEN c.admitted - 1 ELSE c.admitted
  <1>2. less \in Nat
    BY SMTT(30) DEF Connections
  <1>3. CASE c.output >= OutputLimit
    <2>1. a = [c EXCEPT !.closing = TRUE, !.output = 0]
      BY <1>3 DEF append
    <2> DEFINE b == [c EXCEPT !.closing = TRUE]
    <2>2. a = [b EXCEPT !.output = 0]
      BY <2>1
    <2>3. /\ b \in Connections /\ b.client = c.client /\ b.input = c.input /\ b.closing = TRUE
          /\ b.admitted = c.admitted
      BY DEF Connections
    <2> HIDE DEF a, b
    <2>4. /\ a \in Connections /\ a.client = c.client /\ a.input = c.input /\ a.closing = TRUE
          /\ a.admitted = c.admitted
      BY <2>2, <2>3 DEF Connections
    <2> QED
      BY <2>4 DEF a
  <1>4. CASE ~(c.output >= OutputLimit)
    <2>1. a = [c EXCEPT !.output = @ + 1, !.admitted = less]
      BY <1>4 DEF append
    <2> HIDE DEF less
    <2> DEFINE b == [c EXCEPT !.output = @ + 1]
    <2>2. a = [b EXCEPT !.admitted = less]
      BY <2>1
    <2>3. b \in Connections /\ b.client = c.client /\ b.input = c.input /\ b.closing = c.closing
      BY SMTT(30) DEF Connections
    <2> HIDE DEF a, b
    <2>4. /\ a \in Connections /\ a.client = c.client /\ a.input = c.input /\ a.closing = c.closing
          /\ a.admitted = less
      BY <1>2, <2>2, <2>3 DEF Connections
    <2> QED
      BY <2>4 DEF a, less
  <1> QED
    BY <1>3, <1>4

\* From c to d connection id keeps its client, or opens a session for one that
\* had none.
Names(id, c, d, next_routes) ==
    \/ d.client = c.client /\ next_routes = routes
    \/ /\ c.client = 0 /\ d.client \in Clients \ DOMAIN routes
       /\ next_routes = Put(routes, d.client, id)

\* Nothing is admitted from it, or one request.
Admits(id, c, d, next_requests) ==
    \/ next_requests = requests /\ (d.closing \/ d.admitted = c.admitted)
    \/ /\ d.admitted = c.admitted + 1
       /\ \E e \in Own(id) : next_requests = Append(requests, e)

\* Admit does one of these.
LEMMA AdmitStep ==
    ASSUME NEW id \in Nat \ {0}, NEW c \in Connections, NEW m \in Frames, ~IsMalformed(c, m)
    PROVE  /\ Admit(id, c, m).connection \in Connections
           /\ c.closing => Admit(id, c, m).connection.closing
           /\ Names(id, c, Admit(id, c, m).connection, Admit(id, c, m).routes)
           /\ Admits(id, c, Admit(id, c, m).connection, Admit(id, c, m).requests)
  <1> DEFINE opens == c.client = 0 /\ m.action # "Snapshot"
             busy == opens /\ m.client \in DOMAIN routes
             named == IF opens THEN [c EXCEPT !.client = m.client] ELSE c
             a == Admit(id, c, m)
             d == a.connection
             e == [connection |-> id, action |-> m.action, client |-> m.client]
  <1>1. m.client \in Clients \cup {0} /\ m.action \in {"Command", "Snapshot"}
    BY FramesType DEF IsMalformed
  <1>2. opens => m.client \in Clients
    BY <1>1, FramesType
  <1>3. CASE busy
    <2> DEFINE b == append(c, FALSE)
    <2>1. a = [connection |-> [b EXCEPT !.closing = TRUE], routes |-> routes, requests |-> requests]
      BY <1>3 DEF Admit
    <2>2. b \in Connections /\ b.client = c.client
      BY AppendType
    <2> HIDE DEF a, b
    <2>3. d = [b EXCEPT !.closing = TRUE] /\ a.routes = routes /\ a.requests = requests
      BY <2>1
    <2>4. d \in Connections /\ d.client = c.client /\ d.closing = TRUE
      BY <2>2, <2>3 DEF Connections
    <2> HIDE DEF d
    <2>5. Names(id, c, d, a.routes) /\ Admits(id, c, d, a.requests)
      BY <2>3, <2>4 DEF Names, Admits
    <2> QED
      BY <2>4, <2>5 DEF a, d
  <1>4. CASE ~busy
    <2>1. a = [connection |-> IF HasRoom(requests)
                              THEN [named EXCEPT !.input = None, !.admitted = @ + 1] ELSE named,
               routes |-> IF opens THEN Put(routes, m.client, id) ELSE routes,
               requests |-> IF HasRoom(requests) THEN Append(requests, e) ELSE requests]
      BY <1>4 DEF Admit
    <2>2. /\ named \in Connections /\ named.closing = c.closing /\ named.admitted = c.admitted
          /\ named.client = IF opens THEN m.client ELSE c.client
      BY <1>2 DEF Connections
    <2>3. e \in Own(id)
      BY <1>1 DEF Own
    <2>4. busy <=> opens /\ m.client \in DOMAIN routes
      OBVIOUS
    <2>5. opens => c.client = 0
      OBVIOUS
    <2> HIDE DEF a, named, opens, busy, e
    <2>6. /\ d = IF HasRoom(requests) THEN [named EXCEPT !.input = None, !.admitted = @ + 1] ELSE named
          /\ a.routes = IF opens THEN Put(routes, m.client, id) ELSE routes
          /\ a.requests = IF HasRoom(requests) THEN Append(requests, e) ELSE requests
      BY <2>1
    <2> HIDE DEF d
    <2>7. /\ d \in Connections /\ d.closing = c.closing /\ d.client = named.client
          /\ d.admitted = IF HasRoom(requests) THEN c.admitted + 1 ELSE c.admitted
      <3>1. CASE ~HasRoom(requests)
        BY <2>2, <2>6, <3>1
      <3>2. CASE HasRoom(requests)
        <4> DEFINE b == [named EXCEPT !.input = None]
        <4>1. b \in Connections /\ b.closing = c.closing /\ b.client = named.client /\ b.admitted = c.admitted
          BY <2>2 DEF Connections
        <4>2. d = [b EXCEPT !.admitted = @ + 1]
          BY <2>6, <3>2
        <4> HIDE DEF b
        <4>3. /\ d \in Connections /\ d.closing = c.closing /\ d.client = named.client
              /\ d.admitted = c.admitted + 1
          BY <4>1, <4>2, SMTT(30) DEF Connections
        <4> QED
          BY <3>2, <4>3
      <3> QED
        BY <3>1, <3>2
    <2>8. Names(id, c, d, a.routes)
      BY <1>2, <1>4, <2>2, <2>4, <2>5, <2>6, <2>7 DEF Names
    <2>9. Admits(id, c, d, a.requests)
      BY <2>3, <2>6, <2>7 DEF Admits
    <2> QED
      BY <2>7, <2>8, <2>9 DEF a, d
  <1> QED
    BY <1>3, <1>4

\* Received is a frame, less than one, or the end of the input.
LEMMA ReadType ==
    ASSUME NEW c \in Connections, NEW reads \in BOOLEAN,
           NEW got \in IF reads THEN Received(c) ELSE {c.input}
    PROVE  /\ Read(c, got) \in Connections
           /\ Read(c, got).client = c.client /\ Read(c, got).closing = c.closing
           /\ Read(c, got).admitted = c.admitted
  <1>1. got = Eof \/ got \in Frames \cup {None}
    BY DEF Received, Connections
  <1>2. CASE got = Eof
    BY <1>2 DEF Read, Connections
  <1>3. CASE got # Eof
    BY <1>1, <1>3 DEF Read, Connections
  <1> QED
    BY <1>2, <1>3

\* Connection id becomes d, as Names and Admits say; nothing is admitted while
\* draining, and it is marked for removal only for a reason.
ServesAs(id, d, remove, lost) ==
    /\ connections' = [connections EXCEPT ![id] = d]
    /\ connections[id].closing => d.closing
    /\ Names(id, connections[id], d, routes')
    /\ Admits(id, connections[id], d, requests')
    /\ draining => requests' = requests
    /\ io' = [io EXCEPT !.todo = @ \ {id}, !.remove = remove, !.lost = lost]
    /\ io.lost \subseteq lost
    /\ id \in remove \ io.remove =>
         \/ id \in lost \/ d.closing \/ IsWhole(d.input)
         \/ d.output = 0 /\ d.admitted = 0

\* Serving a connection changes it alone.
LEMMA ServeStep ==
    ASSUME TypeOK, NEW id \in DOMAIN connections, Serve(id)
    PROVE  /\ io.at = "serve" /\ id \in io.todo
           /\ UNCHANGED <<flags, responses, updates, engine, publisher, draining, next_connection>>
           /\ \E d \in Connections, remove \in {io.remove, io.remove \cup {id}}, lost \in SUBSET Nat :
                 ServesAs(id, d, remove, lost)
  <1> DEFINE old == connections[id]
  <1>1. /\ io.at = "serve" /\ id \in io.todo
        /\ UNCHANGED <<flags, responses, updates, engine, publisher, draining, next_connection>>
    BY DEF Serve
  <1>2. old \in Connections /\ id \in Nat \ {0} /\ io.lost \in SUBSET Nat /\ old.output \in Nat
    BY SMTT(30) DEF TypeOK, Ios, Connections
  <1>3. PICK broken \in {FALSE, "socket" \in Faults}, readable \in BOOLEAN :
        \E sent \in IF broken THEN {0} ELSE 0..old.output :
           ServeInput(id, broken, [old EXCEPT !.output = @ - sent],
                      ~broken /\ Reads([old EXCEPT !.output = @ - sent], readable))
    BY DEF Serve
  <1>4. PICK sent \in IF broken THEN {0} ELSE 0..old.output :
           ServeInput(id, broken, [old EXCEPT !.output = @ - sent],
                      ~broken /\ Reads([old EXCEPT !.output = @ - sent], readable))
    BY <1>3
  <1> DEFINE c == [old EXCEPT !.output = @ - sent]
             reads == ~broken /\ Reads(c, readable)
  <1>5. /\ c \in Connections /\ c.client = old.client /\ c.closing = old.closing
        /\ c.admitted = old.admitted
    <2>1. sent \in 0..old.output
      BY <1>2, SMTT(30)
    <2> QED
      BY <1>2, <2>1, SMTT(30) DEF Connections
  <1> HIDE DEF c
  <1>6. reads \in BOOLEAN /\ (reads => ~draining)
    BY DEF Reads
  <1>7. ServeInput(id, broken, c, reads)
    BY <1>4 DEF c
  <1> HIDE DEF reads
  <1>8. PICK got \in IF reads THEN Received(c) ELSE {c.input} :
           /\ connections' = [connections EXCEPT ![id] = Served(id, Read(c, got), reads).connection]
           /\ routes' = Served(id, Read(c, got), reads).routes
           /\ requests' = Served(id, Read(c, got), reads).requests
           /\ io' = [io EXCEPT !.todo = @ \ {id},
                               !.remove = IF \/ broken \/ Rejects(Read(c, got), reads)
                                             \/ Finished(Served(id, Read(c, got), reads).connection)
                                          THEN @ \cup {id} ELSE @,
                               !.lost = IF broken THEN @ \cup {id} ELSE @]
    BY <1>7 DEF ServeInput
  <1> DEFINE read == Read(c, got)
             d == Served(id, read, reads).connection
             remove == IF broken \/ Rejects(read, reads) \/ Finished(d)
                       THEN io.remove \cup {id} ELSE io.remove
             lost == IF broken THEN io.lost \cup {id} ELSE io.lost
  <1>9. /\ read \in Connections /\ read.client = old.client /\ read.closing = old.closing
        /\ read.admitted = old.admitted
    BY <1>5, <1>6, ReadType
  <1>10. /\ connections' = [connections EXCEPT ![id] = d]
         /\ routes' = Served(id, read, reads).routes /\ requests' = Served(id, read, reads).requests
         /\ io' = [io EXCEPT !.todo = @ \ {id}, !.remove = remove, !.lost = lost]
    BY <1>8
  <1>11. /\ remove \in {io.remove, io.remove \cup {id}} /\ lost \in SUBSET Nat /\ io.lost \subseteq lost
         /\ broken => id \in lost
         /\ id \in remove \ io.remove => broken \/ Rejects(read, reads) \/ Finished(d)
    BY <1>2
  <1>12. /\ Rejects(read, reads) => d = read /\ IsWhole(read.input)
         /\ Finished(d) => d.closing \/ (d.output = 0 /\ d.admitted = 0)
    BY DEF Rejects, Finished, Served
  <1>13. /\ d \in Connections /\ (read.closing => d.closing)
         /\ Names(id, read, d, routes') /\ Admits(id, read, d, requests')
         /\ draining => requests' = requests
    <2>1. CASE reads /\ IsWhole(read.input) /\ ~Rejects(read, reads)
      <3>1. read.input \in Frames /\ ~IsMalformed(read, read.input)
        BY <1>9, <2>1 DEF Rejects, Connections, IsWhole
      <3>2. Served(id, read, reads) = Admit(id, read, read.input)
        BY <2>1 DEF Served
      <3> HIDE DEF read
      <3> QED
        BY <1>2, <1>6, <1>9, <1>10, <2>1, <3>1, <3>2, AdmitStep
    <2>2. CASE ~(reads /\ IsWhole(read.input) /\ ~Rejects(read, reads))
      <3>1. d = read /\ routes' = routes /\ requests' = requests
        BY <1>10, <2>2 DEF Served
      <3> HIDE DEF read, d
      <3> QED
        BY <1>9, <3>1 DEF Names, Admits
    <2> QED
      BY <2>1, <2>2
  <1> HIDE DEF read, d, remove, lost
  <1>14. Names(id, old, d, routes') /\ Admits(id, old, d, requests') /\ (old.closing => d.closing)
    BY <1>9, <1>13 DEF Names, Admits
  <1>15. id \in remove \ io.remove =>
             id \in lost \/ d.closing \/ IsWhole(d.input) \/ (d.output = 0 /\ d.admitted = 0)
    BY <1>11, <1>12
  <1>16. ServesAs(id, d, remove, lost)
    BY <1>10, <1>11, <1>13, <1>14, <1>15 DEF ServesAs
  <1> QED
    BY <1>1, <1>11, <1>13, <1>16

-----------------------------------------------------------------------------
(* The I/O thread *)

\* The state of the turn, when Serve has changed it.
LEMMA IoFields ==
    ASSUME NEW todo \in SUBSET Nat, NEW remove \in SUBSET Nat, NEW lost \in SUBSET Nat, io \in Ios,
           io' = [io EXCEPT !.todo = todo, !.remove = remove, !.lost = lost]
    PROVE  /\ io' \in Ios /\ io'.at = io.at /\ io'.matching_finished = io.matching_finished
           /\ io'.routed = io.routed
           /\ io'.todo = todo /\ io'.remove = remove /\ io'.lost = lost
  <1> DEFINE a == [io EXCEPT !.todo = todo]
             b == [a EXCEPT !.remove = remove]
  <1>1. /\ a \in Ios /\ a.at = io.at /\ a.matching_finished = io.matching_finished
        /\ a.routed = io.routed /\ a.todo = todo
    BY DEF Ios
  <1>2. io' = [b EXCEPT !.lost = lost]
    OBVIOUS
  <1> HIDE DEF a
  <1>3. /\ b \in Ios /\ b.at = io.at /\ b.matching_finished = io.matching_finished
        /\ b.routed = io.routed /\ b.todo = todo /\ b.remove = remove
    BY <1>1 DEF Ios
  <1> HIDE DEF b
  <1> QED
    BY <1>2, <1>3 DEF Ios

\* What the turn is in the other steps of the I/O thread.
LEMMA IoTurns ==
    ASSUME TypeOK
    PROVE  /\ IoTurn => /\ io' \in Ios /\ io'.at = "route" /\ io'.matching_finished = engine_done
                        /\ io'.routed = 0 /\ io'.todo = {} /\ io'.remove = {}
           /\ IoRoute => /\ io' \in Ios /\ io'.at = "route" /\ io'.routed = io.routed + 1
                         /\ io'.matching_finished = io.matching_finished
                         /\ io'.todo = io.todo /\ io'.remove = io.remove /\ io'.lost = io.lost
           /\ IoRouted => /\ io' \in Ios /\ io'.at = "decide" /\ io'.routed = io.routed
                          /\ io'.matching_finished = io.matching_finished
                          /\ io'.todo = io.todo /\ io'.remove = io.remove /\ io'.lost = io.lost
           /\ IoLeave \/ IoFails => /\ io' \in Ios /\ io'.at = "join" /\ io'.matching_finished = FALSE
                                    /\ io'.todo = {} /\ io'.remove = {}
           /\ IoPoll => /\ io' \in Ios /\ io'.at = "serve" /\ io'.matching_finished = FALSE
                        /\ io'.todo = DOMAIN connections /\ io'.remove = {}
           /\ IoJoin => /\ io' \in Ios /\ io'.at = "end"
                        /\ io'.matching_finished = io.matching_finished
                        /\ io'.todo = io.todo /\ io'.remove = io.remove /\ io'.lost = io.lost
  <1>1. io \in Ios /\ engine_done \in BOOLEAN /\ DOMAIN connections \in SUBSET Nat
    BY SMTT(30) DEF TypeOK
  <1>2. NoTurn \in Ios
    BY DEF NoTurn, Ios
  <1>3. ASSUME IoTurn
        PROVE  /\ io' \in Ios /\ io'.at = "route" /\ io'.matching_finished = engine_done
               /\ io'.routed = 0 /\ io'.todo = {} /\ io'.remove = {}
    <2> DEFINE a == [NoTurn EXCEPT !.at = "route"]
    <2>1. /\ a \in Ios /\ a.at = "route" /\ a.routed = 0 /\ a.todo = {} /\ a.remove = {}
      BY DEF NoTurn, Ios
    <2>2. io' = [a EXCEPT !.matching_finished = engine_done]
      BY <1>3 DEF IoTurn
    <2> HIDE DEF a
    <2> QED
      BY <1>1, <2>1, <2>2 DEF Ios
  <1>4. ASSUME IoRoute
        PROVE  /\ io' \in Ios /\ io'.at = "route" /\ io'.routed = io.routed + 1
               /\ io'.matching_finished = io.matching_finished
               /\ io'.todo = io.todo /\ io'.remove = io.remove /\ io'.lost = io.lost
    <2>1. io' = [io EXCEPT !.routed = @ + 1] /\ io.at = "route"
      BY <1>4 DEF IoRoute
    <2> QED
      BY <1>1, <2>1, SMTT(30) DEF Ios
  <1>5. ASSUME IoRouted
        PROVE  /\ io' \in Ios /\ io'.at = "decide" /\ io'.routed = io.routed
               /\ io'.matching_finished = io.matching_finished
               /\ io'.todo = io.todo /\ io'.remove = io.remove /\ io'.lost = io.lost
    <2>1. io' = [io EXCEPT !.at = "decide"]
      BY <1>5 DEF IoRouted
    <2> QED
      BY <1>1, <2>1 DEF Ios
  <1>6. ASSUME IoLeave \/ IoFails
        PROVE  /\ io' \in Ios /\ io'.at = "join" /\ io'.matching_finished = FALSE
               /\ io'.todo = {} /\ io'.remove = {}
    <2>1. io' = [NoTurn EXCEPT !.at = "join"]
      BY <1>6 DEF IoLeave, IoFails
    <2> QED
      BY <1>2, <2>1 DEF Ios, NoTurn
  <1>7. ASSUME IoPoll
        PROVE  /\ io' \in Ios /\ io'.at = "serve" /\ io'.matching_finished = FALSE
               /\ io'.todo = DOMAIN connections /\ io'.remove = {}
    <2>1. io' = [NoTurn EXCEPT !.todo = DOMAIN connections]
      BY <1>7 DEF IoPoll
    <2> QED
      BY <1>1, <1>2, <2>1 DEF Ios, NoTurn
  <1>8. ASSUME IoJoin
        PROVE  /\ io' \in Ios /\ io'.at = "end" /\ io'.matching_finished = io.matching_finished
               /\ io'.todo = io.todo /\ io'.remove = io.remove /\ io'.lost = io.lost
    <2>1. io' = [io EXCEPT !.at = "end"]
      BY <1>8 DEF IoJoin
    <2> QED
      BY <1>1, <2>1 DEF Ios
  <1> QED
    BY <1>3, <1>4, <1>5, <1>6, <1>7, <1>8

\* The turn ends: the connections to be removed are, and the sessions they were.
LEMMA IoTurnStep ==
    ASSUME TypeOK, IoTurn
    PROVE  /\ DOMAIN connections' = DOMAIN connections \ io.remove
           /\ \A id \in DOMAIN connections' : connections'[id] = connections[id]
           /\ connections' \in [DOMAIN connections' -> Connections]
           /\ DOMAIN routes' = DOMAIN routes \ {connections[id].client : id \in io.remove}
           /\ \A k \in DOMAIN routes' : routes'[k] = routes[k]
           /\ UNCHANGED <<stop, fatal, engine_done, queues, engine, publisher, next_connection>>
           /\ draining' \in BOOLEAN /\ ingress_done' \in BOOLEAN
           /\ draining => draining'
           /\ ingress_done' => ingress_done \/ draining'
           /\ ingress_done => ingress_done'
  <1>1. /\ connections' = Restrict(connections, DOMAIN connections \ io.remove)
        /\ routes' = Restrict(routes, DOMAIN routes \ {connections[id].client : id \in io.remove})
        /\ UNCHANGED <<stop, fatal, engine_done, queues, engine, publisher, next_connection>>
    BY DEF IoTurn, RoutesLeft
  <1>2. connections \in [DOMAIN connections -> Connections]
    BY DEF TypeOK
  <1>3. /\ DOMAIN connections' = DOMAIN connections \ io.remove
        /\ \A id \in DOMAIN connections' : connections'[id] = connections[id]
        /\ connections' \in [DOMAIN connections' -> Connections]
    BY <1>1, <1>2 DEF Restrict
  <1>4. /\ DOMAIN routes' = DOMAIN routes \ {connections[id].client : id \in io.remove}
        /\ \A k \in DOMAIN routes' : routes'[k] = routes[k]
    BY <1>1 DEF Restrict
  <1>5. \E begins \in BOOLEAN : /\ draining' = (draining \/ begins)
                                /\ ingress_done' = (ingress_done \/ begins)
    BY DEF IoTurn
  <1>6. PICK begins \in BOOLEAN : /\ draining' = (draining \/ begins)
                                  /\ ingress_done' = (ingress_done \/ begins)
    BY <1>5
  <1>7. draining \in BOOLEAN /\ ingress_done \in BOOLEAN
    BY DEF TypeOK
  <1>8. draining' \in BOOLEAN
    BY <1>6, <1>7
  <1>9. /\ ingress_done' \in BOOLEAN
        /\ draining => draining'
        /\ ingress_done' => ingress_done \/ draining'
        /\ ingress_done => ingress_done'
    BY <1>6, <1>8
  <1> QED
    BY <1>1, <1>3, <1>4, <1>8, <1>9

\* A response is routed: to a connection that is not closing, or to nowhere.
LEMMA IoRouteStep ==
    ASSUME TypeOK, IoRoute
    PROVE  /\ responses # <<>> /\ responses' = Tail(responses) /\ Head(responses) \in Reports
           /\ UNCHANGED <<flags, requests, updates, engine, publisher, draining, routes, next_connection>>
           /\ LET m == Head(responses) IN
              \/ /\ connections' = connections
                 /\ m.connection # 0 /\ m.connection \in DOMAIN connections
                       => connections[m.connection].closing
              \/ \E target \in DOMAIN connections :
                    /\ connections' = [connections EXCEPT ![target] = append(@, m.last)]
                    /\ ~connections[target].closing
                    /\ m.connection # 0 => target = m.connection
  <1> DEFINE m == Head(responses)
  <1>1. /\ responses # <<>> /\ responses' = Tail(responses)
        /\ UNCHANGED <<flags, requests, updates, engine, publisher, draining, routes, next_connection>>
        /\ connections' = IF Target(m) = 0 THEN connections
                          ELSE [connections EXCEPT ![Target(m)] = append(@, m.last)]
    BY DEF IoRoute
  <1>2. responses \in Seq(Reports)
    BY DEF TypeOK
  <1>3. m \in Reports
    BY <1>1, <1>2, HeadTailProperties
  <1>4. 0 \notin DOMAIN connections
    BY SMTT(30) DEF TypeOK
  <1> HIDE DEF m
  <1>5. /\ Target(m) # 0 => /\ Target(m) \in DOMAIN connections /\ ~connections[Target(m)].closing
                            /\ m.connection # 0 => Target(m) = m.connection
        /\ Target(m) = 0 => (m.connection # 0 /\ m.connection \in DOMAIN connections
                                => connections[m.connection].closing)
    BY <1>4 DEF Target
  <1>6. CASE Target(m) = 0
    BY <1>1, <1>3, <1>5, <1>6 DEF m
  <1>7. CASE Target(m) # 0
    <2>1. connections' = [connections EXCEPT ![Target(m)] = append(@, m.last)]
      BY <1>1, <1>7
    <2> QED
      BY <1>1, <1>3, <1>5, <1>7, <2>1 DEF m
  <1> QED
    BY <1>6, <1>7

\* Clients connect: the connections there were stay as they were.
LEMMA IoPollStep ==
    ASSUME TypeOK, IoPoll
    PROVE  /\ next_connection' \in Nat \ {0} /\ next_connection <= next_connection'
           /\ DOMAIN connections' = DOMAIN connections \cup next_connection..(next_connection' - 1)
           /\ \A id \in DOMAIN connections' :
                 connections'[id] = IF id \in DOMAIN connections THEN connections[id] ELSE NewConnection
           /\ connections' \in [DOMAIN connections' -> Connections]
           /\ UNCHANGED <<flags, queues, engine, publisher, draining, routes>>
           /\ ~Drained
  <1>1. UNCHANGED <<flags, queues, engine, publisher, draining, routes>> /\ ~Drained
    BY DEF IoPoll
  <1>2. PICK more \in 0..(IF draining THEN 0 ELSE MaxConnections) :
          /\ next_connection' = next_connection + more
          /\ connections' = [id \in DOMAIN connections \cup next_connection..(next_connection' - 1) |->
                                IF id \in DOMAIN connections THEN connections[id] ELSE NewConnection]
    BY DEF IoPoll
  <1>3. next_connection \in Nat \ {0} /\ connections \in [DOMAIN connections -> Connections]
        /\ MaxConnections \in Nat
    BY ServerAssumption DEF TypeOK
  <1>4. next_connection' \in Nat \ {0} /\ next_connection <= next_connection'
    BY <1>2, <1>3, SMTT(30)
  <1>5. NewConnection \in Connections
    BY DEF NewConnection, Connections
  <1> QED
    BY <1>1, <1>2, <1>3, <1>4, <1>5

\* The I/O thread leaves the connections alone when it goes from one part of
\* its loop to the next, or leaves it.
LEMMA IoMoves ==
    ASSUME TypeOK, IoRouted \/ IoLeave \/ IoFails \/ IoJoin
    PROVE  /\ UNCHANGED <<stop, engine_done, queues, engine, publisher, draining, connections, routes,
                          next_connection>>
           /\ fatal' \in BOOLEAN /\ ingress_done' \in BOOLEAN
           /\ fatal => fatal'
           /\ ingress_done => ingress_done'
           /\ IoRouted => UNCHANGED <<fatal, ingress_done>> /\ draining /\ Routed
           /\ IoLeave => io.at = "decide" /\ (~fatal' => Drained) /\ ingress_done' = TRUE
           /\ IoFails => fatal' = TRUE
           /\ IoJoin => /\ UNCHANGED <<fatal, ingress_done>>
                        /\ io.at = "join" /\ engine.at = "done" /\ publisher.at = "done"
  <1>1. fatal \in BOOLEAN /\ ingress_done \in BOOLEAN
    BY DEF TypeOK
  <1>2. UNCHANGED <<stop, engine_done, queues, engine, publisher, draining, connections, routes,
                    next_connection>>
    BY DEF IoRouted, IoLeave, IoFails, IoJoin, flags, sessions
  <1>3. IoRouted => UNCHANGED <<fatal, ingress_done>> /\ draining /\ Routed
    BY DEF IoRouted, flags
  <1>4. IoLeave => /\ io.at = "decide" /\ (~fatal' => Drained) /\ ingress_done' = TRUE
                   /\ fatal' = (fatal \/ Late)
    BY DEF IoLeave
  <1>5. IoFails => fatal' = TRUE /\ ingress_done' = TRUE
    BY DEF IoFails
  <1>6. IoJoin => /\ UNCHANGED <<fatal, ingress_done>>
                  /\ io.at = "join" /\ engine.at = "done" /\ publisher.at = "done"
    BY DEF IoJoin, flags
  <1>7. fatal' \in BOOLEAN /\ ingress_done' \in BOOLEAN /\ (fatal => fatal')
        /\ (ingress_done => ingress_done')
    BY <1>1, <1>3, <1>4, <1>5, <1>6
  <1> QED
    BY <1>2, <1>3, <1>4, <1>5, <1>6, <1>7

\* The I/O thread keeps the types.
LEMMA IoKeepsTypes == ASSUME TypeOK, IoThread PROVE TypeOK'
  <1>1. /\ stop \in BOOLEAN /\ fatal \in BOOLEAN /\ ingress_done \in BOOLEAN /\ engine_done \in BOOLEAN
        /\ requests \in Seq(Envelopes) /\ responses \in Seq(Reports) /\ updates \in Seq({"Delta"})
        /\ engine \in Engines /\ publisher \in Publishers /\ io \in Ios
        /\ draining \in BOOLEAN
        /\ next_connection \in Nat \ {0} /\ DOMAIN connections \subseteq 1..(next_connection - 1)
        /\ connections \in [DOMAIN connections -> Connections] /\ DOMAIN routes \subseteq Clients
    BY DEF TypeOK
  <1>2. CASE IoTurn
    <2>1. io' \in Ios
      BY <1>2, IoTurns
    <2>2. DOMAIN connections' \subseteq DOMAIN connections /\ DOMAIN routes' \subseteq DOMAIN routes
      BY <1>2, IoTurnStep
    <2> QED
      BY <1>1, <1>2, <2>1, <2>2, IoTurnStep DEF TypeOK, queues
  <1>3. CASE IoRoute
    <2>1. io' \in Ios
      BY <1>3, IoTurns
    <2>2. responses' \in Seq(Reports) /\ Head(responses).last \in BOOLEAN
      <3>1. responses # <<>> /\ responses' = Tail(responses) /\ Head(responses) \in Reports
        BY <1>3, IoRouteStep
      <3> QED
        BY <1>1, <3>1, HeadTailProperties DEF Reports
    <2>3. connections' \in [DOMAIN connections -> Connections]
      <3>1. CASE connections' = connections
        BY <1>1, <3>1
      <3>2. ASSUME NEW target \in DOMAIN connections,
                   connections' = [connections EXCEPT ![target] = append(@, Head(responses).last)]
            PROVE  connections' \in [DOMAIN connections -> Connections]
        <4>1. connections[target] \in Connections
          BY <1>1
        <4>2. append(connections[target], Head(responses).last) \in Connections
          BY <2>2, <4>1, AppendType
        <4> QED
          BY <1>1, <3>2, <4>2
      <3> QED
        BY <1>3, <3>1, <3>2, IoRouteStep
    <2>4. DOMAIN connections' = DOMAIN connections
      BY <2>3
    <2> QED
      BY <1>1, <1>3, <2>1, <2>2, <2>3, <2>4, IoRouteStep DEF TypeOK, flags
  <1>4. CASE IoPoll
    <2>1. io' \in Ios
      BY <1>4, IoTurns
    <2>2. DOMAIN connections' \subseteq 1..(next_connection' - 1)
      BY <1>1, <1>4, IoPollStep, SMTT(30)
    <2> QED
      BY <1>1, <1>4, <2>1, <2>2, IoPollStep DEF TypeOK, flags, queues
  <1>5. CASE \E id \in DOMAIN connections : Serve(id)
    <2>1. PICK id \in DOMAIN connections : Serve(id)
      BY <1>5
    <2>2. UNCHANGED <<flags, responses, updates, engine, publisher, draining, next_connection>>
      BY <2>1, ServeStep
    <2>3. PICK d \in Connections, remove \in {io.remove, io.remove \cup {id}}, lost \in SUBSET Nat :
             ServesAs(id, d, remove, lost)
      BY <2>1, ServeStep
    <2>4. id \in Nat \ {0}
      BY <1>1, SMTT(30)
    <2>5. io' \in Ios
      <3>1. io.todo \ {id} \in SUBSET Nat /\ remove \in SUBSET Nat
        BY <1>1, <2>4 DEF Ios
      <3> QED
        BY <1>1, <2>3, <3>1, IoFields DEF ServesAs
    <2>6. DOMAIN connections' = DOMAIN connections /\ connections' \in [DOMAIN connections -> Connections]
      BY <1>1, <2>3 DEF ServesAs
    <2>7. requests' \in Seq(Envelopes)
      <3>1. Own(id) \subseteq Envelopes
        BY <2>4 DEF Own, Envelopes
      <3>2. requests' = requests \/ \E e \in Own(id) : requests' = Append(requests, e)
        BY <2>3 DEF ServesAs, Admits
      <3>3. ASSUME NEW e \in Own(id), requests' = Append(requests, e) PROVE requests' \in Seq(Envelopes)
        BY <1>1, <3>1, <3>3, AppendProperties
      <3> QED
        BY <1>1, <3>2, <3>3
    <2>8. DOMAIN routes' \subseteq Clients
      <3>1. routes' = routes \/ \E k \in Clients : routes' = Put(routes, k, id)
        BY <2>3 DEF ServesAs, Names
      <3> QED
        BY <1>1, <3>1 DEF Put
    <2> QED
      BY <1>1, <2>2, <2>5, <2>6, <2>7, <2>8 DEF TypeOK, flags
  <1>6. CASE IoRouted \/ IoLeave \/ IoFails \/ IoJoin
    <2>1. io' \in Ios
      BY <1>6, IoTurns
    <2> QED
      BY <1>1, <1>6, <2>1, IoMoves DEF TypeOK, queues
  <1> QED
    BY <1>2, <1>3, <1>4, <1>5, <1>6 DEF IoThread

\* So does the signal.
LEMMA NextKeepsTypes == ASSUME TypeOK, [Next]_vars PROVE TypeOK'
  <1>1. CASE Stop
    BY <1>1 DEF Stop, TypeOK, queues, sessions
  <1>2. CASE Returned \/ UNCHANGED vars
    BY <1>2 DEF Returned, TypeOK, vars, flags, queues, sessions
  <1> QED
    BY <1>1, <1>2, EngineKeepsTypes, PublisherKeepsTypes, IoKeepsTypes DEF Next

-----------------------------------------------------------------------------
(* The turn and the sessions *)

\* The steps of the other threads and of the signal.
Quiet == EngineThread \/ PublisherThread \/ Stop \/ Returned \/ UNCHANGED vars

\* They leave the turn of the I/O thread, the connections and the routes alone.
LEMMA QuietSteps == ASSUME Quiet PROVE UNCHANGED <<io, connections, routes, next_connection>>
  <1>1. CASE EngineThread
    BY <1>1 DEF EngineThread, EngineLoad, EnginePop, EnginePush, EngineFails, EngineEnd, sessions
  <1>2. CASE PublisherThread
    BY <1>2 DEF PublisherThread, PublisherLoad, PublisherPop, PublisherFails, sessions
  <1>3. CASE Stop
    BY <1>3 DEF Stop, sessions
  <1>4. CASE Returned \/ UNCHANGED vars
    BY <1>4 DEF Returned, vars, sessions
  <1> QED
    BY <1>1, <1>2, <1>3, <1>4 DEF Quiet

\* Every step is one of the I/O thread, or quiet.
LEMMA Steps == [Next]_vars <=> IoThread \/ Quiet
  BY DEF Next, Quiet

\* The turn stays within the connections.
LEMMA StepKeepsTurn == ASSUME TypeOK, TurnOK, [Next]_vars PROVE TurnOK'
  <1>1. CASE Quiet
    BY <1>1, QuietSteps DEF TurnOK
  <1>2. CASE IoTurn
    <2>1. io'.todo = {} /\ io'.remove = {}
      BY <1>2, IoTurns
    <2> QED
      BY <2>1 DEF TurnOK
  <1>3. CASE IoRoute
    <2>1. io.at = "route" /\ io'.at = "route" /\ io'.todo = io.todo /\ io'.remove = io.remove
      BY <1>3, IoTurns DEF IoRoute
    <2>2. io'.todo = {} /\ io'.remove = {}
      BY <2>1 DEF TurnOK
    <2> QED
      BY <2>2 DEF TurnOK
  <1>4. CASE IoPoll
    <2>1. io'.todo = DOMAIN connections /\ io'.remove = {} /\ io'.at = "serve"
      BY <1>4, IoTurns
    <2>2. DOMAIN connections \subseteq DOMAIN connections'
      BY <1>4, IoPollStep
    <2> QED
      BY <2>1, <2>2 DEF TurnOK
  <1>5. CASE \E id \in DOMAIN connections : Serve(id)
    <2>1. PICK id \in DOMAIN connections : Serve(id)
      BY <1>5
    <2>2. io.at = "serve" /\ id \in io.todo
      BY <2>1, ServeStep
    <2>3. PICK d \in Connections, remove \in {io.remove, io.remove \cup {id}}, lost \in SUBSET Nat :
             ServesAs(id, d, remove, lost)
      BY <2>1, ServeStep
    <2>4. io \in Ios /\ io.todo \ {id} \in SUBSET Nat /\ remove \in SUBSET Nat
      BY SMTT(30) DEF TypeOK, Ios
    <2>5. io'.at = io.at /\ io'.todo = io.todo \ {id} /\ io'.remove = remove
      BY <2>3, <2>4, IoFields DEF ServesAs
    <2>6. DOMAIN connections' = DOMAIN connections
      BY <2>3 DEF ServesAs, TypeOK
    <2> QED
      BY <2>2, <2>3, <2>5, <2>6 DEF TurnOK
  <1>6. CASE IoRouted \/ IoLeave \/ IoFails \/ IoJoin
    <2>1. connections' = connections
      BY <1>6, IoMoves
    <2>2. CASE IoRouted \/ IoJoin
      <3>1. io.at # "serve"
        BY <2>2 DEF IoRouted, IoJoin
      <3>2. io'.todo = io.todo /\ io'.remove = io.remove
        BY <2>2, IoTurns
      <3> QED
        BY <3>1, <3>2 DEF TurnOK
    <2>3. CASE IoLeave \/ IoFails
      <3>1. io'.todo = {} /\ io'.remove = {}
        BY <2>3, IoTurns
      <3> QED
        BY <3>1 DEF TurnOK
    <2> QED
      BY <1>6, <2>2, <2>3
  <1> QED
    BY <1>1, <1>2, <1>3, <1>4, <1>5, <1>6, Steps DEF IoThread

\* A mark stays right: in the turn in which it is made, the connection is not
\* touched again.
LEMMA StepKeepsMarks == ASSUME TypeOK, TurnOK, Marked, [Next]_vars PROVE Marked'
  <1>1. CASE Quiet
    BY <1>1, QuietSteps DEF Marked
  <1>2. CASE IoTurn \/ IoPoll \/ IoLeave \/ IoFails
    <2>1. io'.remove = {}
      BY <1>2, IoTurns
    <2> QED
      BY <2>1 DEF Marked
  <1>3. CASE IoRoute \/ IoRouted \/ IoJoin
    <2>1. io.at # "serve"
      BY <1>3 DEF IoRoute, IoRouted, IoJoin
    <2>2. io'.remove = io.remove
      BY <1>3, IoTurns
    <2> QED
      BY <2>1, <2>2 DEF Marked, TurnOK
  <1>4. CASE \E id \in DOMAIN connections : Serve(id)
    <2>1. PICK id \in DOMAIN connections : Serve(id)
      BY <1>4
    <2>2. io.at = "serve" /\ id \in io.todo
      BY <2>1, ServeStep
    <2>3. PICK d \in Connections, remove \in {io.remove, io.remove \cup {id}}, lost \in SUBSET Nat :
             ServesAs(id, d, remove, lost)
      BY <2>1, ServeStep
    <2>4. io \in Ios /\ io.todo \ {id} \in SUBSET Nat /\ remove \in SUBSET Nat
      BY SMTT(30) DEF TypeOK, Ios
    <2>5. io'.remove = remove /\ io'.lost = lost
      BY <2>3, <2>4, IoFields DEF ServesAs
    <2>6. \A other \in DOMAIN connections \ {id} : connections'[other] = connections[other]
      BY <2>3 DEF ServesAs, TypeOK
    <2>7. connections'[id] = d
      BY <2>3 DEF ServesAs, TypeOK
    <2>8. id \notin io.remove /\ io.remove \subseteq DOMAIN connections
      BY <2>2 DEF TurnOK
    <2> SUFFICES ASSUME NEW r \in remove
                 PROVE  \/ r \in lost \/ connections'[r].closing \/ IsWhole(connections'[r].input)
                        \/ connections'[r].output = 0 /\ connections'[r].admitted = 0
      BY <2>5 DEF Marked, IsWhole, None, Eof
    <2>9. CASE r = id
      BY <2>3, <2>7, <2>8, <2>9 DEF ServesAs
    <2>10. CASE r # id
      <3>1. r \in io.remove /\ r \in DOMAIN connections \ {id}
        BY <2>8, <2>10
      <3>2. io.lost \subseteq lost
        BY <2>3 DEF ServesAs
      <3> QED
        BY <2>6, <3>1, <3>2 DEF Marked
    <2> QED
      BY <2>9, <2>10
  <1> QED
    BY <1>1, <1>2, <1>3, <1>4, Steps DEF IoThread

\* Routes and sessions go together: one opens with the other, and both go with
\* the connection.
LEMMA StepKeepsRoutes ==
    ASSUME TypeOK, TurnOK, RoutesAreSessions, [Next]_vars
    PROVE  RoutesAreSessions'
  <1>1. CASE Quiet
    BY <1>1, QuietSteps DEF RoutesAreSessions
  <1>2. CASE IoTurn
    <2>1. /\ DOMAIN connections' = DOMAIN connections \ io.remove
          /\ \A id \in DOMAIN connections' : connections'[id] = connections[id]
          /\ DOMAIN routes' = DOMAIN routes \ {connections[id].client : id \in io.remove}
          /\ \A k \in DOMAIN routes' : routes'[k] = routes[k]
      BY <1>2, IoTurnStep
    <2>2. io.remove \subseteq DOMAIN connections
      BY DEF TurnOK
    <2>3. ASSUME NEW k \in DOMAIN routes'
          PROVE  routes'[k] \in DOMAIN connections' /\ connections'[routes'[k]].client = k
      BY <2>1, SMTT(30) DEF RoutesAreSessions
    <2>4. ASSUME NEW id \in DOMAIN connections', connections'[id].client # 0
          PROVE  connections'[id].client \in DOMAIN routes' /\ routes'[connections'[id].client] = id
      <3>1. ASSUME NEW other \in io.remove, connections[other].client = connections[id].client PROVE FALSE
        BY <2>1, <2>2, <2>4, <3>1, SMTT(30) DEF RoutesAreSessions
      <3> QED
        BY <2>1, <2>4, <3>1, SMTT(30) DEF RoutesAreSessions
    <2> QED
      BY <2>3, <2>4 DEF RoutesAreSessions
  <1>3. CASE IoRoute
    <2>1. routes' = routes /\ Head(responses) \in Reports
      BY <1>3, IoRouteStep
    <2>2. DOMAIN connections' = DOMAIN connections
          /\ \A id \in DOMAIN connections : connections'[id].client = connections[id].client
      <3>1. ASSUME NEW target \in DOMAIN connections,
                   connections' = [connections EXCEPT ![target] = append(@, Head(responses).last)]
            PROVE  DOMAIN connections' = DOMAIN connections
                   /\ \A id \in DOMAIN connections : connections'[id].client = connections[id].client
        <4>1. connections[target] \in Connections /\ Head(responses).last \in BOOLEAN
          BY <2>1 DEF TypeOK, Reports
        <4>2. append(connections[target], Head(responses).last).client = connections[target].client
          BY <4>1, AppendType
        <4> QED
          BY <3>1, <4>2
      <3> QED
        BY <1>3, <3>1, IoRouteStep
    <2> QED
      BY <2>1, <2>2 DEF RoutesAreSessions
  <1>4. CASE IoPoll
    <2>1. /\ routes' = routes /\ DOMAIN connections \subseteq DOMAIN connections'
          /\ \A id \in DOMAIN connections' :
                connections'[id] = IF id \in DOMAIN connections THEN connections[id] ELSE NewConnection
      BY <1>4, IoPollStep
    <2>2. NewConnection.client = 0
      BY DEF NewConnection
    <2>3. /\ \A id \in DOMAIN connections : id \in DOMAIN connections' /\ connections'[id] = connections[id]
          /\ \A id \in DOMAIN connections' : id \notin DOMAIN connections => connections'[id].client = 0
      BY <2>1, <2>2
    <2> QED
      BY <2>1, <2>3 DEF RoutesAreSessions
  <1>5. CASE \E id \in DOMAIN connections : Serve(id)
    <2>1. PICK id \in DOMAIN connections : Serve(id)
      BY <1>5
    <2>2. PICK d \in Connections, remove \in {io.remove, io.remove \cup {id}}, lost \in SUBSET Nat :
             ServesAs(id, d, remove, lost)
      BY <2>1, ServeStep
    <2>3. /\ DOMAIN connections' = DOMAIN connections /\ connections'[id] = d
          /\ \A other \in DOMAIN connections \ {id} : connections'[other] = connections[other]
      BY <2>2 DEF ServesAs, TypeOK
    <2>4. CASE d.client = connections[id].client /\ routes' = routes
      <3>1. \A other \in DOMAIN connections : connections'[other].client = connections[other].client
        BY <2>3, <2>4
      <3> QED
        BY <2>3, <2>4, <3>1 DEF RoutesAreSessions
    <2>5. CASE /\ connections[id].client = 0 /\ d.client \in Clients \ DOMAIN routes
               /\ routes' = Put(routes, d.client, id)
      <3>1. /\ DOMAIN routes' = DOMAIN routes \cup {d.client} /\ routes'[d.client] = id
            /\ \A k \in DOMAIN routes : routes'[k] = routes[k]
        BY <2>5 DEF Put
      <3>2. ASSUME NEW k \in DOMAIN routes'
            PROVE  routes'[k] \in DOMAIN connections' /\ connections'[routes'[k]].client = k
        <4>1. CASE k = d.client
          BY <2>3, <3>1, <4>1
        <4>2. CASE k # d.client
          <5>1. k \in DOMAIN routes /\ routes[k] \in DOMAIN connections /\ connections[routes[k]].client = k
            BY <3>1, <4>2 DEF RoutesAreSessions
          <5>2. k # 0
            BY <5>1, ServerAssumption DEF TypeOK
          <5>3. routes[k] # id
            BY <2>5, <5>1, <5>2
          <5> QED
            BY <2>3, <3>1, <5>1, <5>3
        <4> QED
          BY <4>1, <4>2
      <3>3. ASSUME NEW other \in DOMAIN connections', connections'[other].client # 0
            PROVE  connections'[other].client \in DOMAIN routes' /\ routes'[connections'[other].client] = other
        BY <2>3, <3>1, <3>3, SMTT(30) DEF RoutesAreSessions
      <3> QED
        BY <3>2, <3>3 DEF RoutesAreSessions
    <2> QED
      BY <2>2, <2>4, <2>5 DEF ServesAs, Names
  <1>6. CASE IoRouted \/ IoLeave \/ IoFails \/ IoJoin
    BY <1>6, IoMoves DEF RoutesAreSessions
  <1> QED
    BY <1>1, <1>2, <1>3, <1>4, <1>5, <1>6, Steps DEF IoThread

-----------------------------------------------------------------------------
(* The threads come to their ends *)

\* The engine's steps, by what they do to its state.
LEMMA EngineSteps ==
    ASSUME TypeOK
    PROVE  /\ EngineLoad =>
                /\ engine.at = "load" /\ UNCHANGED <<flags, queues>>
                /\ engine'.reports = engine.reports /\ engine'.updates = engine.updates
                /\ \/ fatal /\ engine'.at = "end"
                   \/ ~fatal /\ engine'.at = "pop" /\ engine'.input_finished = ingress_done
           /\ EnginePop /\ requests = <<>> =>
                /\ engine.at = "pop" /\ UNCHANGED <<flags, queues>>
                /\ engine'.reports = engine.reports /\ engine'.updates = engine.updates
                /\ \/ (engine.input_finished \/ fatal) /\ engine'.at = "end"
                   \/ engine'.at = "load"
           /\ EnginePop /\ requests # <<>> =>
                /\ engine.at = "pop" /\ engine'.at = "push" /\ UNCHANGED <<flags, responses, updates>>
                /\ requests' = Tail(requests)
                /\ \E answer \in Answers(Head(requests)) : engine'.reports = answer.reports
           /\ EngineFails =>
                /\ engine.at = "pop" /\ engine'.at = "end" /\ fatal' = TRUE
                /\ requests # <<>> /\ requests' = Tail(requests)
                /\ UNCHANGED <<stop, ingress_done, engine_done, responses, updates>>
                /\ engine'.reports = engine.reports /\ engine'.updates = engine.updates
           /\ EngineEnd =>
                /\ engine.at = "end" /\ engine'.at = "done" /\ engine_done' = TRUE
                /\ UNCHANGED <<stop, fatal, ingress_done, queues>>
                /\ engine'.reports = engine.reports /\ engine'.updates = engine.updates
  <1>1. engine \in Engines
    BY DEF TypeOK
  <1>2. ASSUME EngineLoad
        PROVE  /\ engine.at = "load" /\ UNCHANGED <<flags, queues>>
               /\ engine'.reports = engine.reports /\ engine'.updates = engine.updates
               /\ \/ fatal /\ engine'.at = "end"
                  \/ ~fatal /\ engine'.at = "pop" /\ engine'.input_finished = ingress_done
    <2>1. engine.at = "load" /\ UNCHANGED <<flags, queues>>
      BY <1>2 DEF EngineLoad
    <2>2. CASE fatal
      <3>1. engine' = [engine EXCEPT !.at = "end"]
        BY <1>2, <2>2 DEF EngineLoad
      <3>2. /\ engine'.at = "end" /\ engine'.reports = engine.reports
            /\ engine'.updates = engine.updates
        BY <1>1, <3>1 DEF Engines
      <3> QED
        BY <2>1, <2>2, <3>2
    <2>3. CASE ~fatal
      <3>1. engine' = [engine EXCEPT !.at = "pop", !.input_finished = ingress_done]
        BY <1>2, <2>3 DEF EngineLoad
      <3>2. /\ engine'.at = "pop" /\ engine'.reports = engine.reports
            /\ engine'.updates = engine.updates
        BY <1>1, <3>1 DEF Engines
      <3>3. engine'.input_finished = ingress_done
        BY <1>1, <3>1 DEF Engines
      <3> QED
        BY <2>1, <2>3, <3>2, <3>3
    <2> QED
      BY <2>2, <2>3
  <1>3. ASSUME EnginePop, requests = <<>>
        PROVE  /\ engine.at = "pop" /\ UNCHANGED <<flags, queues>>
               /\ engine'.reports = engine.reports /\ engine'.updates = engine.updates
               /\ \/ (engine.input_finished \/ fatal) /\ engine'.at = "end"
                  \/ engine'.at = "load"
    <2>1. /\ engine.at = "pop" /\ UNCHANGED <<flags, queues>>
          /\ \/ /\ engine.input_finished \/ fatal
                /\ engine' = [engine EXCEPT !.input_finished = FALSE, !.at = "end"]
             \/ engine' = [engine EXCEPT !.input_finished = FALSE, !.at = "load"]
      BY <1>3 DEF EnginePop, queues
    <2>2. ASSUME NEW at, engine' = [engine EXCEPT !.input_finished = FALSE, !.at = at]
          PROVE  engine'.reports = engine.reports /\ engine'.updates = engine.updates /\ engine'.at = at
      BY <1>1, <2>2 DEF Engines
    <2> QED
      BY <2>1, <2>2
  <1>4. ASSUME EnginePop, requests # <<>>
        PROVE  /\ engine.at = "pop" /\ engine'.at = "push" /\ UNCHANGED <<flags, responses, updates>>
               /\ requests' = Tail(requests)
               /\ \E answer \in Answers(Head(requests)) : engine'.reports = answer.reports
    <2>1. engine.at = "pop" /\ UNCHANGED <<flags, responses, updates>> /\ requests' = Tail(requests)
      BY <1>4 DEF EnginePop
    <2>2. PICK answer \in Answers(Head(requests)) :
             engine' = [at |-> "push", input_finished |-> FALSE,
                        reports |-> answer.reports, updates |-> answer.updates]
      BY <1>4 DEF EnginePop
    <2>3. engine'.at = "push" /\ engine'.reports = answer.reports
      BY <2>2
    <2> QED
      BY <2>1, <2>3
  <1>5. ASSUME EngineFails
        PROVE  /\ engine.at = "pop" /\ engine'.at = "end" /\ fatal' = TRUE
               /\ requests # <<>> /\ requests' = Tail(requests)
               /\ UNCHANGED <<stop, ingress_done, engine_done, responses, updates>>
               /\ engine'.reports = engine.reports /\ engine'.updates = engine.updates
    <2>1. /\ engine.at = "pop" /\ fatal' = TRUE /\ requests # <<>> /\ requests' = Tail(requests)
          /\ UNCHANGED <<stop, ingress_done, engine_done, responses, updates>>
          /\ engine' = [engine EXCEPT !.at = "end", !.input_finished = FALSE]
      BY <1>5 DEF EngineFails
    <2>2. engine'.at = "end" /\ engine'.reports = engine.reports /\ engine'.updates = engine.updates
      BY <1>1, <2>1 DEF Engines
    <2> QED
      BY <2>1, <2>2
  <1>6. ASSUME EngineEnd
        PROVE  /\ engine.at = "end" /\ engine'.at = "done" /\ engine_done' = TRUE
               /\ UNCHANGED <<stop, fatal, ingress_done, queues>>
               /\ engine'.reports = engine.reports /\ engine'.updates = engine.updates
    <2>1. /\ engine.at = "end" /\ engine_done' = TRUE /\ UNCHANGED <<stop, fatal, ingress_done, queues>>
          /\ engine' = [engine EXCEPT !.at = "done"]
      BY <1>6 DEF EngineEnd
    <2>2. engine'.at = "done" /\ engine'.reports = engine.reports /\ engine'.updates = engine.updates
      BY <1>1, <2>1 DEF Engines
    <2> QED
      BY <2>1, <2>2
  <1> QED
    BY <1>2, <1>3, <1>4, <1>5, <1>6

\* Its pushes: a report goes to the responses, or the rest is given up after a
\* fatal error.
LEMMA EnginePushStep ==
    ASSUME TypeOK, EnginePush
    PROVE  /\ engine.at = "push" /\ UNCHANGED <<flags, requests>>
           /\ \/ /\ engine'.at = "push" /\ engine.reports # <<>>
                 /\ responses' = Append(responses, Head(engine.reports))
                 /\ engine'.reports = Tail(engine.reports)
              \/ /\ engine'.at = "push" /\ fatal
                 /\ responses' = responses /\ engine'.reports = <<>>
              \/ /\ engine'.at = "push"
                 /\ responses' = responses /\ engine'.reports = engine.reports
              \/ /\ engine'.at = "load"
                 /\ responses' = responses /\ engine'.reports = engine.reports
                 /\ engine'.reports = <<>> /\ engine'.updates = 0
  <1>1. engine \in Engines
    BY DEF TypeOK
  <1> DEFINE t == Tail(engine.reports)
             n == engine.updates - 1
  <1>2. /\ engine.at = "push" /\ UNCHANGED <<flags, requests>>
        /\ \/ /\ engine.reports # <<>> /\ engine' = [engine EXCEPT !.reports = t]
              /\ responses' = Append(responses, Head(engine.reports))
           \/ fatal /\ responses' = responses /\ engine' = [engine EXCEPT !.reports = <<>>]
           \/ responses' = responses /\ engine' = [engine EXCEPT !.updates = n]
           \/ responses' = responses /\ engine' = [engine EXCEPT !.updates = 0]
           \/ /\ engine.reports = <<>> /\ engine.updates = 0
              /\ responses' = responses /\ engine' = [engine EXCEPT !.at = "load"]
    BY DEF EnginePush
  <1>3. ASSUME NEW s, engine' = [engine EXCEPT !.reports = s]
        PROVE  engine'.at = engine.at /\ engine'.reports = s
    BY <1>1, <1>3 DEF Engines
  <1>4. ASSUME NEW k, engine' = [engine EXCEPT !.updates = k]
        PROVE  engine'.at = engine.at /\ engine'.reports = engine.reports
    BY <1>1, <1>4 DEF Engines
  <1>5. ASSUME engine' = [engine EXCEPT !.at = "load"]
        PROVE  engine'.at = "load" /\ engine'.reports = engine.reports /\ engine'.updates = engine.updates
    BY <1>1, <1>5 DEF Engines
  <1> QED
    BY <1>2, <1>3, <1>4, <1>5

\* The publisher's steps.
LEMMA PublisherSteps ==
    ASSUME PublisherThread
    PROVE  /\ publisher.at # "done" /\ UNCHANGED <<stop, ingress_done, engine_done, requests, responses>>
           /\ UNCHANGED <<engine, draining, io, connections>>
           /\ \/ UNCHANGED fatal /\ publisher'.at = "pop" /\ publisher'.matching_finished = engine_done
              \/ UNCHANGED fatal /\ publisher'.at = "load" /\ publisher'.matching_finished = FALSE
              \/ /\ UNCHANGED <<fatal, updates>> /\ publisher'.at = "done"
                 /\ publisher'.matching_finished = FALSE
                 /\ updates = <<>> /\ publisher.matching_finished
              \/ fatal' /\ publisher'.at = "done" /\ publisher'.matching_finished = FALSE
  <1> DEFINE P(at, finished) == publisher' = [at |-> at, matching_finished |-> finished]
  <1>1. publisher.at \in {"load", "pop"}
    BY DEF PublisherThread, PublisherLoad, PublisherPop, PublisherFails
  <1>2. /\ UNCHANGED <<stop, ingress_done, engine_done, requests, responses>>
        /\ UNCHANGED <<engine, draining, io, connections>>
    BY DEF PublisherThread, PublisherLoad, PublisherPop, PublisherFails, flags, queues, sessions
  <1>3. \/ UNCHANGED fatal /\ P("pop", engine_done)
        \/ UNCHANGED fatal /\ P("load", FALSE)
        \/ UNCHANGED <<fatal, updates>> /\ P("done", FALSE) /\ updates = <<>> /\ publisher.matching_finished
        \/ fatal' /\ P("done", FALSE)
    <2>1. CASE PublisherLoad
      BY <2>1 DEF PublisherLoad, flags
    <2>2. CASE PublisherFails
      BY <2>2 DEF PublisherFails
    <2>3. CASE PublisherPop
      <3>1. /\ UNCHANGED fatal
            /\ updates = <<>> => updates' = updates
        BY <2>3 DEF PublisherPop, flags
      <3>2. CASE fatal \/ (updates = <<>> /\ publisher.matching_finished)
        <4>1. P("done", FALSE)
          BY <2>3, <3>2 DEF PublisherPop
        <4> QED
          BY <3>1, <3>2, <4>1
      <3>3. CASE ~(fatal \/ (updates = <<>> /\ publisher.matching_finished))
        <4>1. P("load", FALSE)
          BY <2>3, <3>3 DEF PublisherPop
        <4> QED
          BY <3>1, <4>1
      <3> QED
        BY <3>2, <3>3
    <2> QED
      BY <2>1, <2>2, <2>3 DEF PublisherThread
  <1>4. ASSUME NEW at, NEW finished, P(at, finished)
        PROVE  publisher'.at = at /\ publisher'.matching_finished = finished
    BY <1>4
  <1> HIDE DEF P
  <1> QED
    BY <1>1, <1>2, <1>3, <1>4

\* A flag that was seen stays set, and what was seen with it stays true.
LEMMA StepKeepsEnding == ASSUME TypeOK, Ending, [Next]_vars PROVE Ending'
  <1>1. CASE EngineThread
    <2>1. UNCHANGED <<publisher, io, draining>>
      BY <1>1 DEF EngineThread, EngineLoad, EnginePop, EnginePush, EngineFails, EngineEnd
    <2>2. engine.at # "done"
      BY <1>1 DEF EngineThread, EngineLoad, EnginePop, EnginePush, EngineFails, EngineEnd
    <2>3. ~engine_done /\ ~io.matching_finished /\ ~publisher.matching_finished /\ io.at # "end"
      BY <2>2 DEF Ending
    <2>4. /\ engine_done' <=> engine'.at = "done"
          /\ engine'.at # "push" => engine'.reports = <<>> /\ engine'.updates = 0
          /\ engine'.at = "pop" /\ engine'.input_finished => ingress_done'
      <3>0. /\ engine.at # "push" => engine.reports = <<>> /\ engine.updates = 0
            /\ engine.at = "pop" /\ engine.input_finished => ingress_done
        BY DEF Ending
      <3>1. CASE EngineLoad
        <4>1. /\ engine.at = "load" /\ UNCHANGED <<ingress_done, engine_done>>
              /\ engine'.reports = engine.reports /\ engine'.updates = engine.updates
              /\ \/ engine'.at = "end"
                 \/ engine'.at = "pop" /\ engine'.input_finished = ingress_done
          BY <3>1, EngineSteps DEF flags
        <4> QED
          BY <2>3, <3>0, <4>1
      <3>2. CASE EnginePop /\ requests = <<>>
        <4>1. /\ engine.at = "pop" /\ UNCHANGED <<ingress_done, engine_done>>
              /\ engine'.reports = engine.reports /\ engine'.updates = engine.updates
              /\ engine'.at = "end" \/ engine'.at = "load"
          BY <3>2, EngineSteps DEF flags
        <4> QED
          BY <2>3, <3>0, <4>1
      <3>3. CASE EnginePop /\ requests # <<>>
        <4>1. engine'.at = "push" /\ UNCHANGED engine_done
          BY <3>3, EngineSteps DEF flags
        <4> QED
          BY <2>3, <4>1
      <3>4. CASE EnginePush
        <4>1. /\ UNCHANGED engine_done
              /\ \/ engine'.at = "push"
                 \/ engine'.at = "load" /\ engine'.reports = <<>> /\ engine'.updates = 0
          BY <3>4, EnginePushStep DEF flags
        <4> QED
          BY <2>3, <4>1
      <3>5. CASE EngineFails
        <4>1. /\ engine.at = "pop" /\ engine'.at = "end" /\ UNCHANGED engine_done
              /\ engine'.reports = engine.reports /\ engine'.updates = engine.updates
          BY <3>5, EngineSteps
        <4> QED
          BY <2>3, <3>0, <4>1
      <3>6. CASE EngineEnd
        <4>1. /\ engine.at = "end" /\ engine'.at = "done" /\ engine_done' = TRUE
              /\ engine'.reports = engine.reports /\ engine'.updates = engine.updates
          BY <3>6, EngineSteps
        <4> QED
          BY <3>0, <4>1
      <3> QED
        BY <1>1, <3>1, <3>2, <3>3, <3>4, <3>5, <3>6 DEF EngineThread
    <2> QED
      BY <2>1, <2>3, <2>4 DEF Ending
  <1>2. CASE PublisherThread
    <2>1. publisher.at # "done" /\ UNCHANGED <<ingress_done, engine_done, responses, engine, draining, io>>
      BY <1>2, PublisherSteps
    <2>2. publisher'.matching_finished = engine_done \/ publisher'.matching_finished = FALSE
      BY <1>2, PublisherSteps
    <2> QED
      BY <2>1, <2>2 DEF Ending
  <1>3. CASE Stop
    <2>1. UNCHANGED <<ingress_done, engine_done, responses, engine, publisher, io, draining>>
      BY <1>3 DEF Stop, flags, queues
    <2> QED
      BY <2>1 DEF Ending
  <1>4. CASE Returned \/ UNCHANGED vars
    <2>1. UNCHANGED <<ingress_done, engine_done, responses, engine, publisher, io, draining>>
      BY <1>4 DEF Returned, vars, flags, queues
    <2> QED
      BY <2>1 DEF Ending
  <1>5. CASE IoTurn
    <2>1. io'.at = "route" /\ io'.matching_finished = engine_done
      BY <1>5, IoTurns
    <2>2. UNCHANGED <<engine_done, responses, engine, publisher>> /\ (ingress_done => ingress_done')
      BY <1>5, IoTurnStep DEF queues
    <2> QED
      BY <2>1, <2>2 DEF Ending
  <1>6. CASE IoRoute
    <2>1. io'.at = "route" /\ io'.matching_finished = io.matching_finished
      BY <1>6, IoTurns
    <2>2. UNCHANGED <<ingress_done, engine_done, engine, publisher>>
      BY <1>6, IoRouteStep DEF flags
    <2> QED
      BY <2>1, <2>2 DEF Ending
  <1>7. CASE IoPoll
    <2>1. io'.at = "serve" /\ io'.matching_finished = FALSE
      BY <1>7, IoTurns
    <2>2. UNCHANGED <<ingress_done, engine_done, engine, publisher>>
      BY <1>7, IoPollStep DEF flags
    <2> QED
      BY <2>1, <2>2 DEF Ending
  <1>8. CASE \E id \in DOMAIN connections : Serve(id)
    <2>1. PICK id \in DOMAIN connections : Serve(id)
      BY <1>8
    <2>2. io.at = "serve" /\ UNCHANGED <<flags, engine, publisher>>
      BY <2>1, ServeStep
    <2>3. PICK d \in Connections, remove \in {io.remove, io.remove \cup {id}}, lost \in SUBSET Nat :
             ServesAs(id, d, remove, lost)
      BY <2>1, ServeStep
    <2>4. io \in Ios /\ io.todo \ {id} \in SUBSET Nat /\ remove \in SUBSET Nat
      BY SMTT(30) DEF TypeOK, Ios
    <2>5. io'.at = io.at /\ io'.matching_finished = io.matching_finished
      BY <2>3, <2>4, IoFields DEF ServesAs
    <2> QED
      BY <2>2, <2>5 DEF Ending, flags
  <1>9. CASE IoRouted
    <2>1. /\ io'.at = "decide" /\ io'.routed = io.routed /\ io'.matching_finished = io.matching_finished
      BY <1>9, IoTurns
    <2>2. /\ UNCHANGED <<ingress_done, engine_done, responses, engine, publisher, draining>>
          /\ draining /\ Routed
      BY <1>9, IoMoves DEF queues
    <2>3. io.routed = 0 => responses = <<>>
      BY <2>2, ServerAssumption DEF Routed
    <2> QED
      BY <2>1, <2>2, <2>3 DEF Ending
  <1>10. CASE IoLeave \/ IoFails
    <2>1. io'.at = "join" /\ io'.matching_finished = FALSE
      BY <1>10, IoTurns
    <2>2. UNCHANGED <<engine_done, engine, publisher>> /\ (ingress_done => ingress_done')
      BY <1>10, IoMoves
    <2> QED
      BY <2>1, <2>2 DEF Ending
  <1>11. CASE IoJoin
    <2>1. io'.at = "end" /\ io'.matching_finished = io.matching_finished
      BY <1>11, IoTurns
    <2>2. /\ UNCHANGED <<ingress_done, engine_done, engine, publisher>>
          /\ engine.at = "done" /\ publisher.at = "done"
      BY <1>11, IoMoves
    <2> QED
      BY <2>1, <2>2 DEF Ending
  <1> QED
    BY <1>1, <1>2, <1>3, <1>4, <1>5, <1>6, <1>7, <1>8, <1>9, <1>10, <1>11 DEF Next, IoThread

\* Without a fatal error, what has ended has ended with nothing left.
LEMMA StepKeepsFinishing == ASSUME TypeOK, Ending, Finishing, [Next]_vars PROVE Finishing'
  <1> DEFINE Input == ingress_done => draining
             Matching == engine.at \in {"end", "done"} => ingress_done /\ requests = <<>>
             Publishing == publisher.at = "done" => engine_done /\ updates = <<>>
             Serving == io.at \in {"join", "end"} => engine_done /\ responses = <<>> /\ NothingPending
  <1> SUFFICES ASSUME ~fatal' PROVE Input' /\ Matching' /\ Publishing' /\ Serving'
    BY DEF Finishing
  <1>1. CASE EngineThread
    <2>1. UNCHANGED <<publisher, io, draining, ingress_done>>
      BY <1>1 DEF EngineThread, EngineLoad, EnginePop, EnginePush, EngineFails, EngineEnd, flags
    <2>2. engine.at # "done"
      BY <1>1 DEF EngineThread, EngineLoad, EnginePop, EnginePush, EngineFails, EngineEnd
    <2>3. ~fatal
      BY <1>1 DEF EngineThread, EngineLoad, EnginePop, EnginePush, EngineFails, EngineEnd, flags
    <2>4. Input /\ Matching /\ Publishing /\ Serving
      BY <2>3 DEF Finishing
    <2>5. publisher.at # "done" /\ io.at \notin {"join", "end"}
      BY <2>2, <2>4 DEF Ending
    <2>6. Matching'
      <3>1. CASE EngineLoad
        <4>1. engine'.at = "pop"
          BY <2>3, <3>1, EngineSteps
        <4> QED
          BY <4>1
      <3>2. CASE EnginePop /\ requests = <<>>
        <4>1. engine.at = "pop" /\ requests' = requests
              /\ (engine'.at = "load" \/ engine.input_finished)
          BY <2>3, <3>2, EngineSteps DEF queues
        <4>2. engine'.at = "load" \/ ingress_done'
          BY <2>1, <4>1 DEF Ending
        <4>3. engine'.at = "load" => engine'.at \notin {"end", "done"}
          OBVIOUS
        <4> QED
          BY <3>2, <4>1, <4>2, <4>3
      <3>3. CASE (EnginePop /\ requests # <<>>) \/ EnginePush
        <4>1. engine'.at \in {"push", "load"}
          BY <3>3, EngineSteps, EnginePushStep
        <4> QED
          BY <4>1
      <3>4. CASE EngineFails
        BY <3>4, EngineSteps
      <3>5. CASE EngineEnd
        <4>1. engine.at = "end" /\ requests' = requests
          BY <3>5, EngineSteps DEF queues
        <4> QED
          BY <2>1, <2>4, <4>1
      <3> QED
        BY <1>1, <3>1, <3>2, <3>3, <3>4, <3>5 DEF EngineThread
    <2> QED
      BY <2>1, <2>4, <2>5, <2>6
  <1>2. CASE PublisherThread
    <2>1. UNCHANGED <<ingress_done, engine_done, requests, responses, engine, draining, io, connections>>
      BY <1>2, PublisherSteps
    <2>2. /\ ~fatal
          /\ publisher'.at = "done" => /\ UNCHANGED updates
                                       /\ updates = <<>> /\ publisher.matching_finished
      <3>1. /\ fatal' = fatal
            /\ \/ publisher'.at = "pop"
               \/ publisher'.at = "load"
               \/ UNCHANGED updates /\ updates = <<>> /\ publisher.matching_finished
        BY <1>2, PublisherSteps
      <3>2. ~fatal
        BY <3>1
      <3> QED
        BY <3>1, <3>2
    <2>3. Input /\ Matching /\ Publishing /\ Serving
      BY <2>2 DEF Finishing
    <2>4. Publishing'
      BY <2>1, <2>2 DEF Ending
    <2> QED
      BY <2>1, <2>3, <2>4 DEF NothingPending
  <1>3. CASE Stop
    <2>1. UNCHANGED <<fatal, ingress_done, engine_done, requests, responses, updates, engine, publisher,
                      io, draining, connections>>
      BY <1>3 DEF Stop, flags, queues, sessions
    <2> QED
      BY <2>1 DEF Finishing, NothingPending
  <1>4. CASE Returned \/ UNCHANGED vars
    <2>1. UNCHANGED <<fatal, ingress_done, engine_done, requests, responses, updates, engine, publisher,
                      io, draining, connections>>
      BY <1>4 DEF Returned, vars, flags, queues, sessions
    <2> QED
      BY <2>1 DEF Finishing, NothingPending
  <1>5. CASE IoTurn
    <2>1. io'.at = "route"
      BY <1>5, IoTurns
    <2>2. /\ UNCHANGED <<fatal, engine_done, requests, updates, engine, publisher>>
          /\ draining => draining'
          /\ ingress_done' => ingress_done \/ draining'
          /\ ingress_done => ingress_done'
      BY <1>5, IoTurnStep DEF queues
    <2> QED
      BY <2>1, <2>2 DEF Finishing
  <1>6. CASE IoRoute \/ IoPoll
    <2>1. io'.at \notin {"join", "end"}
      <3>1. io'.at = "route" \/ io'.at = "serve"
        BY <1>6, IoTurns
      <3> QED
        BY <3>1
    <2>2. UNCHANGED <<fatal, ingress_done, engine_done, requests, updates, engine, publisher, draining>>
      BY <1>6, IoRouteStep, IoPollStep DEF flags, queues
    <2> QED
      BY <2>1, <2>2 DEF Finishing
  <1>7. CASE \E id \in DOMAIN connections : Serve(id)
    <2>1. PICK id \in DOMAIN connections : Serve(id)
      BY <1>7
    <2>2. /\ io.at = "serve"
          /\ UNCHANGED <<fatal, ingress_done, engine_done, updates, engine, publisher, draining>>
      BY <2>1, ServeStep DEF flags
    <2>3. PICK d \in Connections, remove \in {io.remove, io.remove \cup {id}}, lost \in SUBSET Nat :
             ServesAs(id, d, remove, lost)
      BY <2>1, ServeStep
    <2>4. io \in Ios /\ io.todo \ {id} \in SUBSET Nat /\ remove \in SUBSET Nat
      BY SMTT(30) DEF TypeOK, Ios
    <2>5. io'.at = "serve"
      BY <2>2, <2>3, <2>4, IoFields DEF ServesAs
    <2>6. draining => requests' = requests
      BY <2>3 DEF ServesAs
    <2> QED
      BY <2>2, <2>5, <2>6 DEF Finishing
  <1>8. CASE IoRouted
    <2>1. io'.at = "decide"
      BY <1>8, IoTurns
    <2>2. UNCHANGED <<fatal, ingress_done, engine_done, requests, updates, engine, publisher, draining>>
      BY <1>8, IoMoves DEF queues
    <2> QED
      BY <2>1, <2>2 DEF Finishing
  <1>9. CASE IoLeave
    <2>1. /\ UNCHANGED <<engine_done, requests, responses, updates, engine, publisher, draining, connections>>
          /\ ~fatal /\ Drained /\ io.at = "decide" /\ ingress_done' = TRUE
      BY <1>9, IoMoves DEF queues
    <2>2. draining /\ engine_done /\ responses = <<>> /\ NothingPending
      BY <2>1 DEF Drained, Ending
    <2> QED
      BY <2>1, <2>2 DEF Finishing, NothingPending
  <1>10. CASE IoFails
    BY <1>10, IoMoves
  <1>11. CASE IoJoin
    <2>1. /\ UNCHANGED <<fatal, ingress_done, engine_done, requests, responses, updates, engine, publisher,
                         draining, connections>>
          /\ io.at = "join"
      BY <1>11, IoMoves DEF queues
    <2>2. io.at \in {"join", "end"}
      BY <2>1
    <2> QED
      BY <2>1, <2>2 DEF Finishing, NothingPending
  <1> QED
    BY <1>1, <1>2, <1>3, <1>4, <1>5, <1>6, <1>7, <1>8, <1>9, <1>10, <1>11 DEF Next, IoThread

-----------------------------------------------------------------------------
(* What is owed *)

\* It changes with the requests and the reports only.
LEMMA OutstandingSame ==
    ASSUME UNCHANGED <<requests, responses>>, engine'.reports = engine.reports
    PROVE  \A id : Outstanding(id)' = Outstanding(id)
  BY DEF Outstanding

\* The engine answers what it takes, and a fatal error is what drops an answer.
LEMMA EngineOwes ==
    ASSUME TypeOK, TypeOK', Ending, EngineThread
    PROVE  \A id \in Nat \ {0} : /\ Outstanding(id)' <= Outstanding(id)
                                 /\ ~fatal' => Outstanding(id)' = Outstanding(id)
  <1> TAKE id \in Nat \ {0}
  <1> DEFINE A == Count(requests, Own(id))
             B == Count(engine.reports, Ends(id))
             C == Count(responses, Ends(id))
             a == Count(requests', Own(id))
             b == Count(engine'.reports, Ends(id))
             c == Count(responses', Ends(id))
  <1>1. /\ Outstanding(id) = A + B + C /\ Outstanding(id)' = a + b + c
        /\ A \in Nat /\ B \in Nat /\ C \in Nat /\ a \in Nat /\ b \in Nat /\ c \in Nat
    BY OutstandingCounts, OutstandingNext
  <1> SUFFICES a + b + c <= A + B + C /\ (~fatal' => a + b + c = A + B + C)
    BY <1>1
  <1>2. requests \in Seq(Envelopes) /\ responses \in Seq(Reports) /\ engine.reports \in Seq(Reports)
    BY DEF TypeOK, Engines
  <1> HIDE DEF A, B, C, a, b, c
  <1>3. CASE EngineLoad \/ EngineEnd \/ (EnginePop /\ requests = <<>>)
    <2>1. UNCHANGED <<requests, responses>> /\ engine'.reports = engine.reports
      BY <1>3, EngineSteps DEF queues
    <2>2. a = A /\ b = B /\ c = C
      BY <2>1 DEF A, B, C, a, b, c
    <2> QED
      BY <1>1, <2>2, SMTT(30)
  <1>4. CASE EnginePop /\ requests # <<>>
    <2>1. engine.at = "pop" /\ requests' = Tail(requests) /\ responses' = responses
      BY <1>4, EngineSteps
    <2>2. PICK answer \in Answers(Head(requests)) : engine'.reports = answer.reports
      BY <1>4, EngineSteps
    <2>3. Head(requests) \in Envelopes
      BY <1>2, <1>4, HeadTailProperties
    <2>4. b = IF Head(requests) \in Own(id) THEN 1 ELSE 0
      BY <2>2, <2>3, AnswersType DEF b
    <2>5. A = a + (IF Head(requests) \in Own(id) THEN 1 ELSE 0)
      BY <1>2, <1>4, <2>1, CountTail DEF A, a
    <2>6. B = 0
      <3>1. engine.reports = <<>>
        BY <2>1 DEF Ending
      <3> QED
        BY <3>1, CountEmpty DEF B
    <2>7. c = C
      BY <2>1 DEF c, C
    <2> QED
      BY <1>1, <2>4, <2>5, <2>6, <2>7, SMTT(30)
  <1>5. CASE EnginePush
    <2>1. a = A
      BY <1>5, EnginePushStep DEF a, A
    <2>2. \/ /\ engine.reports # <<>> /\ responses' = Append(responses, Head(engine.reports))
             /\ engine'.reports = Tail(engine.reports)
          \/ fatal' /\ responses' = responses /\ engine'.reports = <<>>
          \/ responses' = responses /\ engine'.reports = engine.reports
      <3>1. fatal' = fatal
        BY <1>5, EnginePushStep DEF flags
      <3>2. fatal => fatal'
        BY <3>1
      <3> QED
        BY <1>5, <3>2, EnginePushStep
    <2>3. CASE /\ engine.reports # <<>> /\ responses' = Append(responses, Head(engine.reports))
               /\ engine'.reports = Tail(engine.reports)
      <3> DEFINE h == Head(engine.reports)
                 n == IF h \in Ends(id) THEN 1 ELSE 0
      <3>1. B = b + n
        BY <1>2, <2>3, CountTail DEF B, b
      <3>2. h \in Reports
        BY <1>2, <2>3, HeadTailProperties
      <3> HIDE DEF h
      <3>3. responses' = Append(responses, h)
        BY <2>3 DEF h
      <3>4. c = C + n
        BY <1>2, <3>2, <3>3, CountAppend DEF C, c
      <3>5. n \in Nat
        OBVIOUS
      <3> QED
        BY <1>1, <2>1, <3>1, <3>4, <3>5, SMTT(30)
    <2>4. CASE fatal' /\ responses' = responses /\ engine'.reports = <<>>
      <3>1. c = C /\ b = 0
        BY <2>4, CountEmpty DEF c, C, b
      <3>2. a + b + c <= A + B + C
        BY <1>1, <2>1, <3>1, SMTT(30)
      <3> QED
        BY <2>4, <3>2
    <2>5. CASE responses' = responses /\ engine'.reports = engine.reports
      <3>1. c = C /\ b = B
        BY <2>5 DEF c, C, b, B
      <3> QED
        BY <1>1, <2>1, <3>1, SMTT(30)
    <2> QED
      BY <2>2, <2>3, <2>4, <2>5
  <1>6. CASE EngineFails
    <2>1. /\ fatal' /\ requests # <<>> /\ requests' = Tail(requests)
          /\ responses' = responses /\ engine'.reports = engine.reports
      BY <1>6, EngineSteps
    <2>2. b = B /\ c = C
      BY <2>1 DEF b, c, B, C
    <2>3. A = a + (IF Head(requests) \in Own(id) THEN 1 ELSE 0)
      BY <1>2, <2>1, CountTail DEF A, a
    <2>4. a + b + c <= A + B + C
      BY <1>1, <2>2, <2>3, SMTT(30)
    <2> QED
      BY <2>1, <2>4
  <1> QED
    BY <1>3, <1>4, <1>5, <1>6 DEF EngineThread

\* Routing the last report for a request makes the connection owed one less.
LEMMA RouteOwes ==
    ASSUME TypeOK, TypeOK', IoRoute, NEW id \in Nat \ {0}
    PROVE  /\ Outstanding(id) = Outstanding(id)' + (IF Head(responses) \in Ends(id) THEN 1 ELSE 0)
           /\ Outstanding(id)' \in Nat
  <1>1. responses # <<>> /\ responses' = Tail(responses) /\ requests' = requests /\ engine' = engine
    BY IoRouteStep
  <1>2. responses \in Seq(Reports)
    BY DEF TypeOK
  <1> DEFINE n == IF Head(responses) \in Ends(id) THEN 1 ELSE 0
             C == Count(responses', Ends(id))
             R == Count(requests, Own(id)) + Count(engine.reports, Ends(id))
  <1>3. Count(responses, Ends(id)) = C + n
    BY <1>1, <1>2, CountTail
  <1>4. Outstanding(id) = R + (C + n) /\ R \in Nat
    BY <1>3, OutstandingCounts, SMTT(30)
  <1>5. Outstanding(id)' = R + C /\ C \in Nat
    BY <1>1, OutstandingNext
  <1> HIDE DEF C, R
  <1> QED
    BY <1>4, <1>5, SMTT(30)

\* Admitting a request makes it owed one more.
LEMMA ServeOwes ==
    ASSUME TypeOK, TypeOK', UNCHANGED <<responses, engine>>, NEW id \in Nat \ {0},
           NEW e \in Own(id), requests' = Append(requests, e), NEW other \in Nat \ {0}
    PROVE  Outstanding(other)' = Outstanding(other) + (IF other = id THEN 1 ELSE 0)
  <1>1. requests \in Seq(Envelopes) /\ e \in Envelopes /\ (e \in Own(other) <=> other = id)
    BY DEF TypeOK, Own, Envelopes
  <1> DEFINE n == IF e \in Own(other) THEN 1 ELSE 0
             A == Count(requests, Own(other))
             B == Count(engine.reports, Ends(other))
             C == Count(responses, Ends(other))
  <1>2. Count(requests', Own(other)) = A + n
    BY <1>1, CountAppend, SMTT(30)
  <1>3. Outstanding(other) = A + B + C /\ A \in Nat /\ B \in Nat /\ C \in Nat
    BY OutstandingCounts, SMTT(30)
  <1>4. Outstanding(other)' = (A + n) + B + C
    <2> DEFINE a == Count(requests', Own(other))
    <2>1. Outstanding(other)' = a + B + C
      BY OutstandingNext
    <2> QED
      BY <1>2, <2>1
  <1>5. n = IF other = id THEN 1 ELSE 0
    BY <1>1
  <1> HIDE DEF n, A, B, C
  <1>6. n \in Nat
    BY <1>5
  <1> QED
    BY <1>3, <1>4, <1>5, <1>6, SMTT(30)

\* When the connections stay, the counts stay right as long as what is owed does
\* not grow, and does not change without a fatal error.
LEMMA CountsStay ==
    ASSUME TypeOK, TypeOK', Counted, UNCHANGED <<connections, next_connection>>, fatal => fatal',
           \A id \in Nat \ {0} : /\ Outstanding(id)' <= Outstanding(id)
                                 /\ ~fatal' => Outstanding(id)' = Outstanding(id)
    PROVE  Counted'
  <1> SUFFICES ASSUME NEW id \in Nat \ {0}
               PROVE  /\ id >= next_connection => Outstanding(id)' = 0
                      /\ id \in DOMAIN connections /\ ~connections[id].closing =>
                            /\ Outstanding(id)' <= connections[id].admitted
                            /\ ~fatal' => connections[id].admitted = Outstanding(id)'
    BY DEF Counted
  <1>1. /\ id >= next_connection => Outstanding(id) = 0
        /\ id \in DOMAIN connections /\ ~connections[id].closing =>
              /\ Outstanding(id) <= connections[id].admitted
              /\ ~fatal => connections[id].admitted = Outstanding(id)
    BY DEF Counted
  <1>2. Outstanding(id) \in Nat /\ Outstanding(id)' \in Nat
    BY OutstandingCounts, OutstandingNext, SMTT(30)
  <1>3. id \in DOMAIN connections => connections[id].admitted \in Nat
    BY DEF TypeOK, Connections
  <1>4. id >= next_connection => Outstanding(id)' = 0
    BY <1>1, <1>2, SMTT(30)
  <1>5. ASSUME id \in DOMAIN connections, ~connections[id].closing
        PROVE  Outstanding(id)' <= connections[id].admitted
    <2>1. Outstanding(id) <= connections[id].admitted
      BY <1>1, <1>5
    <2> QED
      BY <1>2, <1>3, <1>5, <2>1, SMTT(30)
  <1>6. ASSUME id \in DOMAIN connections, ~connections[id].closing, ~fatal'
        PROVE  connections[id].admitted = Outstanding(id)'
    BY <1>1, <1>6
  <1> QED
    BY <1>4, <1>5, <1>6

\* The counts stay right.
LEMMA StepKeepsCounts ==
    ASSUME TypeOK, TypeOK', Ending, Counted, [Next]_vars
    PROVE  Counted'
  <1>1. CASE EngineThread
    <2>1. UNCHANGED <<connections, next_connection>>
      BY <1>1, QuietSteps DEF Quiet
    <2>2. fatal' = fatal \/ fatal'
      BY <1>1 DEF EngineThread, EngineLoad, EnginePop, EnginePush, EngineFails, EngineEnd, flags
    <2>3. fatal => fatal'
      BY <2>2
    <2> QED
      BY <1>1, <2>1, <2>3, EngineOwes, CountsStay
  <1>2. CASE \/ PublisherThread \/ Stop \/ Returned \/ UNCHANGED vars
             \/ IoRouted \/ IoLeave \/ IoFails \/ IoJoin
    <2>1. UNCHANGED <<connections, next_connection, requests, responses, engine>>
      <3>1. CASE IoRouted \/ IoLeave \/ IoFails \/ IoJoin
        BY <3>1, IoMoves DEF queues
      <3>2. CASE PublisherThread
        BY <3>2, PublisherSteps, QuietSteps DEF Quiet
      <3>3. CASE Stop
        BY <3>3 DEF Stop, queues, sessions
      <3>4. CASE Returned \/ UNCHANGED vars
        BY <3>4 DEF Returned, vars, queues, sessions
      <3> QED
        BY <1>2, <3>1, <3>2, <3>3, <3>4
    <2>2. fatal' = fatal \/ fatal' \/ (fatal => fatal')
      <3>1. CASE IoRouted \/ IoLeave \/ IoFails \/ IoJoin
        BY <3>1, IoMoves
      <3>2. CASE PublisherThread
        BY <3>2, PublisherSteps
      <3>3. CASE Stop
        BY <3>3 DEF Stop, flags
      <3>4. CASE Returned \/ UNCHANGED vars
        BY <3>4 DEF Returned, vars, flags
      <3> QED
        BY <1>2, <3>1, <3>2, <3>3, <3>4
    <2>3. fatal => fatal'
      BY <2>2
    <2>4. \A id \in Nat \ {0} : Outstanding(id)' = Outstanding(id) /\ Outstanding(id) \in Nat
      BY <2>1, OutstandingSame, OutstandingCounts, SMTT(30)
    <2>5. \A id \in Nat \ {0} : /\ Outstanding(id)' <= Outstanding(id)
                                /\ ~fatal' => Outstanding(id)' = Outstanding(id)
      BY <2>4, SMTT(30)
    <2> QED
      BY <2>1, <2>3, <2>5, CountsStay
  <1>3. CASE IoTurn \/ IoPoll
    <2>1. UNCHANGED <<requests, responses, engine>> /\ fatal' = fatal
      BY <1>3, IoTurnStep, IoPollStep DEF queues, flags
    <2>2. \A id \in Nat \ {0} : Outstanding(id)' = Outstanding(id)
      BY <2>1, OutstandingSame
    <2>3. /\ next_connection \in Nat /\ next_connection' \in Nat /\ next_connection <= next_connection'
          /\ \A id \in DOMAIN connections' :
                \/ id \in DOMAIN connections /\ connections'[id] = connections[id]
                \/ id >= next_connection /\ connections'[id] = NewConnection
      <3>1. CASE IoTurn
        BY <3>1, IoTurnStep, SMTT(30) DEF TypeOK
      <3>2. CASE IoPoll
        BY <3>2, IoPollStep, SMTT(30) DEF TypeOK
      <3> QED
        BY <1>3, <3>1, <3>2
    <2>4. NewConnection.admitted = 0
      BY DEF NewConnection
    <2> SUFFICES ASSUME NEW id \in Nat \ {0}
                 PROVE  /\ id >= next_connection' => Outstanding(id)' = 0
                        /\ id \in DOMAIN connections' /\ ~connections'[id].closing =>
                              /\ Outstanding(id)' <= connections'[id].admitted
                              /\ ~fatal' => connections'[id].admitted = Outstanding(id)'
      BY DEF Counted
    <2>5. id >= next_connection => Outstanding(id) = 0
      BY DEF Counted
    <2>6. id >= next_connection' => id >= next_connection
      BY <2>3, SMTT(30)
    <2>7. CASE id \in DOMAIN connections /\ connections'[id] = connections[id]
      BY <2>1, <2>2, <2>5, <2>6, <2>7 DEF Counted
    <2>8. CASE id >= next_connection /\ connections'[id] = NewConnection
      <3>1. Outstanding(id)' = 0 /\ connections'[id].admitted = 0 /\ 0 <= 0
        BY <2>2, <2>4, <2>5, <2>8, SMTT(30)
      <3> QED
        BY <3>1
    <2>9. CASE id \notin DOMAIN connections'
      BY <2>2, <2>5, <2>6, <2>9
    <2> QED
      BY <2>3, <2>7, <2>8, <2>9
  <1>4. CASE IoRoute
    <2> DEFINE m == Head(responses)
    <2>1. m \in Reports /\ UNCHANGED next_connection /\ fatal' = fatal
      BY <1>4, IoRouteStep DEF flags
    <2> SUFFICES ASSUME NEW id \in Nat \ {0}
                 PROVE  /\ id >= next_connection' => Outstanding(id)' = 0
                        /\ id \in DOMAIN connections' /\ ~connections'[id].closing =>
                              /\ Outstanding(id)' <= connections'[id].admitted
                              /\ ~fatal' => connections'[id].admitted = Outstanding(id)'
      BY DEF Counted
    <2>2. /\ Outstanding(id) = Outstanding(id)' + (IF m \in Ends(id) THEN 1 ELSE 0)
          /\ Outstanding(id)' \in Nat
      BY <1>4, RouteOwes
    <2>3. m \in Ends(id) <=> m.connection = id /\ m.last
      BY <2>1 DEF Reports, Ends
    <2>4. /\ id >= next_connection => Outstanding(id) = 0
          /\ id \in DOMAIN connections /\ ~connections[id].closing =>
                /\ Outstanding(id) <= connections[id].admitted
                /\ ~fatal => connections[id].admitted = Outstanding(id)
      BY DEF Counted
    <2>5. id >= next_connection' => Outstanding(id)' = 0
      BY <2>1, <2>2, <2>4, SMTT(30)
    <2>6. ASSUME id \in DOMAIN connections', ~connections'[id].closing
          PROVE  /\ id \in DOMAIN connections /\ ~connections[id].closing
                 /\ connections'[id].admitted = connections[id].admitted
                                                  - (IF m \in Ends(id) THEN 1 ELSE 0)
      <3>1. CASE /\ connections' = connections
                 /\ m.connection # 0 /\ m.connection \in DOMAIN connections
                       => connections[m.connection].closing
        <4>1. id \in DOMAIN connections /\ ~connections[id].closing /\ connections[id].admitted \in Nat
          BY <2>6, <3>1 DEF TypeOK, Connections
        <4>2. m \notin Ends(id)
          BY <2>3, <3>1, <4>1
        <4> QED
          BY <3>1, <4>1, <4>2, SMTT(30)
      <3>2. ASSUME NEW target \in DOMAIN connections,
                   connections' = [connections EXCEPT ![target] = append(@, m.last)],
                   ~connections[target].closing,
                   m.connection # 0 => target = m.connection
            PROVE  /\ id \in DOMAIN connections /\ ~connections[id].closing
                   /\ connections'[id].admitted = connections[id].admitted
                                                    - (IF m \in Ends(id) THEN 1 ELSE 0)
        <4> HIDE DEF m
        <4>1. id \in DOMAIN connections /\ connections[id] \in Connections /\ connections[id].admitted \in Nat
          BY <2>6, <3>2 DEF TypeOK, Connections
        <4>2. CASE id = target
          <5>1. connections'[id] = append(connections[id], m.last) /\ ~connections[id].closing
            BY <3>2, <4>1, <4>2
          <5>2. m.last \in BOOLEAN /\ (m.last => m.connection # 0)
            BY <2>1 DEF Reports
          <5>3. connections'[id].admitted = IF m.last /\ connections[id].admitted > 0
                                            THEN connections[id].admitted - 1 ELSE connections[id].admitted
            BY <2>6, <4>1, <5>1, <5>2, AppendType, SMTT(30)
          <5>4. m \in Ends(id) <=> m.last
            BY <2>3, <3>2, <4>2, <5>2
          <5>5. m \in Ends(id) => connections[id].admitted > 0
            BY <2>2, <2>4, <4>1, <5>1, SMTT(30)
          <5>6. CASE m \in Ends(id)
            BY <4>1, <5>1, <5>3, <5>4, <5>5, <5>6, SMTT(30)
          <5>7. CASE m \notin Ends(id)
            BY <4>1, <5>1, <5>3, <5>4, <5>7, SMTT(30)
          <5> QED
            BY <5>6, <5>7
        <4>3. CASE id # target
          <5>1. connections'[id] = connections[id]
            BY <3>2, <4>1, <4>3
          <5>2. m \notin Ends(id)
            BY <2>3, <3>2, <4>3
          <5> QED
            BY <2>6, <4>1, <5>1, <5>2, SMTT(30)
        <4> QED
          BY <4>2, <4>3
      <3> QED
        BY <1>4, <3>1, <3>2, IoRouteStep
    <2>7. ASSUME id \in DOMAIN connections', ~connections'[id].closing
          PROVE  /\ Outstanding(id)' <= connections'[id].admitted
                 /\ ~fatal' => connections'[id].admitted = Outstanding(id)'
      <3>1. /\ Outstanding(id) <= connections[id].admitted
            /\ ~fatal => connections[id].admitted = Outstanding(id)
        BY <2>4, <2>6, <2>7
      <3>2. connections[id].admitted \in Nat
        BY <2>6, <2>7 DEF TypeOK, Connections
      <3>3. connections'[id].admitted = connections[id].admitted - (IF m \in Ends(id) THEN 1 ELSE 0)
        BY <2>6, <2>7
      <3>4. Outstanding(id)' <= connections'[id].admitted
        BY <2>2, <3>1, <3>2, <3>3, SMTT(30)
      <3>5. connections[id].admitted = Outstanding(id) => connections'[id].admitted = Outstanding(id)'
        BY <2>2, <3>2, <3>3, SMTT(30)
      <3> QED
        BY <2>1, <3>1, <3>4, <3>5
    <2> QED
      BY <2>5, <2>7
  <1>5. CASE \E id \in DOMAIN connections : Serve(id)
    <2>1. PICK id \in DOMAIN connections : Serve(id)
      BY <1>5
    <2>2. UNCHANGED <<fatal, responses, engine, next_connection>>
      BY <2>1, ServeStep DEF flags
    <2>3. PICK d \in Connections, remove \in {io.remove, io.remove \cup {id}}, lost \in SUBSET Nat :
             ServesAs(id, d, remove, lost)
      BY <2>1, ServeStep
    <2>4. /\ DOMAIN connections' = DOMAIN connections /\ connections'[id] = d
          /\ \A other \in DOMAIN connections \ {id} : connections'[other] = connections[other]
          /\ connections[id] \in Connections /\ connections[id].admitted \in Nat
          /\ id \in Nat \ {0} /\ ~(id >= next_connection)
      BY <2>3, SMTT(30) DEF ServesAs, TypeOK, Connections
    <2>5. d.closing \/ ~connections[id].closing
      BY <2>3 DEF ServesAs
    <2> SUFFICES ASSUME NEW other \in Nat \ {0}
                 PROVE  /\ other >= next_connection' => Outstanding(other)' = 0
                        /\ other \in DOMAIN connections' /\ ~connections'[other].closing =>
                              /\ Outstanding(other)' <= connections'[other].admitted
                              /\ ~fatal' => connections'[other].admitted = Outstanding(other)'
      BY DEF Counted
    <2>6. /\ other >= next_connection => Outstanding(other) = 0
          /\ other \in DOMAIN connections /\ ~connections[other].closing =>
                /\ Outstanding(other) <= connections[other].admitted
                /\ ~fatal => connections[other].admitted = Outstanding(other)
      BY DEF Counted
    <2>7. Outstanding(other) \in Nat
      BY OutstandingCounts, SMTT(30)
    <2>8. CASE requests' = requests /\ (d.closing \/ d.admitted = connections[id].admitted)
      <3>1. Outstanding(other)' = Outstanding(other)
        BY <2>2, <2>8, OutstandingSame
      <3>2. CASE other = id
        BY <2>2, <2>4, <2>5, <2>6, <2>8, <3>1, <3>2
      <3>3. CASE other # id
        <4>1. other \in DOMAIN connections' => connections'[other] = connections[other]
          BY <2>4, <3>3, SMTT(30)
        <4> QED
          BY <2>2, <2>4, <2>6, <3>1, <4>1
      <3> QED
        BY <3>2, <3>3
    <2>9. ASSUME d.admitted = connections[id].admitted + 1,
                 NEW e \in Own(id), requests' = Append(requests, e)
          PROVE  /\ other >= next_connection' => Outstanding(other)' = 0
                 /\ other \in DOMAIN connections' /\ ~connections'[other].closing =>
                       /\ Outstanding(other)' <= connections'[other].admitted
                       /\ ~fatal' => connections'[other].admitted = Outstanding(other)'
      <3>1. Outstanding(other)' = Outstanding(other) + (IF other = id THEN 1 ELSE 0)
        BY <2>2, <2>4, <2>9, ServeOwes
      <3>2. CASE other = id
        <4>1. Outstanding(id)' = Outstanding(id) + 1 /\ Outstanding(id) \in Nat
          BY <2>7, <3>1, <3>2, SMTT(30)
        <4>2. Outstanding(id) <= connections[id].admitted => Outstanding(id)' <= d.admitted
          BY <2>4, <2>9, <4>1, SMTT(30)
        <4>3. connections[id].admitted = Outstanding(id) => d.admitted = Outstanding(id)'
          BY <2>9, <4>1
        <4> QED
          BY <2>2, <2>4, <2>5, <2>6, <3>2, <4>2, <4>3
      <3>3. CASE other # id
        <4>1. other \in DOMAIN connections' => connections'[other] = connections[other]
          BY <2>4, <3>3
        <4>2. Outstanding(other)' = Outstanding(other)
          BY <2>7, <3>1, <3>3, SMTT(30)
        <4> QED
          BY <2>2, <2>4, <2>6, <4>1, <4>2
      <3> QED
        BY <3>2, <3>3, SMTT(30)
    <2> QED
      BY <2>3, <2>8, <2>9 DEF ServesAs, Admits
  <1> QED
    BY <1>1, <1>2, <1>3, <1>4, <1>5 DEF Next, IoThread

-----------------------------------------------------------------------------
(* The theorems *)

\* The server starts with nothing to do.
LEMMA InitServer == Init => ServerInv
  <1> SUFFICES ASSUME Init PROVE ServerInv
    OBVIOUS
  <1>1. /\ requests = <<>> /\ responses = <<>> /\ updates = <<>>
        /\ engine = [at |-> "load", input_finished |-> FALSE, reports |-> <<>>, updates |-> 0]
        /\ publisher = [at |-> "load", matching_finished |-> FALSE]
        /\ draining = FALSE
        /\ io = NoTurn /\ connections = <<>> /\ routes = <<>> /\ next_connection = 1
    BY DEF Init
  <1>2. DOMAIN connections = {} /\ DOMAIN routes = {}
    BY <1>1, SMTT(30)
  <1>3. TypeOK
    <2>1. /\ requests \in Seq(Envelopes) /\ responses \in Seq(Reports) /\ updates \in Seq({"Delta"})
          /\ <<>> \in Seq(Reports)
      BY <1>1, EmptySeq
    <2>2. engine \in Engines /\ publisher \in Publishers
      BY <1>1, <2>1, SMTT(30) DEF Engines, Publishers
    <2>3. io \in Ios
      BY <1>1 DEF NoTurn, Ios
    <2>4. /\ stop \in BOOLEAN /\ fatal \in BOOLEAN /\ ingress_done \in BOOLEAN /\ engine_done \in BOOLEAN
          /\ draining \in BOOLEAN
      BY DEF Init
    <2>5. connections \in [DOMAIN connections -> Connections] /\ DOMAIN connections \subseteq 1..(next_connection - 1)
          /\ next_connection \in Nat \ {0} /\ DOMAIN routes \subseteq Clients
      BY <1>1, <1>2, SMTT(30)
    <2> QED
      BY <2>1, <2>2, <2>3, <2>4, <2>5 DEF TypeOK
  <1>4. TurnOK /\ Marked /\ RoutesAreSessions
    BY <1>1, <1>2 DEF TurnOK, Marked, RoutesAreSessions, NoTurn
  <1>5. /\ engine.at = "load" /\ engine.reports = <<>> /\ engine.updates = 0
        /\ publisher.at = "load" /\ io.at = "serve"
    BY <1>1 DEF NoTurn
  <1>6. ~engine_done /\ ~ingress_done /\ ~io.matching_finished /\ ~publisher.matching_finished
    BY <1>1, SMTT(30) DEF Init, NoTurn
  <1>7. Ending
    BY <1>5, <1>6 DEF Ending
  <1>8. Finishing
    <2>1. engine.at \notin {"end", "done"} /\ publisher.at # "done" /\ io.at \notin {"join", "end"}
      BY <1>5
    <2> QED
      BY <1>6, <2>1 DEF Finishing
  <1>9. Counted
    <2>1. \A id \in Nat \ {0} : Outstanding(id) = 0
      <3> TAKE id \in Nat \ {0}
      <3>1. /\ Count(requests, Own(id)) = 0 /\ Count(engine.reports, Ends(id)) = 0
            /\ Count(responses, Ends(id)) = 0
        BY <1>1, <1>5, CountEmpty
      <3> QED
        BY <1>3, <3>1, OutstandingCounts, SMTT(30)
    <2> QED
      BY <1>2, <2>1 DEF Counted
  <1> QED
    BY <1>3, <1>4, <1>7, <1>8, <1>9 DEF ServerInv

\* Every step keeps the invariant.
LEMMA StepKeepsServer == ServerInv /\ [Next]_vars => ServerInv'
  <1> SUFFICES ASSUME ServerInv, [Next]_vars PROVE ServerInv'
    OBVIOUS
  <1>1. TypeOK /\ TurnOK /\ RoutesAreSessions /\ Ending /\ Finishing /\ Counted /\ Marked
    BY DEF ServerInv
  <1>2. TypeOK'
    BY <1>1, NextKeepsTypes
  <1>3. TurnOK' /\ RoutesAreSessions' /\ Marked'
    BY <1>1, StepKeepsTurn, StepKeepsRoutes, StepKeepsMarks
  <1>4. Ending' /\ Finishing'
    BY <1>1, StepKeepsEnding, StepKeepsFinishing
  <1>5. Counted'
    BY <1>1, <1>2, StepKeepsCounts
  <1> QED
    BY <1>2, <1>3, <1>4, <1>5 DEF ServerInv

\* The invariant holds in every state of the server.
THEOREM ServerInvariant == Spec => []ServerInv
  BY InitServer, StepKeepsServer, PTL DEF Spec

\* A client has a route exactly while one connection is its session, whatever
\* the clients send and however the connections end (run_exchange, routes and
\* Connection::client).
THEOREM ServerRoutesAreSessions == Spec => []RoutesAreSessions
  <1>1. ServerInv => RoutesAreSessions
    BY DEF ServerInv
  <1> QED
    BY <1>1, ServerInvariant, PTL

\* Connection::admitted counts the requests not answered yet, wherever in the
\* three threads and their queues they are, for queues of any size.
THEOREM ServerAdmittedIsOutstanding == Spec => []AdmittedIsOutstanding
  <1>1. ServerInv => AdmittedIsOutstanding
    <2>1. ASSUME ServerInv PROVE \A id \in DOMAIN connections : id \in Nat \ {0}
      BY <2>1, SMTT(30) DEF ServerInv, TypeOK
    <2> QED
      BY <2>1 DEF ServerInv, Counted, AdmittedIsOutstanding
  <1> QED
    BY <1>1, ServerInvariant, PTL

\* run_exchange returns without an error only when every request is answered,
\* every answer sent and every update published: each thread loads the flag of
\* the one before it before it looks at the queue between them.
THEOREM ServerCleanStop == Spec => []CleanStop
  <1>1. ServerInv => CleanStop
    <2> SUFFICES ASSUME ServerInv, io.at = "end", ~fatal
                 PROVE  /\ requests = <<>> /\ responses = <<>> /\ updates = <<>>
                        /\ \A id \in DOMAIN connections :
                             /\ connections[id].output = 0
                             /\ ~connections[id].closing => connections[id].admitted = 0
      BY DEF CleanStop
    <2>1. engine.at = "done" /\ publisher.at = "done"
      BY DEF ServerInv, Ending
    <2>2. engine.reports = <<>>
      BY <2>1 DEF ServerInv, Ending
    <2>3. engine.at \in {"end", "done"} /\ io.at \in {"join", "end"}
      BY <2>1
    <2>4. requests = <<>> /\ responses = <<>> /\ updates = <<>> /\ NothingPending
      BY <2>1, <2>3 DEF ServerInv, Finishing
    <2>5. ASSUME NEW id \in DOMAIN connections PROVE id \in Nat \ {0} /\ Outstanding(id) = 0
      <3>1. id \in Nat \ {0} /\ TypeOK
        BY SMTT(30) DEF ServerInv, TypeOK
      <3>2. /\ Count(requests, Own(id)) = 0 /\ Count(engine.reports, Ends(id)) = 0
            /\ Count(responses, Ends(id)) = 0
        BY <2>2, <2>4, CountEmpty
      <3> QED
        BY <3>1, <3>2, OutstandingCounts, SMTT(30)
    <2>6. ASSUME NEW id \in DOMAIN connections, ~connections[id].closing
          PROVE  connections[id].admitted = 0
      <3>1. connections[id].admitted = Outstanding(id)
        BY <2>5, <2>6 DEF ServerInv, Counted
      <3> QED
        BY <2>5, <3>1
    <2> QED
      BY <2>4, <2>6 DEF NothingPending
  <1> QED
    BY <1>1, ServerInvariant, PTL

\* When no socket fails, a connection is removed only once every request admitted
\* from it has been answered and the answers sent, or because the server closes it
\* itself (run_exchange, Connection::admitted): the mark made when it was served is
\* still right when the turn ends.  Fills that find the connection through routes
\* are no answers to its requests and are not counted.
THEOREM ServerAnsweredBeforeRemoval == Spec => AnsweredBeforeRemoval
  <1> DEFINE Removal == \A id \in DOMAIN connections \ DOMAIN connections' :
                           \/ id \in io.lost
                           \/ connections[id].closing
                           \/ IsWhole(connections[id].input)
                           \/ connections[id].output = 0 /\ Outstanding(id) = 0
  <1>1. ServerInv /\ [Next]_vars => Removal
    <2> SUFFICES ASSUME ServerInv, [Next]_vars, NEW id \in DOMAIN connections \ DOMAIN connections'
                 PROVE  \/ id \in io.lost
                        \/ connections[id].closing
                        \/ IsWhole(connections[id].input)
                        \/ connections[id].output = 0 /\ Outstanding(id) = 0
      OBVIOUS
    <2>1. TypeOK /\ Marked /\ Counted
      BY DEF ServerInv
    <2>2. id \in io.remove
      <3>1. CASE Quiet
        BY <3>1, QuietSteps
      <3>2. CASE IoTurn
        BY <2>1, <3>2, IoTurnStep
      <3>3. CASE IoRoute
        <4>1. DOMAIN connections' = DOMAIN connections
          BY <2>1, <3>3, IoRouteStep
        <4> QED
          BY <4>1
      <3>4. CASE IoPoll
        BY <2>1, <3>4, IoPollStep, SMTT(30)
      <3>5. CASE \E c \in DOMAIN connections : Serve(c)
        <4>1. DOMAIN connections' = DOMAIN connections
          BY <2>1, <3>5, ServeStep DEF ServesAs
        <4> QED
          BY <4>1
      <3>6. CASE IoRouted \/ IoLeave \/ IoFails \/ IoJoin
        BY <2>1, <3>6, IoMoves
      <3> QED
        BY <3>1, <3>2, <3>3, <3>4, <3>5, <3>6, Steps DEF IoThread
    <2>3. id \in Nat \ {0} /\ Outstanding(id) \in Nat
      BY <2>1, OutstandingCounts, SMTT(30) DEF TypeOK
    <2>4. ~connections[id].closing => Outstanding(id) <= connections[id].admitted
      BY <2>1, <2>3 DEF Counted
    <2>5. ~connections[id].closing /\ connections[id].admitted = 0 => Outstanding(id) = 0
      BY <2>3, <2>4, SMTT(30)
    <2> QED
      BY <2>1, <2>2, <2>5 DEF Marked
  <1>2. ServerInv /\ [Next]_vars => [Removal]_vars
    BY <1>1
  <1>3. []ServerInv /\ [][Next]_vars => [][Removal]_vars
    BY <1>2, PTL
  <1> QED
    BY <1>3, ServerInvariant, PTL DEF Spec, AnsweredBeforeRemoval

=============================================================================
