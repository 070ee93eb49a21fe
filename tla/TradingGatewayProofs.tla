------------------------ MODULE TradingGatewayProofs -------------------------
(***************************************************************************)
(* No wake-up of the gateway is lost, and an application that exits        *)
(* without an error has left nothing at the exchange, for queues of any    *)
(* size and any number of commands.                                        *)
(***************************************************************************)
EXTENDS TradingGateway, FiniteSets, SequenceTheorems, FiniteSetTheorems, TLAPS

\* A leaf that names no other prover is proved by Zenon.
USE ZenonT(30)

(* Types *)

Actions == {"poll", "New", "CancelAll"}

Requests == [request_id : Nat, action : Actions]

Reports == [report : {"Accepted", "Fill", "Cancelled", "Complete"}, request_id : Nat]

AppPlaces == {"idle", "drain", "drain_pop", "drained", "push", "signal", "wait", "wait_pop",
              "poll", "close", "check", "stop", "join", "recover", "ok", "error"}

Apps == [at : AppPlaces, mode : {"run", "closing", "failed", "unwinding"},
         action : Actions, cancel : BOOLEAN]

GatewayPlaces == {"top", "pop", "poll", "flush", "read", "push", "signal", "failing", "end"}

IsGateway(g) ==
    /\ g = [at |-> g.at, wake |-> g.wake, in |-> g.in, out |-> g.out, held |-> g.held]
    /\ g.at \in GatewayPlaces /\ g.held \in Seq(Reports)
    /\ g.at # "push" => g.held = <<>>

TypeOK ==
    /\ app \in Apps /\ request_id \in Nat /\ working \in Int
    /\ requests \in Seq(Requests) /\ reports \in Seq(Reports)
    /\ request_ready \in BOOLEAN /\ report_ready \in BOOLEAN
    /\ error \in BOOLEAN /\ stopped \in BOOLEAN /\ open \in BOOLEAN
    /\ IsGateway(gateway) /\ output \in Seq(Requests)
    /\ up \in Seq(Requests) /\ down \in Seq(Reports)
    /\ orders \in Nat /\ last_request \in Nat

\* Where the application goes when it goes on, throws or returns.
LEMMA AppMoves ==
    ASSUME NEW a \in Apps, NEW at \in AppPlaces
    PROVE  /\ Goto(a, at) \in Apps /\ Goto(a, at).at = at /\ Goto(a, at).mode = a.mode
           /\ Goto(a, at).action = a.action /\ Goto(a, at).cancel = a.cancel
           /\ Thrown(a) \in Apps /\ Thrown(a).at \in {"stop", "close"}
           /\ Thrown(a).mode \in {"failed", "unwinding"}
           /\ Returned(a) \in Apps /\ Returned(a).mode = a.mode
           /\ Returned(a).at = IF a.mode = "run" THEN "idle" ELSE "check"
           /\ Returned(a).action = a.action /\ Returned(a).cancel = a.cancel
  BY DEF Apps, AppPlaces, Goto, Thrown, Returned

\* How the application begins a call.
LEMMA AppBegins ==
    ASSUME NEW a \in Apps, NEW action \in Actions
    PROVE  LET b == [a EXCEPT !.at = "drain", !.action = action]
               c == [a EXCEPT !.at = "drain", !.action = action, !.mode = "closing"]
           IN  /\ b \in Apps /\ b.at = "drain" /\ b.action = action
               /\ b.mode = a.mode /\ b.cancel = a.cancel
               /\ c \in Apps /\ c.at = "drain" /\ c.action = action
               /\ c.mode = "closing" /\ c.cancel = a.cancel
  BY DEF Apps, AppPlaces

\* Where the gateway thread goes.
LEMMA GatewayMoves ==
    ASSUME NEW g, IsGateway(g), g.at # "push", NEW at \in GatewayPlaces \ {"push"}
    PROVE  IsGateway(Goto(g, at)) /\ Goto(g, at).at = at /\ Goto(g, at).held = g.held
  BY SMTT(30) DEF IsGateway, GatewayPlaces, Goto

\* The gateway thread has nothing in hand while it polls.
LEMMA PollEnds ==
    ASSUME TypeOK, GatewayPoll
    PROVE  /\ IsGateway(gateway') /\ gateway'.at \in {"flush", "top"}
           /\ gateway'.held = gateway.held
  <1>1. IsGateway(gateway) /\ gateway.at = "poll"
    BY DEF TypeOK, GatewayPoll
  <1>2. CASE gateway' = Goto(gateway, "top")
    BY <1>1, <1>2, GatewayMoves DEF GatewayPlaces
  <1>3. ASSUME NEW wake, NEW out, NEW in,
               gateway' = [gateway EXCEPT !.at = "flush", !.wake = wake, !.out = out, !.in = in]
        PROVE  /\ IsGateway(gateway') /\ gateway'.at = "flush"
               /\ gateway'.held = gateway.held
    BY <1>1, <1>3 DEF IsGateway, GatewayPlaces
  <1>4. CASE gateway' # Goto(gateway, "top")
    <2>1. PICK writable \in BOOLEAN :
              gateway' = [gateway EXCEPT !.at = "flush", !.wake = request_ready,
                             !.out = writable /\ output # <<>>, !.in = down # <<>> \/ ~open]
      BY <1>4 DEF GatewayPoll
    <2> QED
      BY <1>3, <2>1
  <1> QED
    BY <1>2, <1>4

\* What submit pushes is a request.
LEMMA PushedRequest == ASSUME TypeOK, AppPush PROVE requests' \in Seq(Requests)
  <1> DEFINE r == [request_id |-> request_id, action |-> app.action]
  <1>1. r \in Requests /\ requests \in Seq(Requests)
    BY DEF TypeOK, Requests, Apps
  <1>2. requests' = Append(requests, r) \/ requests' = requests
    BY DEF AppPush
  <1> HIDE DEF r
  <1> QED
    BY <1>1, <1>2, AppendProperties, SMTT(30)

\* What the gateway thread takes from the queue is a request.
LEMMA PoppedRequest ==
    ASSUME TypeOK, GatewayPop
    PROVE  requests' \in Seq(Requests) /\ output' \in Seq(Requests)
  <1>1. requests \in Seq(Requests) /\ output \in Seq(Requests)
    BY DEF TypeOK
  <1>2. CASE requests # <<>> /\ requests' = Tail(requests) /\ output' = Append(output, Head(requests))
    <2>1. Head(requests) \in Requests /\ Tail(requests) \in Seq(Requests)
      BY <1>1, <1>2, HeadTailProperties
    <2> QED
      BY <1>1, <1>2, <2>1, AppendProperties
  <1>3. CASE UNCHANGED <<requests, output>>
    BY <1>1, <1>3
  <1> QED
    BY <1>2, <1>3 DEF GatewayPop

\* The steps of the application keep the types.
LEMMA AppKeepsTypes ==
    ASSUME TypeOK, (\E action \in Actions : AppCalls(action)) \/ AppFinish \/ App \/ AppDeadline
    PROVE  TypeOK'
  <1> USE AppMoves DEF TypeOK, AppPlaces
  <1>1. ASSUME NEW action \in Actions, AppCalls(action) PROVE TypeOK'
    <2>1. app' \in Apps
      BY <1>1, AppBegins DEF AppCalls
    <2> QED
      BY <1>1, <2>1 DEF AppCalls, flags, wire, exchange
  <1>2. CASE AppFinish
    <2>1. app' \in Apps
      BY <1>2, AppBegins DEF AppFinish, Actions
    <2> QED
      BY <1>2, <2>1, SMTT(30) DEF AppFinish, flags, wire, exchange
  <1>3. CASE AppDrain
    BY <1>3 DEF AppDrain, flags, wire, exchange
  <1>4. CASE AppDrainPop
    <2>1. CASE reports # <<>> /\ Consumes(Head(reports)) /\ app' = Goto(app, "drain")
      <3>1. Head(reports) \in Reports /\ Tail(reports) \in Seq(Reports)
        BY <2>1, HeadTailProperties
      <3>2. working' \in Int
        BY <2>1, <3>1, SMTT(30) DEF Consumes, Reports
      <3>3. /\ reports' = Tail(reports)
            /\ UNCHANGED <<request_id, requests, request_ready, report_ready, error, stopped, open,
                           gateway, output, up, down, orders, last_request>>
        BY <1>4, <2>1 DEF AppDrainPop, Consumes, flags, wire, exchange
      <3>4. app' \in Apps
        BY <2>1
      <3> QED
        BY <3>1, <3>2, <3>3, <3>4
    <2>2. CASE reports = <<>>
      BY <1>4, <2>2, SMTT(30) DEF AppDrainPop, flags, wire, exchange
    <2> QED
      BY <1>4, <2>1, <2>2 DEF AppDrainPop
  <1>5. CASE AppDrained
    BY <1>5, SMTT(30) DEF AppDrained, flags, wire, exchange
  <1>6. CASE AppPush
    <2>2. requests' \in Seq(Requests)
      BY <1>6, PushedRequest
    <2>3. app' \in Apps
      BY <1>6, SMTT(30) DEF AppPush
    <2> QED
      BY <1>6, <2>2, <2>3 DEF AppPush, flags, wire, exchange
  <1>7. CASE AppSignal
    BY <1>7 DEF AppSignal, flags, wire, exchange
  <1>8. CASE AppWait
    BY <1>8 DEF AppWait, flags, wire, exchange
  <1>9. CASE AppWaitPop
    <2>1. CASE reports # <<>> /\ Consumes(Head(reports))
      <3>1. Head(reports) \in Reports /\ Tail(reports) \in Seq(Reports)
        BY <2>1, HeadTailProperties
      <3>2. working' \in Int
        BY <2>1, <3>1, SMTT(30) DEF Consumes, Reports
      <3>3. app' \in Apps
        BY <1>9, <2>1, SMTT(30) DEF AppWaitPop
      <3> QED
        BY <1>9, <2>1, <3>1, <3>2, <3>3 DEF AppWaitPop, Consumes, flags, wire, exchange
    <2>2. CASE reports = <<>>
      BY <1>9, <2>2, SMTT(30) DEF AppWaitPop, flags, wire, exchange
    <2> QED
      BY <1>9, <2>1, <2>2 DEF AppWaitPop
  <1>10. CASE AppPoll
    BY <1>10 DEF AppPoll, flags, wire, exchange
  <1>11. CASE AppClose
    <2>1. app' \in Apps
      BY <1>11, AppBegins DEF AppClose, Actions
    <2> QED
      BY <1>11, <2>1 DEF AppClose, flags, wire, exchange
  <1>12. CASE AppCheck
    BY <1>12 DEF AppCheck, flags, wire, exchange
  <1>13. CASE AppStop
    BY <1>13 DEF AppStop, flags, wire, exchange
  <1>14. CASE AppJoin
    BY <1>14 DEF AppJoin, flags, wire, exchange
  <1>15. CASE AppRecover
    BY <1>15, SMTT(30) DEF AppRecover, flags, wire, exchange
  <1>16. CASE AppDeadline
    BY <1>16 DEF AppDeadline, flags, wire, exchange
  <1> QED
    BY <1>1, <1>2, <1>3, <1>4, <1>5, <1>6, <1>7, <1>8, <1>9, <1>10, <1>11, <1>12, <1>13,
       <1>14, <1>15, <1>16, SMTT(30) DEF App

\* The steps of the gateway thread keep the types.
LEMMA GatewayKeepsTypes == ASSUME TypeOK, Gateway PROVE TypeOK'
  <1> USE GatewayMoves DEF TypeOK, GatewayPlaces
  <1>1. CASE GatewayTop
    BY <1>1 DEF GatewayTop, appVars, flags, wire, exchange
  <1>2. CASE GatewayPop
    <2>1. requests' \in Seq(Requests) /\ output' \in Seq(Requests)
      BY <1>2, PoppedRequest, SMTT(30)
    <2> QED
      BY <1>2, <2>1 DEF GatewayPop, appVars, flags, wire, exchange
  <1>3. CASE GatewayPoll
    <2>1. IsGateway(gateway')
      BY <1>3, PollEnds
    <2> QED
      BY <1>3, <2>1 DEF GatewayPoll, appVars, flags, wire, exchange
  <1>4. CASE GatewayFlush
    <2>1. IsGateway(gateway')
      BY <1>4 DEF GatewayFlush, IsGateway
    <2>2. output' \in Seq(Requests) /\ up' \in Seq(Requests)
      <3>1. PICK n \in 0..Len(output) :
                /\ output' = SubSeq(output, n + 1, Len(output))
                /\ up' = IF open THEN up \o SubSeq(output, 1, n) ELSE up
        BY <1>4 DEF GatewayFlush
      <3>2. SubSeq(output, n + 1, Len(output)) \in Seq(Requests) /\ SubSeq(output, 1, n) \in Seq(Requests)
        BY SubSeqProperties, SMTT(30)
      <3> QED
        BY <3>1, <3>2, ConcatProperties
    <2>3. request_ready' \in BOOLEAN
      BY <1>4 DEF GatewayFlush
    <2> QED
      BY <1>4, <2>1, <2>2, <2>3, SMTT(30) DEF GatewayFlush, appVars, exchange
  <1>5. CASE GatewayRead
    <2>1. CASE gateway.in /\ down # <<>>
      <3>1. Head(down) \in Reports /\ down' \in Seq(Reports)
        BY <1>5, <2>1, HeadTailProperties DEF GatewayRead
      <3>2. gateway' = [gateway EXCEPT !.at = "push", !.held = <<Head(down)>>]
        BY <1>5, <2>1 DEF GatewayRead
      <3>3. <<Head(down)>> \in Seq(Reports)
        BY <3>1, SMTT(30)
      <3>4. ASSUME NEW held \in Seq(Reports), gateway' = [gateway EXCEPT !.at = "push", !.held = held]
            PROVE  IsGateway(gateway')
        BY <3>4 DEF IsGateway
      <3>5. IsGateway(gateway')
        BY <3>2, <3>3, <3>4
      <3> QED
        BY <1>5, <3>1, <3>5 DEF GatewayRead, appVars, flags, exchange
    <2>2. CASE ~(gateway.in /\ down # <<>>)
      <3>1. gateway' = [gateway EXCEPT !.at = "top", !.in = FALSE] /\ gateway.at = "read" /\ UNCHANGED down
        BY <1>5, <2>2 DEF GatewayRead
      <3>2. IsGateway(gateway')
        BY <3>1 DEF IsGateway
      <3> QED
        BY <1>5, <3>1, <3>2 DEF GatewayRead, appVars, flags, exchange
    <2> QED
      BY <2>1, <2>2
  <1>6. CASE GatewayPush
    <2>1. reports' \in Seq(Reports)
      <3>1. gateway.held \in Seq(Reports)
        BY DEF IsGateway
      <3> QED
        BY <1>6, <3>1, ConcatProperties DEF GatewayPush
    <2>2. IsGateway(gateway')
      <3>1. <<>> \in Seq(Reports)
        BY EmptySeq
      <3> QED
        BY <1>6, <3>1 DEF GatewayPush, IsGateway
    <2> QED
      BY <1>6, <2>1, <2>2 DEF GatewayPush, appVars, flags, wire, exchange
  <1>7. CASE GatewaySignal
    BY <1>7 DEF GatewaySignal, appVars, wire, exchange
  <1>8. CASE GatewayFails
    <2>1. IsGateway(gateway')
      BY <1>8 DEF GatewayFails, IsGateway
    <2> QED
      BY <1>8, <2>1 DEF GatewayFails, appVars, wire, exchange
  <1>9. CASE GatewayFailed
    BY <1>9 DEF GatewayFailed, appVars, wire, exchange
  <1> QED
    BY <1>1, <1>2, <1>3, <1>4, <1>5, <1>6, <1>7, <1>8, <1>9 DEF Gateway

\* The reports the exchange sends for a request.
LEMMA AnswerType ==
    ASSUME NEW kinds \in Seq({"Accepted", "Fill", "Cancelled", "Complete"}), NEW request \in Nat
    PROVE  [i \in DOMAIN kinds |-> [report |-> kinds[i], request_id |-> request]] \in Seq(Reports)
  <1>1. Len(kinds) \in Nat /\ DOMAIN kinds = 1..Len(kinds)
    BY LenProperties
  <1>2. \A i \in DOMAIN kinds : [report |-> kinds[i], request_id |-> request] \in Reports
    BY <1>1, ElementOfSeq DEF Reports
  <1> QED
    BY <1>1, <1>2, SMTT(30)

\* The steps of the subscriber, the exchange and the network keep the types.
LEMMA OthersKeepTypes ==
    ASSUME TypeOK, SubscriberEnds \/ SubscriberFails \/ SubscriberFailed \/ Serve \/ Trade \/ Break
    PROVE  TypeOK'
  <1>1. CASE SubscriberEnds
    BY <1>1 DEF TypeOK, SubscriberEnds, appVars, flags, wire, exchange
  <1>2. CASE SubscriberFails
    BY <1>2 DEF TypeOK, SubscriberFails, appVars, wire, exchange
  <1>3. CASE SubscriberFailed
    BY <1>3 DEF TypeOK, SubscriberFailed, appVars, wire, exchange
  <1>4. ASSUME NEW kinds \in Seq({"Accepted", "Fill", "Cancelled", "Complete"}), NEW request \in Nat,
               NEW left \in Nat, Answer(kinds, request, left)
        PROVE  down' \in Seq(Reports) /\ orders' \in Nat
    <2> DEFINE answers == [i \in DOMAIN kinds |-> [report |-> kinds[i], request_id |-> request]]
    <2>1. answers \in Seq(Reports) /\ down \in Seq(Reports)
      BY AnswerType DEF TypeOK
    <2>2. orders' = left /\ (down' = down \o answers \/ down' = down)
      BY <1>4 DEF Answer
    <2> HIDE DEF answers
    <2> QED
      BY <2>1, <2>2, ConcatProperties
  <1>5. CASE Serve
    <2> DEFINE m == Head(up)
               cancels == [i \in 1..orders |-> "Cancelled"]
               K == {"Accepted", "Fill", "Cancelled", "Complete"}
    <2>1. m \in Requests /\ up' \in Seq(Requests)
      BY <1>5, HeadTailProperties DEF TypeOK, Serve
    <2>2. m.request_id \in Nat /\ orders \in Nat /\ orders + 1 \in Nat /\ 0 \in Nat /\ last_request \in Nat
      BY <2>1, SMTT(30) DEF TypeOK, Requests
    <2>3. /\ <<"Complete">> \in Seq(K) /\ <<"Accepted", "Complete">> \in Seq(K)
          /\ cancels \o <<"Complete">> \in Seq(K)
      <3>1. cancels \in Seq(K)
        BY <2>2, SMTT(30)
      <3> QED
        BY <3>1, ConcatProperties, SMTT(30)
    <2>4. /\ \/ Answer(<<"Complete">>, m.request_id, orders)
             \/ Answer(<<"Accepted", "Complete">>, m.request_id, orders + 1)
             \/ Answer(cancels \o <<"Complete">>, m.request_id, 0)
          /\ last_request' \in {last_request, m.request_id}
      BY <1>5 DEF Serve
    <2> HIDE DEF m, cancels
    <2>5. down' \in Seq(Reports) /\ orders' \in Nat
      BY <1>4, <2>2, <2>3, <2>4
    <2> QED
      BY <1>5, <2>1, <2>2, <2>4, <2>5, SMTT(30) DEF TypeOK, Serve, appVars, flags
  <1>6. CASE Trade
    <2>1. <<"Fill">> \in Seq({"Accepted", "Fill", "Cancelled", "Complete"}) /\ orders - 1 \in Nat /\ 0 \in Nat
      BY <1>6, SMTT(30) DEF TypeOK, Trade
    <2>2. down' \in Seq(Reports) /\ orders' \in Nat
      BY <1>4, <1>6, <2>1 DEF Trade
    <2> QED
      BY <1>6, <2>2 DEF TypeOK, Trade, appVars, flags
  <1>7. CASE Break
    <2>1. up' \in Seq(Requests) /\ down' \in Seq(Reports)
      BY <1>7, EmptySeq DEF TypeOK, Break
    <2> QED
      BY <1>7, <2>1 DEF TypeOK, Break, appVars, flags, exchange
  <1> QED
    BY <1>1, <1>2, <1>3, <1>5, <1>6, <1>7

\* Every step keeps the types.
LEMMA StepKeepsTypes == ASSUME TypeOK, [Next]_vars PROVE TypeOK'
  <1>1. CASE UNCHANGED vars
    BY <1>1 DEF TypeOK, vars, appVars, flags, wire, exchange
  <1> QED
    BY <1>1, AppKeepsTypes, GatewayKeepsTypes, OthersKeepTypes DEF Next, Actions

\* The first state has the types.
LEMMA InitTypes == Init => TypeOK
  <1> SUFFICES ASSUME Init PROVE TypeOK
    OBVIOUS
  <1>1. app \in Apps
    BY DEF Init, Apps, AppPlaces, Actions
  <1>2. IsGateway(gateway)
    <2>1. <<>> \in Seq(Reports)
      BY EmptySeq
    <2> QED
      BY <2>1 DEF Init, IsGateway, GatewayPlaces
  <1>3. <<>> \in Seq(Requests) /\ <<>> \in Seq(Reports)
    BY EmptySeq
  <1>4. request_id \in Nat /\ working \in Int /\ orders \in Nat /\ last_request \in Nat
    BY SMTT(30) DEF Init
  <1> QED
    BY <1>1, <1>2, <1>3, <1>4 DEF Init, TypeOK

-----------------------------------------------------------------------------
(* No wake-up is lost *)

\* The application goes to sleep only when its queue was empty, and a push is
\* followed by a signal; the same for the gateway thread.
LEMMA StepKeepsWakeups == ASSUME TypeOK, NoWakeupIsLost, [Next]_vars PROVE NoWakeupIsLost'
  <1> USE DEF TypeOK, NoWakeupIsLost
  <1>1. ASSUME NEW action \in Actions, AppCalls(action) PROVE NoWakeupIsLost'
    BY <1>1, AppBegins DEF AppCalls, flags
  <1>2. CASE AppFinish
    BY <1>2, AppBegins DEF AppFinish, Actions, flags
  <1>3. CASE AppDrain
    BY <1>3, AppMoves DEF AppDrain, AppPlaces, flags
  <1>4. CASE AppDrainPop
    BY <1>4, AppMoves DEF AppDrainPop, AppPlaces, flags
  <1>5. CASE AppDrained
    BY <1>5, AppMoves DEF AppDrained, AppPlaces, flags
  <1>6. CASE AppPush
    <2>1. \/ app' = Goto(app, "signal")
          \/ app' = Thrown(app) /\ requests' = requests
      BY <1>6 DEF AppPush
    <2>2. app.at = "push" /\ app'.at # "poll" /\ (app'.at = "signal" \/ requests' = requests)
      <3>1. app \in Apps /\ "signal" \in AppPlaces
        BY DEF AppPlaces
      <3>2. Goto(app, "signal").at = "signal" /\ Thrown(app).at \in {"stop", "close"}
        BY <3>1, AppMoves
      <3> QED
        BY <1>6, <2>1, <3>2 DEF AppPush
    <2> QED
      BY <1>6, <2>2 DEF AppPush, flags
  <1>7. CASE AppSignal
    BY <1>7, AppMoves DEF AppSignal, AppPlaces
  <1>8. CASE AppWait
    BY <1>8, AppMoves DEF AppWait, AppPlaces, flags
  <1>9. CASE AppWaitPop
    BY <1>9, AppMoves, SMTT(30) DEF AppWaitPop, AppPlaces, flags
  <1>10. CASE AppPoll
    BY <1>10, AppMoves, SMTT(30) DEF AppPoll, AppPlaces
  <1>11. CASE AppClose
    BY <1>11, AppMoves, AppBegins DEF AppClose, AppPlaces, Actions, flags
  <1>12. CASE AppCheck
    BY <1>12, AppMoves DEF AppCheck, AppPlaces, flags
  <1>13. CASE AppStop
    BY <1>13, AppMoves DEF AppStop, AppPlaces
  <1>14. CASE AppJoin
    BY <1>14, AppMoves DEF AppJoin, AppPlaces, flags
  <1>15. CASE AppRecover
    BY <1>15, AppMoves, SMTT(30) DEF AppRecover, AppPlaces, flags
  <1>16. CASE AppDeadline
    BY <1>16, AppMoves DEF AppDeadline, AppPlaces, flags
  <1>17. CASE GatewayTop
    BY <1>17, GatewayMoves, SMTT(30) DEF GatewayTop, GatewayPlaces, appVars, flags
  <1>18. CASE GatewayPop
    BY <1>18, GatewayMoves DEF GatewayPop, GatewayPlaces, appVars, flags
  <1>19. CASE GatewayPoll
    <2>1. gateway'.at # "poll"
      BY <1>19, PollEnds
    <2> QED
      BY <1>19, <2>1 DEF GatewayPoll, appVars, flags
  <1>20. CASE GatewayFlush
    <2>1. gateway'.at = "read"
      BY <1>20 DEF GatewayFlush, IsGateway
    <2> QED
      BY <1>20, <2>1 DEF GatewayFlush, appVars
  <1>21. CASE GatewayRead
    <2>1. gateway'.at \in {"push", "top"}
      BY <1>21 DEF GatewayRead, IsGateway
    <2> QED
      BY <1>21, <2>1 DEF GatewayRead, appVars, flags
  <1>22. CASE GatewayPush
    <2>1. gateway'.at # "poll" /\ (reports' # reports => gateway'.at = "signal")
      BY <1>22 DEF GatewayPush, IsGateway
    <2> QED
      BY <1>22, <2>1 DEF GatewayPush, appVars, flags
  <1>23. CASE GatewaySignal
    BY <1>23, GatewayMoves DEF GatewaySignal, GatewayPlaces, appVars
  <1>24. CASE GatewayFails
    <2>1. gateway'.at = "failing" /\ gateway.at # "signal"
      BY <1>24 DEF GatewayFails, IsGateway
    <2> QED
      BY <1>24, <2>1 DEF GatewayFails, appVars
  <1>25. CASE GatewayFailed
    BY <1>25 DEF GatewayFailed, appVars
  <1>26. CASE SubscriberEnds
    BY <1>26 DEF SubscriberEnds, appVars, flags
  <1>27. CASE SubscriberFails
    BY <1>27 DEF SubscriberFails, appVars
  <1>28. CASE SubscriberFailed
    BY <1>28 DEF SubscriberFailed, appVars
  <1>29. CASE Serve \/ Trade \/ Break
    BY <1>29 DEF Serve, Trade, Break, appVars, flags
  <1>30. CASE UNCHANGED vars
    BY <1>30 DEF vars, appVars, flags
  <1> QED
    BY <1>1, <1>2, <1>3, <1>4, <1>5, <1>6, <1>7, <1>8, <1>9, <1>10, <1>11, <1>12, <1>13, <1>14,
       <1>15, <1>16, <1>17, <1>18, <1>19, <1>20, <1>21, <1>22, <1>23, <1>24, <1>25, <1>26, <1>27,
       <1>28, <1>29, <1>30 DEF Next, App, Gateway, Actions

\* For queues of any capacity and any number of commands: neither the
\* application nor the gateway thread sleeps on an eventfd while its queue has
\* something it can take and nobody is about to signal.
THEOREM GatewayNoWakeupIsLost == Spec => []NoWakeupIsLost
  <1>1. Init => NoWakeupIsLost
    BY DEF Init, NoWakeupIsLost
  <1> QED
    BY <1>1, InitTypes, StepKeepsTypes, StepKeepsWakeups, PTL DEF Spec

-----------------------------------------------------------------------------
(* The invariant behind CleanExit *)

\* The command of the application is on its way or answered.
Submitted == app.at \in {"signal", "wait", "wait_pop", "poll"}

\* The reports that the application can still receive, in order.
Incoming == reports \o gateway.held \o down

\* The answer that ends the wait of the application.
Done(m) == m.report = "Complete" /\ m.request_id = request_id

\* How many reports of s are of the given kinds.
Count(s, kinds) == Cardinality({i \in DOMAIN s : s[i].report \in kinds})

\* The application waits for an answer that will not come.
Doomed == Submitted /\ ~open /\ \A i \in DOMAIN Incoming : ~Done(Incoming[i])

\* No exception was thrown, none is due, and the client is not closed.
Healthy ==
    /\ ~error /\ app.mode \in {"run", "closing"}
    /\ app.at \notin {"stop", "join", "recover", "ok", "error"}

\* The requests of s are the one the application waits for.
Mine(s) == \A i \in DOMAIN s : s[i].request_id = request_id /\ s[i].action = app.action

\* The request on its way, if there is one, is the one of the application, and
\* the next one the exchange expects.
OneRequest ==
    /\ Mine(requests) /\ Mine(output) /\ Mine(up)
    /\ Len(requests) + Len(output) + Len(up) <= 1
    /\ Len(requests) + Len(output) + Len(up) = 1 => Submitted /\ last_request + 1 = request_id
    /\ Submitted => last_request = request_id \/ last_request + 1 = request_id
    /\ ~Submitted => last_request = IF app.at = "push" THEN request_id - 1 ELSE request_id

\* A report is about a request that the exchange has performed, and the order
\* it accepted is told before the request is complete.
ReportsInOrder ==
    \A i \in DOMAIN Incoming :
        /\ Incoming[i].request_id <= last_request
        /\ Incoming[i].report = "Accepted" =>
              /\ Submitted /\ last_request = request_id
              /\ \A j \in 1..(i - 1) : ~Done(Incoming[j])

\* The application knows of every order at the exchange, once it has the
\* reports on their way.
OrdersKnown ==
    ~Doomed => working + Count(Incoming, {"Accepted"})
                  >= orders + Count(Incoming, {"Fill", "Cancelled"})

\* What close submits is CancelAll, and after it there is no order.
CancelledAll ==
    /\ app.at \in {"close", "check"} => app.mode = "closing"
    /\ app.at \in {"push", "signal", "wait", "wait_pop", "poll"} => app.action # "poll"
    /\ app.mode = "closing" => app.action # "New"
    /\ Submitted /\ app.action = "CancelAll" /\ last_request = request_id => orders = 0
    /\ app.at = "check" /\ app.cancel => orders = 0

\* What close leaves behind.
Left ==
    app.mode = "closing" /\ app.cancel /\ app.at \in {"stop", "join", "recover", "ok"} =>
        orders = 0 /\ requests = <<>> /\ output = <<>> /\ up = <<>>

\* Which call the application is in, by why it makes it.
Ways ==
    /\ app.at = "idle" => app.mode = "run"
    /\ app.mode = "failed" /\ app.at \in {"drain", "drain_pop", "drained"} => app.action = "CancelAll"
    /\ app.mode = "unwinding" => app.at \in {"stop", "join", "error"}
    /\ app.at \in {"recover", "ok"} => app.mode = "closing"

\* A thread that fails has set the error.
FailuresShow == subscriber = "failing" \/ gateway.at = "failing" => error

\* What holds until something goes wrong.
Orderly == ~stopped /\ OneRequest /\ ReportsInOrder /\ OrdersKnown /\ CancelledAll

SessionInv ==
    /\ TypeOK /\ Ways /\ FailuresShow
    /\ Healthy => Orderly
    /\ Left

-----------------------------------------------------------------------------
(* Counting reports *)

\* What is counted is finite.
LEMMA CountType ==
    ASSUME NEW s \in Seq(Reports), NEW kinds
    PROVE  /\ IsFiniteSet({i \in DOMAIN s : s[i].report \in kinds}) /\ Count(s, kinds) \in Nat
  <1>1. IsFiniteSet(1..Len(s)) /\ DOMAIN s = 1..Len(s)
    BY FS_Interval, LenProperties, SMTT(30)
  <1>2. IsFiniteSet({i \in DOMAIN s : s[i].report \in kinds})
    BY <1>1, FS_Subset
  <1> QED
    BY <1>2, FS_CardinalityType DEF Count

\* The count is a number.
LEMMA CountNat == \A s \in Seq(Reports) : \A kinds : Count(s, kinds) \in Nat
  BY CountType

\* Counts add up.
LEMMA CountConcat ==
    ASSUME NEW s \in Seq(Reports), NEW t \in Seq(Reports), NEW kinds
    PROVE  Count(s \o t, kinds) = Count(s, kinds) + Count(t, kinds)
  <1> DEFINE A == {i \in DOMAIN s : s[i].report \in kinds}
             B == {i \in DOMAIN t : t[i].report \in kinds}
             C == {i \in DOMAIN (s \o t) : (s \o t)[i].report \in kinds}
             D == {i \in C : i > Len(s)}
             shift == [i \in B |-> i + Len(s)]
  <1>1. /\ Len(s) \in Nat /\ Len(t) \in Nat /\ DOMAIN s = 1..Len(s) /\ DOMAIN t = 1..Len(t)
        /\ DOMAIN (s \o t) = 1..(Len(s) + Len(t))
        /\ \A i \in 1..(Len(s) + Len(t)) : (s \o t)[i] = IF i <= Len(s) THEN s[i] ELSE t[i - Len(s)]
    BY ConcatProperties, LenProperties, SMTT(30)
  <1>2. C = A \cup D /\ A \cap D = {}
    <2>1. ASSUME NEW i \in 1..Len(s) PROVE i \in C <=> i \in A
      BY <1>1, SMTT(30)
    <2>2. A \subseteq C
      BY <1>1, <2>1
    <2> QED
      BY <1>1, <2>1, <2>2, SMTT(30)
  <1>3. shift \in Bijection(B, D)
    <2>1. ASSUME NEW i \in B PROVE i + Len(s) \in D
      BY <1>1, SMTT(30)
    <2>2. shift \in [B -> D]
      BY <2>1
    <2>3. IsInjective(shift)
      BY <1>1, SMTT(30) DEF IsInjective
    <2>4. ASSUME NEW d \in D PROVE \E i \in B : shift[i] = d
      <3>1. d - Len(s) \in B /\ (d - Len(s)) + Len(s) = d
        BY <1>1, SMTT(30)
      <3> QED
        BY <3>1
    <2> QED
      BY <2>2, <2>3, <2>4 DEF Bijection, Injection, Surjection
  <1> HIDE DEF shift
  <1>4. IsFiniteSet(A) /\ IsFiniteSet(B)
    <2>1. IsFiniteSet(A)
      BY CountType
    <2>2. IsFiniteSet(B)
      BY CountType
    <2> QED
      BY <2>1, <2>2
  <1>4a. /\ Count(s, kinds) = Cardinality(A) /\ Count(t, kinds) = Cardinality(B)
         /\ Count(s \o t, kinds) = Cardinality(C)
    BY DEF Count
  <1> HIDE DEF A, B, C, D
  <1>5. IsFiniteSet(D) /\ Cardinality(D) = Cardinality(B)
    <2>1. ExistsBijection(B, D)
      BY <1>3 DEF ExistsBijection
    <2> QED
      BY <1>4, <2>1, FS_Bijection
  <1>6. Cardinality(C) = Cardinality(A) + Cardinality(D) - Cardinality({})
    BY <1>2, <1>4, <1>5, FS_Union, SMTT(30)
  <1>7. Cardinality({}) = 0
    BY FS_EmptySet
  <1>8. Cardinality(A) \in Nat /\ Cardinality(B) \in Nat
    BY <1>4, FS_CardinalityType
  <1> QED
    BY <1>4a, <1>5, <1>6, <1>7, <1>8, SMTT(30)

\* A single report counts or does not.
LEMMA CountOne ==
    ASSUME NEW m, NEW kinds
    PROVE  Count(<<m>>, kinds) = IF m.report \in kinds THEN 1 ELSE 0
  <1>1. DOMAIN <<m>> = {1} /\ <<m>>[1] = m
    BY SMTT(30)
  <1>2. CASE m.report \in kinds
    <2>1. {i \in DOMAIN <<m>> : <<m>>[i].report \in kinds} = {1}
      BY <1>1, <1>2
    <2> QED
      BY <1>2, <2>1, FS_Singleton DEF Count
  <1>3. CASE m.report \notin kinds
    <2>1. {i \in DOMAIN <<m>> : <<m>>[i].report \in kinds} = {}
      BY <1>1, <1>3
    <2> QED
      BY <1>3, <2>1, FS_EmptySet DEF Count
  <1> QED
    BY <1>2, <1>3

\* Where there is none there is none to count.
LEMMA CountNone ==
    ASSUME NEW s, NEW kinds, \A i \in DOMAIN s : s[i].report \notin kinds
    PROVE  Count(s, kinds) = 0
  <1>1. {i \in DOMAIN s : s[i].report \in kinds} = {}
    OBVIOUS
  <1> QED
    BY <1>1, FS_EmptySet DEF Count

-----------------------------------------------------------------------------
(* The reports on their way *)

\* The reports on their way are reports.
LEMMA IncomingType ==
    ASSUME TypeOK
    PROVE  /\ Incoming \in Seq(Reports) /\ gateway.held \in Seq(Reports)
           /\ reports \in Seq(Reports) /\ down \in Seq(Reports)
           /\ reports \o gateway.held \in Seq(Reports)
           /\ DOMAIN Incoming = 1..Len(Incoming) /\ Len(Incoming) \in Nat
  <1>1. gateway.held \in Seq(Reports) /\ reports \in Seq(Reports) /\ down \in Seq(Reports)
    BY DEF TypeOK, IsGateway
  <1>2. reports \o gateway.held \in Seq(Reports)
    BY <1>1, ConcatProperties
  <1>3. Incoming \in Seq(Reports)
    BY <1>1, <1>2, ConcatProperties DEF Incoming
  <1> QED
    BY <1>1, <1>2, <1>3, LenProperties

\* Each of them is a report.
LEMMA IncomingReports == ASSUME TypeOK PROVE \A i \in DOMAIN Incoming : Incoming[i] \in Reports
  <1>1. Incoming \in Seq(Reports)
    BY IncomingType
  <1> QED
    BY <1>1, LenProperties, ElementOfSeq

\* A sequence is its head followed by its tail.
LEMMA HeadAndTail ==
    ASSUME NEW S, NEW s \in Seq(S), s # <<>>
    PROVE  s = <<Head(s)>> \o Tail(s)
  <1> DEFINE m == Head(s)
             r == Tail(s)
  <1>1. m \in S /\ r \in Seq(S)
    BY HeadTailProperties
  <1>2. <<m>> \in Seq(S) /\ Len(<<m>>) = 1 /\ <<m>>[1] = m
    BY <1>1, SMTT(30)
  <1>3. /\ <<m>> \o r \in Seq(S) /\ Len(<<m>> \o r) = 1 + Len(r)
        /\ \A i \in 1..(1 + Len(r)) : (<<m>> \o r)[i] = IF i <= 1 THEN m ELSE r[i - 1]
    BY <1>1, <1>2, ConcatProperties, SMTT(30)
  <1>4. /\ Len(s) = 1 + Len(r) /\ s[1] = m /\ Len(r) \in Nat
        /\ \A i \in 1..Len(r) : r[i] = s[i + 1]
    BY HeadTailProperties, SMTT(30)
  <1>5. \A i \in 1..Len(s) : s[i] = (<<m>> \o r)[i]
    BY <1>3, <1>4, SMTT(30)
  <1> QED
    BY <1>1, <1>3, <1>4, <1>5, SeqEqual

\* Queues of reports may be joined in any order.
LEMMA ReportsJoin == \A a, b, c \in Seq(Reports) : (a \o b) \o c = a \o (b \o c)
  BY ConcatAssociative, SMTT(30)

\* The application takes the first of them.
LEMMA IncomingPopped ==
    ASSUME TypeOK, TypeOK', reports # <<>>, reports' = Tail(reports), UNCHANGED <<gateway, down>>
    PROVE  /\ Head(reports) \in Reports /\ Incoming = <<Head(reports)>> \o Incoming'
           /\ Incoming' \in Seq(Reports)
  <1> DEFINE m == Head(reports)
             r == Tail(reports)
             h == gateway.held
  <1>1. m \in Reports /\ r \in Seq(Reports) /\ h \in Seq(Reports) /\ down \in Seq(Reports)
        /\ reports \in Seq(Reports)
    BY IncomingType, HeadTailProperties
  <1>2. reports = <<m>> \o r
    BY <1>1, HeadAndTail
  <1> HIDE DEF m, r, h
  <1>3. /\ <<m>> \in Seq(Reports) /\ r \o h \in Seq(Reports) /\ <<m>> \o r \in Seq(Reports)
    BY <1>1, ConcatProperties, SMTT(30)
  <1>4. ((<<m>> \o r) \o h) \o down = <<m>> \o ((r \o h) \o down)
    <2> DEFINE v == <<m>>
               w == r \o h
    <2>1. v \in Seq(Reports) /\ w \in Seq(Reports)
      BY <1>3
    <2>2. (v \o r) \o h = v \o w
      BY <1>1, <2>1, ReportsJoin, SMTT(30)
    <2>3. (v \o w) \o down = v \o (w \o down)
      BY <1>1, <2>1, ReportsJoin, SMTT(30)
    <2> QED
      BY <2>2, <2>3
  <1>5. Incoming = (reports \o h) \o down /\ Incoming' = (r \o h) \o down
    BY DEF Incoming, h, r
  <1>6. Incoming' \in Seq(Reports)
    BY <1>1, <1>3, <1>5, ConcatProperties
  <1>7. Incoming = <<m>> \o Incoming'
    BY <1>2, <1>4, <1>5
  <1> QED
    BY <1>1, <1>6, <1>7 DEF m

\* Reading a frame and queueing it leave them as they are.
LEMMA IncomingMoved ==
    ASSUME TypeOK, TypeOK',
           \/ GatewayRead
           \/ GatewayPush /\ ~stopped
    PROVE  Incoming' = Incoming
  <1>1. /\ gateway.held \in Seq(Reports) /\ reports \in Seq(Reports) /\ down \in Seq(Reports)
        /\ IsGateway(gateway)
    BY IncomingType DEF TypeOK
  <1>2. CASE GatewayPush /\ ~stopped
    <2>0. /\ reports' = reports \o gateway.held /\ down' = down
          /\ gateway' = [gateway EXCEPT !.at = "signal", !.held = <<>>]
      BY <1>2 DEF GatewayPush, wire
    <2>1. gateway'.held = <<>>
      BY <1>1, <2>0 DEF IsGateway
    <2>2. (reports \o gateway.held) \o <<>> = reports \o gateway.held
      BY <1>1, ConcatEmptySeq, SMTT(30)
    <2> QED
      BY <2>0, <2>1, <2>2 DEF Incoming
  <1>3. CASE GatewayRead /\ down' = down /\ gateway' = [gateway EXCEPT !.at = "top", !.in = FALSE]
    <2>1. gateway'.held = gateway.held
      BY <1>1, <1>3 DEF IsGateway
    <2> QED
      BY <1>3, <2>1 DEF GatewayRead, Incoming
  <1>4. CASE /\ GatewayRead /\ down # <<>> /\ down' = Tail(down)
             /\ gateway' = [gateway EXCEPT !.at = "push", !.held = <<Head(down)>>]
    <2> DEFINE m == Head(down)
               t == Tail(down)
    <2>1. /\ down # <<>> /\ gateway.at = "read" /\ down' = t /\ reports' = reports
          /\ gateway' = [gateway EXCEPT !.at = "push", !.held = <<m>>]
      BY <1>4 DEF GatewayRead
    <2>2. gateway.held = <<>> /\ gateway'.held = <<m>>
      BY <1>1, <2>1 DEF IsGateway
    <2>3. m \in Reports /\ t \in Seq(Reports)
      BY <1>1, <2>1, HeadTailProperties
    <2>4. down = <<m>> \o t
      BY <1>1, <2>1, HeadAndTail
    <2> HIDE DEF m, t
    <2>5. <<m>> \in Seq(Reports)
      BY <2>3, SMTT(30)
    <2>6. (reports \o <<m>>) \o t = reports \o (<<m>> \o t)
      BY <1>1, <2>3, <2>5, ReportsJoin, SMTT(30)
    <2>7. reports \o <<>> = reports
      BY <1>1, ConcatEmptySeq
    <2>8. Incoming' = (reports \o <<m>>) \o t /\ Incoming = (reports \o <<>>) \o down
      BY <2>1, <2>2 DEF Incoming
    <2> QED
      BY <2>4, <2>6, <2>7, <2>8
  <1> QED
    BY <1>2, <1>3, <1>4 DEF GatewayRead

\* What the exchange sends joins them at the end, while there is a connection.
LEMMA IncomingAnswered ==
    ASSUME TypeOK, NEW s \in Seq(Reports), UNCHANGED <<reports, gateway>>,
           down' = IF open THEN down \o s ELSE down
    PROVE  Incoming' = IF open THEN Incoming \o s ELSE Incoming
  <1>1. /\ Incoming \in Seq(Reports) /\ gateway.held \in Seq(Reports) /\ reports \in Seq(Reports)
        /\ down \in Seq(Reports) /\ reports \o gateway.held \in Seq(Reports)
    BY IncomingType
  <1> DEFINE h == reports \o gateway.held
  <1>2. Incoming = h \o down /\ Incoming' = h \o down' /\ h \in Seq(Reports)
    BY <1>1 DEF Incoming
  <1> HIDE DEF h
  <1>3. (h \o down) \o s = h \o (down \o s)
    <2>1. h \in Seq(Reports) /\ down \in Seq(Reports) /\ s \in Seq(Reports)
      BY <1>1, <1>2
    <2> QED
      BY <2>1, ReportsJoin
  <1> QED
    BY <1>2, <1>3

\* What is lost with the connection is the end of them.
LEMMA IncomingBroken ==
    ASSUME TypeOK, Break
    PROVE  \E rest \in Seq(Reports) : Incoming = Incoming' \o rest /\ Incoming' \in Seq(Reports)
  <1>1. /\ Incoming \in Seq(Reports) /\ gateway.held \in Seq(Reports) /\ reports \in Seq(Reports)
        /\ down \in Seq(Reports) /\ reports \o gateway.held \in Seq(Reports)
    BY IncomingType
  <1>2. reports' = reports /\ gateway' = gateway
    BY DEF Break
  <1>3. CASE down' = down
    <2>1. Incoming' = Incoming
      BY <1>2, <1>3 DEF Incoming
    <2>2. <<>> \in Seq(Reports)
      BY EmptySeq
    <2>3. Incoming \o <<>> = Incoming
      BY <1>1, ConcatEmptySeq
    <2>4. Incoming = Incoming' \o <<>>
      BY <2>1, <2>3
    <2> QED
      BY <1>1, <2>1, <2>2, <2>4
  <1>4. CASE down' = <<>>
    <2> DEFINE h == reports \o gateway.held
    <2>1. Incoming = h \o down /\ Incoming' = h \o <<>> /\ h \in Seq(Reports)
      BY <1>1, <1>2, <1>4 DEF Incoming
    <2> HIDE DEF h
    <2>2. h \o <<>> = h
      BY <2>1, ConcatEmptySeq
    <2> QED
      BY <1>1, <2>1, <2>2, SMTT(30)
  <1> QED
    BY <1>3, <1>4 DEF Break

-----------------------------------------------------------------------------
(* Steps that leave the reports and the orders alone *)

\* While the application is between two commands no order is news to it, and
\* in a command a step that neither begins nor ends it changes nothing.
LEMMA QuietSteps ==
    ASSUME Incoming' = Incoming, UNCHANGED <<working, orders, last_request, open>>,
           ~Submitted \/ (Submitted' /\ request_id' = request_id),
           ReportsInOrder, OrdersKnown
    PROVE  ReportsInOrder' /\ OrdersKnown'
  <1>1. ReportsInOrder'
    BY SMTT(30) DEF ReportsInOrder, Done
  <1>2. Count(Incoming, {"Accepted"})' = Count(Incoming, {"Accepted"})
        /\ Count(Incoming, {"Fill", "Cancelled"})' = Count(Incoming, {"Fill", "Cancelled"})
    BY DEF Count
  <1>3. Doomed => Doomed'
    BY DEF Doomed, Done
  <1> QED
    BY <1>1, <1>2, <1>3 DEF OrdersKnown

\* The requests on their way, of which there is at most one.
LEMMA QueueLengths ==
    ASSUME TypeOK
    PROVE  /\ Len(requests) \in Nat /\ Len(output) \in Nat /\ Len(up) \in Nat
           /\ DOMAIN requests = 1..Len(requests) /\ DOMAIN output = 1..Len(output)
           /\ DOMAIN up = 1..Len(up)
           /\ Len(requests) = 0 => requests = <<>>
           /\ Len(output) = 0 => output = <<>>
           /\ Len(up) = 0 => up = <<>>
  BY LenProperties, EmptySeq DEF TypeOK

\* Between two commands there is none.
LEMMA NoneQueued ==
    ASSUME TypeOK, OneRequest, ~Submitted
    PROVE  /\ Len(requests) = 0 /\ Len(output) = 0 /\ Len(up) = 0
           /\ requests = <<>> /\ output = <<>> /\ up = <<>>
  BY QueueLengths, SMTT(30) DEF OneRequest

-----------------------------------------------------------------------------
(* The ways of the application *)

\* The application goes on with its command.
GoesOn(at) ==
    /\ app'.at = at /\ app'.mode = app.mode /\ app'.action = app.action /\ app'.cancel = app.cancel

\* The application has thrown.
Throws ==
    /\ app'.mode = IF app.mode = "failed" THEN "unwinding" ELSE "failed"
    /\ app'.at = IF app.mode = "failed" THEN "stop" ELSE "close"

\* It begins a call.
Begins(action, mode) ==
    /\ app'.at = "drain" /\ app'.mode = mode /\ app'.action = action /\ app'.cancel = app.cancel

\* Going on, throwing and returning.
LEMMA AppGoes ==
    ASSUME app \in Apps
    PROVE  /\ \A at \in AppPlaces : app' = Goto(app, at) => GoesOn(at)
           /\ app' = Thrown(app) => Throws
           /\ app' = Returned(app) => GoesOn(IF app.mode = "run" THEN "idle" ELSE "check")
  <1>1. ASSUME NEW at \in AppPlaces, app' = Goto(app, at) PROVE GoesOn(at)
    <2>1. /\ Goto(app, at).at = at /\ Goto(app, at).mode = app.mode
          /\ Goto(app, at).action = app.action /\ Goto(app, at).cancel = app.cancel
      BY AppMoves
    <2> QED
      BY <1>1, <2>1 DEF GoesOn
  <1>2. ASSUME app' = Thrown(app) PROVE Throws
    <2>1. CASE app.mode = "failed"
      BY <1>2, <2>1 DEF Apps, Thrown, Throws
    <2>2. CASE app.mode # "failed"
      BY <1>2, <2>2 DEF Apps, Thrown, Throws
    <2> QED
      BY <2>1, <2>2
  <1>3. ASSUME app' = Returned(app) PROVE GoesOn(IF app.mode = "run" THEN "idle" ELSE "check")
    BY <1>3, AppMoves DEF GoesOn, AppPlaces
  <1> QED
    BY <1>1, <1>2, <1>3

\* Beginning a call.
LEMMA AppBeginsCall ==
    ASSUME app \in Apps, NEW action \in Actions
    PROVE  /\ app' = [app EXCEPT !.at = "drain", !.action = action] => Begins(action, app.mode)
           /\ app' = [app EXCEPT !.at = "drain", !.action = action, !.mode = "closing"] =>
                  Begins(action, "closing")
  <1> DEFINE b == [app EXCEPT !.at = "drain", !.action = action]
             c == [app EXCEPT !.at = "drain", !.action = action, !.mode = "closing"]
  <1>1. /\ b.at = "drain" /\ b.action = action /\ b.mode = app.mode /\ b.cancel = app.cancel
        /\ c.at = "drain" /\ c.action = action /\ c.mode = "closing" /\ c.cancel = app.cancel
    BY DEF Apps
  <1> HIDE DEF b, c
  <1>2. (app' = b => Begins(action, app.mode)) /\ (app' = c => Begins(action, "closing"))
    BY <1>1 DEF Begins
  <1> QED
    BY <1>2 DEF b, c

\* What each of its steps does to it.
LEMMA AppSteps ==
    ASSUME app \in Apps
    PROVE  /\ \A action \in Actions : AppCalls(action) => Begins(action, app.mode)
           /\ AppFinish => Begins("poll", "closing")
           /\ AppDrain => GoesOn("drain_pop") \/ Throws
           /\ AppDrainPop => GoesOn("drain") \/ GoesOn("drained") \/ Throws
           /\ AppPush => GoesOn("signal") \/ Throws
           /\ AppSignal => GoesOn("wait") \/ Throws
           /\ AppWait => GoesOn("wait_pop") \/ Throws
           /\ AppPoll => GoesOn("wait_pop")
           /\ AppDeadline => Throws
           /\ AppCheck => GoesOn("stop") \/ Throws
           /\ AppStop => GoesOn("join")
           /\ AppJoin => IF app.mode = "closing" THEN GoesOn("recover") ELSE GoesOn("error")
           /\ AppRecover => GoesOn("ok") \/ GoesOn("error")
           /\ AppDrained => \/ app.action # "CancelAll" /\ Throws
                            \/ /\ app.action = "poll"
                               /\ IF app.mode = "closing" THEN GoesOn("close") ELSE GoesOn("idle")
                            \/ app.action # "poll" /\ GoesOn("push")
           /\ AppClose => \/ app.cancel /\ working > 0 /\ Begins("CancelAll", app.mode)
                          \/ ~(app.cancel /\ working > 0) /\ GoesOn("check")
           /\ AppWaitPop => \/ GoesOn("wait") \/ GoesOn("poll") \/ Throws
                            \/ GoesOn(IF app.mode = "run" THEN "idle" ELSE "check")
  <1>1. /\ \A at \in AppPlaces : app' = Goto(app, at) => GoesOn(at)
        /\ app' = Thrown(app) => Throws
        /\ app' = Returned(app) => GoesOn(IF app.mode = "run" THEN "idle" ELSE "check")
    BY AppGoes
  <1>2. /\ \A action \in Actions : AppCalls(action) => Begins(action, app.mode)
        /\ AppFinish => Begins("poll", "closing")
    BY AppBeginsCall DEF AppCalls, AppFinish, Actions
  <1>3. /\ AppDrain => GoesOn("drain_pop") \/ Throws
        /\ AppSignal => GoesOn("wait") \/ Throws
        /\ AppWait => GoesOn("wait_pop") \/ Throws
        /\ AppCheck => GoesOn("stop") \/ Throws
    BY <1>1 DEF AppDrain, AppSignal, AppWait, AppCheck, AppPlaces
  <1>4. /\ AppDrainPop => GoesOn("drain") \/ GoesOn("drained") \/ Throws
        /\ AppWaitPop => \/ GoesOn("wait") \/ GoesOn("poll") \/ Throws
                         \/ GoesOn(IF app.mode = "run" THEN "idle" ELSE "check")
    BY <1>1 DEF AppDrainPop, AppWaitPop, AppPlaces
  <1>5. AppPush => GoesOn("signal") \/ Throws
    <2>1. AppPush => app' = Goto(app, "signal") \/ app' = Thrown(app)
      BY DEF AppPush
    <2> QED
      BY <1>1, <2>1 DEF AppPlaces
  <1>5a. (AppPoll => GoesOn("wait_pop")) /\ (AppDeadline => Throws)
    <2>1. (AppPoll => app' = Goto(app, "wait_pop")) /\ (AppDeadline => app' = Thrown(app))
      BY DEF AppPoll, AppDeadline
    <2> QED
      BY <1>1, <2>1 DEF AppPlaces
  <1>6. /\ AppStop => GoesOn("join")
        /\ AppJoin => IF app.mode = "closing" THEN GoesOn("recover") ELSE GoesOn("error")
        /\ AppRecover => GoesOn("ok") \/ GoesOn("error")
    BY <1>1 DEF AppStop, AppJoin, AppRecover, AppPlaces
  <1>7. AppDrained => \/ app.action # "CancelAll" /\ Throws
                      \/ /\ app.action = "poll"
                         /\ IF app.mode = "closing" THEN GoesOn("close") ELSE GoesOn("idle")
                      \/ app.action # "poll" /\ GoesOn("push")
    BY <1>1 DEF AppDrained, AppPlaces
  <1>8. AppClose => \/ app.cancel /\ working > 0 /\ Begins("CancelAll", app.mode)
                    \/ ~(app.cancel /\ working > 0) /\ GoesOn("check")
    BY <1>1, AppBeginsCall DEF AppClose, AppPlaces, Actions
  <1> QED
    BY <1>2, <1>3, <1>4, <1>5, <1>5a, <1>6, <1>7, <1>8, SMTT(30)

\* The other steps leave the application alone.
LEMMA OthersLeaveApp ==
    ASSUME Gateway \/ SubscriberEnds \/ SubscriberFails \/ SubscriberFailed \/ Serve \/ Trade \/ Break
    PROVE  app' = app
  <1>1. CASE Gateway
    BY <1>1 DEF Gateway, GatewayTop, GatewayPop, GatewayPoll, GatewayFlush, GatewayRead,
                GatewayPush, GatewaySignal, GatewayFails, GatewayFailed, appVars
  <1>2. CASE SubscriberEnds \/ SubscriberFails \/ SubscriberFailed \/ Serve \/ Trade \/ Break
    BY <1>2 DEF SubscriberEnds, SubscriberFails, SubscriberFailed, Serve, Trade, Break, appVars
  <1> QED
    BY <1>1, <1>2

\* The application keeps to its ways.
LEMMA StepKeepsWays == ASSUME TypeOK, Ways, [Next]_vars PROVE Ways'
  <1>1. app \in Apps
    BY DEF TypeOK
  <1> USE DEF Ways
  <1>2. ASSUME NEW action \in Actions, AppCalls(action) PROVE Ways'
    <2>1. Begins(action, app.mode)
      BY <1>1, <1>2, AppSteps
    <2> QED
      BY <1>2, <2>1 DEF Begins, AppCalls
  <1>3. CASE AppFinish
    BY <1>1, <1>3, AppSteps DEF Begins
  <1>4. CASE Throws
    BY <1>1, <1>4 DEF Throws
  <1>5. CASE AppDrain \/ AppDrainPop
    <2>1. Throws \/ GoesOn("drain_pop") \/ GoesOn("drain") \/ GoesOn("drained")
      BY <1>1, <1>5, AppSteps
    <2>2. app.at \in {"drain", "drain_pop"}
      BY <1>5 DEF AppDrain, AppDrainPop
    <2> QED
      BY <1>4, <2>1, <2>2 DEF GoesOn
  <1>5a. CASE AppPush \/ AppSignal \/ AppWait \/ AppPoll \/ AppDeadline
    <2>1. Throws \/ GoesOn("signal") \/ GoesOn("wait") \/ GoesOn("wait_pop")
      BY <1>1, <1>5a, AppSteps
    <2>2. app.at \in {"push", "signal", "wait", "wait_pop", "poll"}
      BY <1>5a DEF AppPush, AppSignal, AppWait, AppPoll, AppDeadline
    <2> QED
      BY <1>4, <2>1, <2>2 DEF GoesOn
  <1>6. CASE AppWaitPop
    BY <1>1, <1>4, <1>6, AppSteps DEF GoesOn, AppWaitPop
  <1>7. CASE AppDrained
    BY <1>1, <1>4, <1>7, AppSteps DEF GoesOn, AppDrained, Apps
  <1>8. CASE AppClose
    BY <1>1, <1>8, AppSteps, SMTT(30) DEF GoesOn, Begins, AppClose
  <1>9. CASE AppCheck
    BY <1>1, <1>4, <1>9, AppSteps DEF GoesOn, AppCheck
  <1>10. CASE AppStop \/ AppJoin \/ AppRecover
    <2>1. \/ app.at = "stop" /\ GoesOn("join")
          \/ /\ app.at = "join"
             /\ IF app.mode = "closing" THEN GoesOn("recover") ELSE GoesOn("error")
          \/ app.at = "recover" /\ (GoesOn("ok") \/ GoesOn("error"))
      BY <1>1, <1>10, AppSteps DEF AppStop, AppJoin, AppRecover
    <2> QED
      BY <2>1 DEF GoesOn
  <1>11. CASE app' = app
    BY <1>11
  <1> QED
    BY <1>2, <1>3, <1>5, <1>5a, <1>6, <1>7, <1>8, <1>9, <1>10, <1>11, OthersLeaveApp, SMTT(30)
       DEF Next, App, Actions, vars, appVars

\* Where the gateway thread goes from a read and from a push.
LEMMA ReadAndPushEnd ==
    ASSUME TypeOK
    PROVE  /\ GatewayRead => gateway'.at \in {"push", "top"}
           /\ GatewayPush => gateway'.at \in {"signal", "top"}
  <1>1. ASSUME NEW held, gateway' = [gateway EXCEPT !.at = "push", !.held = held]
        PROVE  gateway'.at = "push"
    BY <1>1 DEF TypeOK, IsGateway
  <1>2. ASSUME gateway' = [gateway EXCEPT !.at = "top", !.in = FALSE]
        PROVE  gateway'.at = "top"
    BY <1>2 DEF TypeOK, IsGateway
  <1>3. GatewayRead => gateway'.at \in {"push", "top"}
    BY <1>1, <1>2 DEF GatewayRead
  <1>4. ASSUME gateway' = [gateway EXCEPT !.at = "signal", !.held = <<>>]
        PROVE  gateway'.at = "signal"
    BY <1>4 DEF TypeOK, IsGateway
  <1>5. ASSUME gateway' = [gateway EXCEPT !.at = "top", !.in = FALSE, !.held = <<>>]
        PROVE  gateway'.at = "top"
    BY <1>5 DEF TypeOK, IsGateway
  <1>6. GatewayPush => gateway'.at \in {"signal", "top"}
    BY <1>4, <1>5 DEF GatewayPush
  <1> QED
    BY <1>3, <1>6

\* An error that is due stays due, and one that was stored stays.
LEMMA StepKeepsFailures ==
    ASSUME TypeOK, FailuresShow, [Next]_vars
    PROVE  FailuresShow' /\ (error => error')
  <1>1. CASE \/ \E action \in Actions : AppCalls(action)
             \/ AppFinish \/ App \/ AppDeadline \/ Serve \/ Trade \/ Break \/ UNCHANGED vars
    <2>1. UNCHANGED <<subscriber, gateway, error>>
      BY <1>1 DEF AppCalls, AppFinish, App, AppDrain, AppDrainPop, AppDrained, AppPush, AppSignal,
            AppWait, AppWaitPop, AppPoll, AppDeadline, AppClose, AppCheck, AppStop, AppJoin, AppRecover,
            Serve, Trade, Break, flags, vars
    <2> QED
      BY <2>1 DEF FailuresShow
  <1>2. CASE GatewayTop \/ GatewayPop \/ GatewaySignal
    <2>1. gateway'.at # "failing"
      BY <1>2, GatewayMoves, SMTT(30) DEF TypeOK, GatewayPlaces, GatewayTop, GatewayPop, GatewaySignal
    <2>2. UNCHANGED <<subscriber, error>>
      BY <1>2 DEF GatewayTop, GatewayPop, GatewaySignal, flags
    <2> QED
      BY <2>1, <2>2 DEF FailuresShow
  <1>3. CASE GatewayPoll
    <2>1. gateway'.at # "failing"
      BY <1>3, PollEnds
    <2>2. UNCHANGED <<subscriber, error>>
      BY <1>3 DEF GatewayPoll, flags
    <2> QED
      BY <2>1, <2>2 DEF FailuresShow
  <1>4. CASE GatewayFlush \/ GatewayRead \/ GatewayPush
    <2>1. gateway'.at # "failing"
      <3>1. GatewayFlush => gateway'.at = "read"
        BY DEF TypeOK, IsGateway, GatewayFlush
      <3> QED
        BY <1>4, <3>1, ReadAndPushEnd
    <2>2. UNCHANGED <<subscriber, error>>
      BY <1>4 DEF GatewayFlush, GatewayRead, GatewayPush, flags
    <2> QED
      BY <2>1, <2>2 DEF FailuresShow
  <1>5. CASE GatewayFails \/ SubscriberFails
    BY <1>5 DEF GatewayFails, SubscriberFails, FailuresShow
  <1>6. CASE GatewayFailed \/ SubscriberEnds \/ SubscriberFailed
    <2>1. /\ error' = error
          /\ gateway' = gateway \/ (gateway' = Goto(gateway, "end") /\ gateway.at = "failing")
      BY <1>6 DEF GatewayFailed, SubscriberEnds, SubscriberFailed, flags
    <2>1a. subscriber' = subscriber \/ subscriber' = "end"
      BY <1>6 DEF GatewayFailed, SubscriberEnds, SubscriberFailed
    <2>2. gateway' = gateway \/ gateway'.at # "failing"
      BY <2>1, GatewayMoves, SMTT(30) DEF TypeOK, GatewayPlaces
    <2>3. "end" # "failing"
      OBVIOUS
    <2> QED
      BY <2>1, <2>1a, <2>2, <2>3 DEF FailuresShow
  <1> QED
    BY <1>1, <1>2, <1>3, <1>4, <1>5, <1>6 DEF Next, Gateway, Actions

\* An application that is well was well before: an error stays, and what was
\* thrown or closed is not taken back.
LEMMA HealthyBefore ==
    ASSUME TypeOK, Ways, FailuresShow, Next, Healthy'
    PROVE  Healthy
  <1> DEFINE Over == {"stop", "join", "recover", "ok", "error"}
             Well == {"run", "closing"}
  <1>1. app \in Apps
    BY DEF TypeOK
  <1>2. app'.mode \in Well /\ app'.at \notin Over /\ ~error
    BY StepKeepsFailures DEF Healthy
  <1>3. ~Throws
    BY <1>2 DEF Throws
  <1>4. SUFFICES app.mode \in Well /\ app.at \notin Over
    BY <1>2 DEF Healthy
  <1>5. ASSUME NEW action \in Actions, AppCalls(action)
        PROVE  app.mode \in Well /\ app.at \notin Over
    BY <1>5 DEF AppCalls, Ways
  <1>6. CASE AppFinish
    BY <1>6 DEF AppFinish, Ways
  <1>7. CASE AppDrain \/ AppDrainPop \/ AppDrained \/ AppPush \/ AppSignal \/ AppWait \/ AppWaitPop
             \/ AppPoll \/ AppClose
    <2>1. app'.mode = app.mode
      BY <1>1, <1>3, <1>7, AppSteps DEF GoesOn, Begins
    <2>2. app.at \notin Over
      BY <1>7 DEF AppDrain, AppDrainPop, AppDrained, AppPush, AppSignal, AppWait, AppWaitPop,
                  AppPoll, AppClose
    <2> QED
      BY <1>2, <2>1, <2>2, SMTT(30)
  <1>8. CASE AppCheck \/ AppStop \/ AppJoin \/ AppRecover \/ AppDeadline
    BY <1>1, <1>2, <1>3, <1>8, AppSteps DEF GoesOn
  <1>9. CASE app' = app
    BY <1>2, <1>9
  <1> QED
    BY <1>5, <1>6, <1>7, <1>8, <1>9, OthersLeaveApp DEF Next, App, Actions

-----------------------------------------------------------------------------
(* The steps of the application *)

\* The requests on their way stay the ones of the application.
LEMMA QueueStays ==
    ASSUME TypeOK, OneRequest, UNCHANGED <<requests, output, up, last_request>>,
           \/ Submitted /\ Submitted' /\ request_id' = request_id /\ app'.action = app.action
           \/ /\ ~Submitted /\ ~Submitted'
              /\ last_request = IF app'.at = "push" THEN request_id' - 1 ELSE request_id'
    PROVE  OneRequest'
  <1>1. CASE Submitted
    BY <1>1 DEF OneRequest, Mine
  <1>2. CASE ~Submitted
    <2>1. /\ Len(requests) = 0 /\ Len(output) = 0 /\ Len(up) = 0
          /\ DOMAIN requests = {} /\ DOMAIN output = {} /\ DOMAIN up = {}
      BY <1>2, NoneQueued, QueueLengths, SMTT(30)
    <2> QED
      BY <1>2, <2>1 DEF OneRequest, Mine
  <1> QED
    BY <1>1, <1>2

\* A step of the application that neither sends nor receives.
LEMMA AppQuiet ==
    ASSUME SessionInv, Healthy, Healthy', OneRequest', CancelledAll',
           UNCHANGED <<working, requests, reports, gateway, output, up, down, open, stopped,
                       orders, last_request>>,
           ~Submitted \/ (Submitted' /\ request_id' = request_id)
    PROVE  Orderly'
  <1>1. Orderly
    BY DEF SessionInv
  <1>2. Incoming' = Incoming
    BY DEF Incoming
  <1>3. ReportsInOrder' /\ OrdersKnown'
    BY <1>1, <1>2, QuietSteps DEF Orderly
  <1> QED
    BY <1>1, <1>3 DEF Orderly

\* Beginning a call.
LEMMA CallStep ==
    ASSUME SessionInv, Healthy, Healthy',
           (\E action \in Actions : AppCalls(action)) \/ AppFinish
    PROVE  Orderly'
  <1>1. OneRequest /\ CancelledAll /\ TypeOK /\ Ways /\ app \in Apps
    BY DEF SessionInv, Orderly, TypeOK
  <1>2. /\ app.at = "idle" /\ app.mode = "run" /\ app'.at = "drain" /\ app'.mode \in {"run", "closing"}
        /\ app'.mode = "closing" => app'.action = "poll"
    <2>1. app.at = "idle" /\ app.mode = "run"
      BY <1>1 DEF AppCalls, AppFinish, Ways
    <2>2. (\E action \in Actions : Begins(action, app.mode)) \/ Begins("poll", "closing")
      BY <1>1, AppSteps
    <2> QED
      BY <2>1, <2>2 DEF Begins
  <1>3. UNCHANGED <<request_id, working, requests, reports, gateway, output, up, down, open,
                    stopped, orders, last_request>>
    BY DEF AppCalls, AppFinish, flags, wire, exchange
  <1>4. ~Submitted /\ ~Submitted'
    BY <1>2 DEF Submitted
  <1>5. last_request = request_id
    BY <1>1, <1>2, <1>4 DEF OneRequest
  <1>6. OneRequest'
    BY <1>1, <1>2, <1>3, <1>4, <1>5, QueueStays
  <1>7. CancelledAll'
    BY <1>1, <1>2, <1>3, <1>4 DEF CancelledAll
  <1> QED
    BY <1>3, <1>4, <1>6, <1>7, AppQuiet

\* A call that is not through with the reports in the queue, and one that goes
\* on when there are none.
LEMMA DrainStep ==
    ASSUME SessionInv, Healthy, Healthy', AppDrain \/ (AppDrainPop /\ reports = <<>>)
    PROVE  Orderly'
  <1>1. OneRequest /\ CancelledAll /\ TypeOK /\ app \in Apps
    BY DEF SessionInv, Orderly, TypeOK
  <1>2. /\ app.at \in {"drain", "drain_pop"}
        /\ GoesOn("drain_pop") \/ GoesOn("drain") \/ GoesOn("drained")
    <2>1. app.at \in {"drain", "drain_pop"}
      BY DEF AppDrain, AppDrainPop
    <2>2. ~Throws
      BY DEF Healthy, Throws
    <2> QED
      BY <1>1, <2>1, <2>2, AppSteps
  <1>3. UNCHANGED <<request_id, working, requests, reports, gateway, output, up, down, open,
                    stopped, orders, last_request>>
    BY DEF AppDrain, AppDrainPop, flags, wire, exchange
  <1>4. ~Submitted /\ ~Submitted'
    BY <1>2 DEF Submitted, GoesOn
  <1>5. last_request = request_id
    BY <1>1, <1>2, <1>4 DEF OneRequest
  <1>6. OneRequest'
    BY <1>1, <1>2, <1>3, <1>4, <1>5, QueueStays, SMTT(30) DEF GoesOn
  <1>7. CancelledAll'
    BY <1>1, <1>2, <1>3, <1>4 DEF CancelledAll, GoesOn
  <1> QED
    BY <1>3, <1>4, <1>6, <1>7, AppQuiet

\* The next request has the next number.
LEMMA DrainedStep == ASSUME SessionInv, Healthy, Healthy', AppDrained PROVE Orderly'
  <1>1. OneRequest /\ CancelledAll /\ TypeOK /\ app \in Apps /\ app.mode \in {"run", "closing"}
    BY DEF SessionInv, Orderly, TypeOK, Healthy
  <1>2. ~Throws
    BY SMTT(30) DEF Healthy, Throws
  <1>3. /\ app.at = "drained"
        /\ \/ /\ app.action = "poll" /\ request_id' = request_id
              /\ IF app.mode = "closing" THEN GoesOn("close") ELSE GoesOn("idle")
           \/ app.action # "poll" /\ GoesOn("push") /\ request_id' = request_id + 1
    <2>1. \/ app.action = "poll" /\ request_id' = request_id
          \/ app.action # "poll" /\ request_id' = request_id + 1
          \/ app' = Thrown(app)
      BY DEF AppDrained
    <2>2. app' # Thrown(app)
      BY <1>1, <1>2, AppGoes
    <2> QED
      BY <1>1, <1>2, <2>1, <2>2, AppSteps DEF AppDrained
  <1>4. UNCHANGED <<working, requests, reports, gateway, output, up, down, open,
                    stopped, orders, last_request>>
    BY DEF AppDrained, flags, wire, exchange
  <1>5. ~Submitted /\ ~Submitted'
    BY <1>3 DEF Submitted, GoesOn
  <1>6. last_request = request_id /\ request_id \in Nat
    BY <1>1, <1>3, <1>5 DEF OneRequest, TypeOK
  <1>7. OneRequest'
    <2>1. last_request = IF app'.at = "push" THEN request_id' - 1 ELSE request_id'
      BY <1>3, <1>6, SMTT(30) DEF GoesOn
    <2> QED
      BY <1>1, <1>4, <1>5, <2>1, QueueStays
  <1>8. CancelledAll'
    BY <1>1, <1>3, <1>4, <1>5 DEF CancelledAll, GoesOn
  <1> QED
    BY <1>4, <1>5, <1>7, <1>8, AppQuiet

\* close cancels, or there is nothing to cancel: no order is news to the
\* application, so it knows of all of them.
LEMMA CloseStep == ASSUME SessionInv, Healthy, Healthy', AppClose PROVE Orderly'
  <1>1. /\ OneRequest /\ CancelledAll /\ ReportsInOrder /\ OrdersKnown
        /\ TypeOK /\ app \in Apps /\ orders \in Nat /\ working \in Int
    BY DEF SessionInv, Orderly, TypeOK
  <1>2. /\ app.at = "close"
        /\ \/ app.cancel /\ working > 0 /\ Begins("CancelAll", app.mode)
           \/ ~(app.cancel /\ working > 0) /\ GoesOn("check")
    BY <1>1, AppSteps DEF AppClose
  <1>3. UNCHANGED <<request_id, working, requests, reports, gateway, output, up, down, open,
                    stopped, orders, last_request>>
    BY DEF AppClose, flags, wire, exchange
  <1>4. ~Submitted /\ ~Submitted'
    BY <1>2 DEF Submitted, GoesOn, Begins
  <1>5. OneRequest'
    <2>1. last_request = request_id /\ app'.at # "push"
      BY <1>1, <1>2, <1>4 DEF OneRequest, GoesOn, Begins
    <2> QED
      BY <1>1, <1>3, <1>4, <2>1, QueueStays
  <1>6. ~(working > 0) => orders = 0
    <2>0. \A i \in DOMAIN Incoming : Incoming[i].report \notin {"Accepted"}
      BY <1>1, <1>4 DEF ReportsInOrder
    <2>1. Count(Incoming, {"Accepted"}) = 0
      BY <2>0, CountNone
    <2>2. Count(Incoming, {"Fill", "Cancelled"}) \in Nat
      <3>1. Incoming \in Seq(Reports)
        BY <1>1, IncomingType
      <3> QED
        BY <3>1, CountNat
    <2>3. ~Doomed
      BY <1>4 DEF Doomed
    <2> QED
      BY <1>1, <2>1, <2>2, <2>3, SMTT(30) DEF OrdersKnown
  <1>7. CancelledAll'
    BY <1>1, <1>2, <1>3, <1>4, <1>6 DEF CancelledAll, GoesOn, Begins
  <1> QED
    BY <1>3, <1>4, <1>5, <1>7, AppQuiet

\* The request is pushed into an empty queue.
LEMMA PushStep == ASSUME SessionInv, Healthy, Healthy', AppPush PROVE Orderly'
  <1> DEFINE r == [request_id |-> request_id, action |-> app.action]
  <1>1. Orderly /\ TypeOK /\ app \in Apps /\ request_id \in Nat
    BY DEF SessionInv, TypeOK
  <1>2. ~Throws
    BY DEF Healthy, Throws
  <1>3. app.at = "push" /\ GoesOn("signal") /\ requests' = Append(requests, r)
    <2>1. app.at = "push" /\ (requests' = Append(requests, r) \/ app' = Thrown(app))
      BY DEF AppPush
    <2>2. app' # Thrown(app)
      BY <1>1, <1>2, AppGoes
    <2>3. GoesOn("signal")
      BY <1>1, <1>2, AppSteps
    <2> QED
      BY <2>1, <2>2, <2>3
  <1>4. UNCHANGED <<request_id, working, reports, gateway, output, up, down, open,
                    stopped, orders, last_request>>
    BY DEF AppPush, flags, wire, exchange
  <1>5. ~Submitted /\ Submitted'
    BY <1>3 DEF Submitted, GoesOn
  <1>6. requests = <<>> /\ Len(output) = 0 /\ Len(up) = 0 /\ DOMAIN output = {} /\ DOMAIN up = {}
    BY <1>1, <1>5, NoneQueued, QueueLengths, SMTT(30) DEF Orderly
  <1>7. r.request_id = request_id /\ r.action = app.action
    OBVIOUS
  <1>8. requests' = <<r>>
    BY <1>3, <1>6, SMTT(30)
  <1>9. last_request = request_id - 1
    BY <1>1, <1>3, <1>5 DEF Orderly, OneRequest
  <1> HIDE DEF r
  <1>10. Len(requests') = 1 /\ DOMAIN requests' = {1} /\ requests'[1] = r
    BY <1>8, SMTT(30)
  <1>11. OneRequest'
    <2>1. Mine(requests)' /\ Mine(output)' /\ Mine(up)'
      BY <1>3, <1>4, <1>6, <1>7, <1>10 DEF Mine, GoesOn
    <2> QED
      BY <1>1, <1>4, <1>5, <1>6, <1>9, <1>10, <2>1, SMTT(30) DEF OneRequest
  <1>12. CancelledAll'
    BY <1>1, <1>3, <1>4, <1>9, SMTT(30) DEF Orderly, CancelledAll, GoesOn
  <1>13. ReportsInOrder' /\ OrdersKnown'
    <2>1. Incoming' = Incoming
      BY <1>4 DEF Incoming
    <2> QED
      BY <1>1, <1>4, <1>5, <2>1, QuietSteps DEF Orderly
  <1> QED
    BY <1>1, <1>4, <1>11, <1>12, <1>13 DEF Orderly

\* A command in which nothing arrives.
LEMMA WaitStep ==
    ASSUME SessionInv, Healthy, Healthy',
           AppSignal \/ AppWait \/ AppPoll \/ (AppWaitPop /\ reports = <<>>)
    PROVE  Orderly'
  <1>1. OneRequest /\ CancelledAll /\ TypeOK /\ app \in Apps
    BY DEF SessionInv, Orderly, TypeOK
  <1>2. ~Throws
    BY DEF Healthy, Throws
  <1>3. /\ app.at \in {"signal", "wait", "wait_pop", "poll"}
        /\ GoesOn("wait") \/ GoesOn("wait_pop") \/ GoesOn("poll")
    <2>1. app.at \in {"signal", "wait", "wait_pop", "poll"}
      BY DEF AppSignal, AppWait, AppPoll, AppWaitPop
    <2>2. AppWaitPop /\ reports = <<>> => GoesOn("poll")
      <3>1. AppWaitPop /\ reports = <<>> => app' = Thrown(app) \/ app' = Goto(app, "poll")
        BY DEF AppWaitPop
      <3> QED
        BY <1>1, <1>2, <3>1, AppGoes, SMTT(30) DEF AppPlaces
    <2> QED
      BY <1>1, <1>2, <2>1, <2>2, AppSteps
  <1>4. UNCHANGED <<request_id, working, requests, reports, gateway, output, up, down, open,
                    stopped, orders, last_request>>
    BY DEF AppSignal, AppWait, AppPoll, AppWaitPop, flags, wire, exchange
  <1>5. Submitted /\ Submitted' /\ app'.action = app.action
    BY <1>3, SMTT(30) DEF Submitted, GoesOn
  <1>6. OneRequest'
    BY <1>1, <1>4, <1>5, QueueStays, SMTT(30)
  <1>7. CancelledAll'
    BY <1>1, <1>3, <1>4, <1>5 DEF CancelledAll, GoesOn
  <1> QED
    BY <1>4, <1>5, <1>6, <1>7, AppQuiet

\* A report that the application takes: what is still to come, and what it
\* knows when it has it.
LEMMA TakenReport ==
    ASSUME TypeOK, TypeOK', reports # <<>>, Consumes(Head(reports)),
           UNCHANGED <<gateway, down>>
    PROVE  LET m == Head(reports)
               in == Incoming'
               Accepted == {"Accepted"}
               Closed == {"Fill", "Cancelled"}
           IN  /\ m \in Reports /\ 1 \in DOMAIN Incoming /\ Incoming[1] = m
               /\ DOMAIN in = 1..Len(in)
               /\ \A i \in DOMAIN in : i + 1 \in DOMAIN Incoming /\ in[i] = Incoming[i + 1]
               /\ \A i \in DOMAIN Incoming : i = 1 \/ (i - 1 \in DOMAIN in /\ in[i - 1] = Incoming[i])
               /\ Count(in, Accepted) \in Nat /\ Count(in, Closed) \in Nat
               /\ Count(Incoming, Accepted) \in Nat /\ Count(Incoming, Closed) \in Nat
               /\ working' + Count(in, Accepted) - Count(in, Closed)
                      = working + Count(Incoming, Accepted) - Count(Incoming, Closed)
  <1> DEFINE m == Head(reports)
             in == Incoming'
             K == {"Accepted"}
             C == {"Fill", "Cancelled"}
             k == IF m.report \in K THEN 1 ELSE 0
             c == IF m.report \in C THEN 1 ELSE 0
  <1>1. m \in Reports /\ Incoming = <<m>> \o in /\ in \in Seq(Reports)
    BY IncomingPopped DEF Consumes
  <1>2. working \in Int /\ working' = working + k - c
    <2>1. working \in Int
      BY DEF TypeOK
    <2>2. working' = CASE m.report = "Accepted" -> working + 1
                    [] m.report \in {"Fill", "Cancelled"} -> working - 1
                    [] m.report = "Complete" -> working
      BY DEF Consumes
    <2>3. m.report \in {"Accepted", "Fill", "Cancelled", "Complete"}
      BY <1>1 DEF Reports
    <2> HIDE DEF m
    <2> QED
      BY <2>1, <2>2, <2>3, SMTT(30)
  <1>3. Count(<<m>>, K) = k /\ Count(<<m>>, C) = c
    BY CountOne
  <1> HIDE DEF m, in, K, C
  <1>4. <<m>> \in Seq(Reports) /\ Len(<<m>>) = 1 /\ <<m>>[1] = m
    BY <1>1, SMTT(30)
  <1>5. /\ Count(Incoming, K) = Count(<<m>>, K) + Count(in, K)
        /\ Count(Incoming, C) = Count(<<m>>, C) + Count(in, C)
    <2>1. \A kinds : Count(<<m>> \o in, kinds) = Count(<<m>>, kinds) + Count(in, kinds)
      BY <1>1, <1>4, CountConcat
    <2> QED
      BY <1>1, <2>1
  <1>6. Count(in, K) \in Nat /\ Count(in, C) \in Nat
    BY <1>1, CountNat
  <1>7. k \in Nat /\ c \in Nat
    OBVIOUS
  <1>8. /\ Count(Incoming, K) \in Nat /\ Count(Incoming, C) \in Nat
        /\ working' + Count(in, K) - Count(in, C) = working + Count(Incoming, K) - Count(Incoming, C)
    <2> HIDE DEF k, c
    <2> QED
      BY <1>2, <1>3, <1>5, <1>6, <1>7, SMTT(30)
  <1>9. /\ Len(in) \in Nat /\ DOMAIN in = 1..Len(in) /\ Incoming \in Seq(Reports)
        /\ Len(Incoming) = 1 + Len(in)
        /\ \A i \in 1..(1 + Len(in)) : Incoming[i] = IF i <= 1 THEN m ELSE in[i - 1]
    BY <1>1, <1>4, LenProperties, ConcatProperties, SMTT(30)
  <1>10. DOMAIN Incoming = 1..(1 + Len(in))
    BY <1>9, LenProperties
  <1>11. /\ 1 \in DOMAIN Incoming /\ Incoming[1] = m
         /\ \A i \in DOMAIN in : i + 1 \in DOMAIN Incoming /\ in[i] = Incoming[i + 1]
         /\ \A i \in DOMAIN Incoming : i = 1 \/ (i - 1 \in DOMAIN in /\ in[i - 1] = Incoming[i])
    BY <1>9, <1>10, SMTT(30)
  <1> QED
    BY <1>1, <1>6, <1>8, <1>9, <1>11 DEF m, in, K, C

\* A report between two commands.
LEMMA DrainPopStep ==
    ASSUME SessionInv, TypeOK', Healthy, Healthy', AppDrainPop, reports # <<>>
    PROVE  Orderly'
  <1> DEFINE m == Head(reports)
             in == Incoming'
             K == {"Accepted"}
             C == {"Fill", "Cancelled"}
  <1>1. Orderly /\ TypeOK /\ app \in Apps /\ working \in Int /\ orders \in Nat
    BY DEF SessionInv, TypeOK
  <1>2. app.at = "drain_pop" /\ Consumes(m) /\ GoesOn("drain")
    <2>1. app.at = "drain_pop" /\ Consumes(m) /\ app' = Goto(app, "drain")
      BY DEF AppDrainPop
    <2> QED
      BY <1>1, <2>1, AppGoes DEF AppPlaces
  <1>3. UNCHANGED <<request_id, requests, gateway, output, up, down, open, stopped, orders,
                    last_request>>
    BY DEF AppDrainPop, flags, wire, exchange
  <1>4. ~Submitted /\ ~Submitted'
    BY <1>2 DEF Submitted, GoesOn
  <1>5. OneRequest'
    <2>1. last_request = request_id /\ app'.at # "push"
      BY <1>1, <1>2, <1>4, SMTT(30) DEF Orderly, OneRequest, GoesOn
    <2> QED
      BY <1>1, <1>3, <1>4, <2>1, QueueStays DEF Orderly
  <1>6. CancelledAll'
    BY <1>1, <1>2, <1>3, <1>4 DEF Orderly, CancelledAll, GoesOn
  <1>7. /\ \A i \in DOMAIN in : i + 1 \in DOMAIN Incoming /\ in[i] = Incoming[i + 1]
        /\ Count(in, K) \in Nat /\ Count(in, C) \in Nat
        /\ Count(Incoming, K) \in Nat /\ Count(Incoming, C) \in Nat
        /\ working' + Count(in, K) - Count(in, C) = working + Count(Incoming, K) - Count(Incoming, C)
    BY <1>1, <1>2, <1>3, TakenReport
  <1>8. ReportsInOrder'
    BY <1>1, <1>3, <1>4, <1>7 DEF Orderly, ReportsInOrder
  <1>9. OrdersKnown'
    <2>1. working + Count(Incoming, K) >= orders + Count(Incoming, C)
      BY <1>1, <1>4 DEF Orderly, OrdersKnown, Doomed
    <2>2. working' \in Int /\ orders' = orders
      BY <1>3 DEF TypeOK
    <2> HIDE DEF in, K, C
    <2>3. working' + Count(in, K) >= orders' + Count(in, C)
      BY <1>1, <1>7, <2>1, <2>2, SMTT(30)
    <2> QED
      BY <2>3 DEF OrdersKnown, in, K, C
  <1> QED
    BY <1>1, <1>3, <1>5, <1>6, <1>8, <1>9 DEF Orderly

\* A report in a command: when it is the one that ends the wait, the request is
\* performed, nothing is on its way, and no accepted order is still to be told.
LEMMA WaitPopStep ==
    ASSUME SessionInv, TypeOK', Healthy, Healthy', AppWaitPop, reports # <<>>
    PROVE  Orderly'
  <1> DEFINE m == Head(reports)
             in == Incoming'
             K == {"Accepted"}
             C == {"Fill", "Cancelled"}
  <1>1. /\ Orderly /\ TypeOK /\ app \in Apps /\ working \in Int /\ orders \in Nat
        /\ request_id \in Nat /\ last_request \in Nat /\ app.mode \in {"run", "closing"}
    BY DEF SessionInv, TypeOK, Healthy
  <1>2. /\ app.at = "wait_pop" /\ Consumes(m)
        /\ IF Done(m) THEN GoesOn(IF app.mode = "run" THEN "idle" ELSE "check") ELSE GoesOn("wait")
    <2>1. /\ app.at = "wait_pop" /\ Consumes(m)
          /\ IF Done(m) THEN app' = Returned(app) ELSE app' = Goto(app, "wait")
      BY DEF AppWaitPop, Done
    <2> QED
      BY <1>1, <2>1, AppGoes DEF AppPlaces
  <1>3. UNCHANGED <<request_id, requests, gateway, output, up, down, open, stopped, orders,
                    last_request>>
    BY DEF AppWaitPop, flags, wire, exchange
  <1>4. /\ m \in Reports /\ 1 \in DOMAIN Incoming /\ Incoming[1] = m /\ DOMAIN in = 1..Len(in)
        /\ \A i \in DOMAIN in : i + 1 \in DOMAIN Incoming /\ in[i] = Incoming[i + 1]
        /\ \A i \in DOMAIN Incoming : i = 1 \/ (i - 1 \in DOMAIN in /\ in[i - 1] = Incoming[i])
    BY <1>1, <1>2, <1>3, TakenReport
  <1>5. /\ Count(in, K) \in Nat /\ Count(in, C) \in Nat
        /\ Count(Incoming, K) \in Nat /\ Count(Incoming, C) \in Nat
        /\ working' + Count(in, K) - Count(in, C) = working + Count(Incoming, K) - Count(Incoming, C)
    BY <1>1, <1>2, <1>3, TakenReport
  <1>6. Submitted /\ (Submitted' <=> ~Done(m)) /\ app'.action = app.action
        /\ app'.mode = app.mode /\ app'.cancel = app.cancel
    BY <1>2 DEF Submitted, GoesOn
  <1>7. Done(m) => last_request = request_id
    BY <1>1, <1>4, <1>6, SMTT(30) DEF Orderly, ReportsInOrder, OneRequest, Done
  <1> HIDE DEF m, in, K, C
  <1>8. OneRequest'
    <2>1. CASE ~Done(m)
      BY <1>1, <1>3, <1>6, <2>1, QueueStays, SMTT(30) DEF Orderly
    <2>2. CASE Done(m)
      <3>1. /\ Len(requests) = 0 /\ Len(output) = 0 /\ Len(up) = 0
            /\ DOMAIN requests = {} /\ DOMAIN output = {} /\ DOMAIN up = {}
        BY <1>1, <1>7, <2>2, QueueLengths, SMTT(30) DEF Orderly, OneRequest
      <3>2. app'.at # "push"
        BY <1>2, <2>2, SMTT(30) DEF GoesOn
      <3> QED
        BY <1>3, <1>6, <1>7, <2>2, <3>1, <3>2, SMTT(30) DEF OneRequest, Mine
    <2> QED
      BY <2>1, <2>2, SMTT(30)
  <1>9. CancelledAll'
    <2>1. CASE ~Done(m)
      BY <1>1, <1>2, <1>3, <1>6, <2>1, SMTT(30) DEF Orderly, CancelledAll, GoesOn
    <2>2. CASE Done(m)
      BY <1>1, <1>2, <1>3, <1>6, <1>7, <2>2, SMTT(30) DEF Orderly, CancelledAll, GoesOn, Apps, Actions
    <2> QED
      BY <2>1, <2>2
  <1>10. \A i \in DOMAIN in : in[i].report = "Complete" /\ in[i].request_id = request_id'
                                 <=> Done(Incoming[i + 1])
    BY <1>3, <1>4, SMTT(30) DEF Done
  <1>11. ReportsInOrder'
    <2> SUFFICES ASSUME NEW i \in DOMAIN in
                 PROVE  /\ in[i].request_id <= last_request'
                        /\ in[i].report = "Accepted" =>
                              /\ Submitted' /\ last_request' = request_id'
                              /\ \A j \in 1..(i - 1) : ~(in[j].report = "Complete"
                                                           /\ in[j].request_id = request_id')
      BY DEF ReportsInOrder, Done, in
    <2>1. /\ in[i].request_id <= last_request
          /\ in[i].report = "Accepted" => /\ last_request = request_id
                                          /\ \A j \in 1..i : ~Done(Incoming[j])
      BY <1>1, <1>4, SMTT(30) DEF Orderly, ReportsInOrder
    <2>2. i \in Nat /\ 1 \in 1..i /\ Len(in) \in Nat /\ i <= Len(in)
      <3>1. in \in Seq(Reports)
        BY <1>1, <1>2, <1>3, IncomingPopped, SMTT(30) DEF in, Consumes
      <3> QED
        BY <1>4, <3>1, LenProperties, SMTT(30)
    <2>3. \A j \in 1..(i - 1) : j \in DOMAIN in /\ j + 1 \in 1..i
      BY <1>4, <2>2, SMTT(30)
    <2> QED
      BY <1>3, <1>4, <1>6, <1>10, <2>1, <2>2, <2>3
  <1>12. OrdersKnown'
    <2> SUFFICES ASSUME ~Doomed' PROVE OrdersKnown'
      BY SMTT(30) DEF OrdersKnown
    <2>1. ~Doomed
      BY <1>3, <1>4, <1>6, <1>10 DEF Doomed, Done, in
    <2>2. working + Count(Incoming, K) >= orders + Count(Incoming, C)
      BY <1>1, <2>1 DEF Orderly, OrdersKnown, K, C
    <2>3. working' \in Int /\ orders' = orders
      BY <1>3 DEF TypeOK
    <2>4. working' + Count(in, K) >= orders' + Count(in, C)
      BY <1>1, <1>5, <2>2, <2>3, SMTT(30)
    <2> QED
      BY <2>4 DEF OrdersKnown, in, K, C
  <1> QED
    BY <1>1, <1>3, <1>8, <1>9, <1>11, <1>12 DEF Orderly

-----------------------------------------------------------------------------
(* The steps of the gateway thread *)

\* A step of the gateway thread that moves requests at most.
LEMMA GatewayQuiet ==
    ASSUME SessionInv, TypeOK', Healthy, OneRequest', Incoming' = Incoming,
           UNCHANGED <<app, request_id, working, stopped, open, orders, last_request>>
    PROVE  Orderly'
  <1>1. Orderly
    BY DEF SessionInv
  <1>2. Submitted' = Submitted
    BY DEF Submitted
  <1>3. ReportsInOrder' /\ OrdersKnown'
    BY <1>1, <1>2, QuietSteps, SMTT(30) DEF Orderly
  <1>4. CancelledAll'
    BY <1>1, <1>2, SMTT(30) DEF Orderly, CancelledAll
  <1> QED
    BY <1>1, <1>3, <1>4 DEF Orderly

\* Where requests go from place to place, none is added.
LEMMA QueueMoves ==
    ASSUME TypeOK, TypeOK', OneRequest, UNCHANGED <<app, request_id, last_request>>,
           Mine(requests)', Mine(output)', Mine(up)',
           Len(requests') + Len(output') + Len(up') <= Len(requests) + Len(output) + Len(up)
    PROVE  OneRequest'
  <1>1. /\ Len(requests) \in Nat /\ Len(output) \in Nat /\ Len(up) \in Nat
        /\ Len(requests') \in Nat /\ Len(output') \in Nat /\ Len(up') \in Nat
    BY LenProperties DEF TypeOK
  <1>2. Submitted' = Submitted
    BY DEF Submitted
  <1> QED
    BY <1>1, <1>2, SMTT(30) DEF OneRequest

\* Steps that touch neither requests nor reports, and those that move a report.
LEMMA GatewayReportStep ==
    ASSUME SessionInv, TypeOK', Healthy,
           GatewayTop \/ GatewayPoll \/ GatewayRead \/ GatewayPush \/ GatewaySignal
    PROVE  Orderly'
  <1>1. Orderly /\ TypeOK /\ IsGateway(gateway)
    BY DEF SessionInv, TypeOK
  <1>2. UNCHANGED <<app, request_id, working, requests, output, up, open, stopped, orders,
                    last_request>>
    BY DEF GatewayTop, GatewayPoll, GatewayRead, GatewayPush, GatewaySignal, appVars, flags,
                 wire, exchange
  <1>3. OneRequest'
    <2>1. Submitted' = Submitted
      BY <1>2 DEF Submitted
    <2> QED
      BY <1>1, <1>2, <2>1 DEF Orderly, OneRequest, Mine
  <1>4. Incoming' = Incoming
    <2>1. CASE GatewayRead \/ GatewayPush
      BY <1>1, <2>1, IncomingMoved DEF Orderly
    <2>2. CASE GatewayTop \/ GatewayPoll \/ GatewaySignal
      <3>1. UNCHANGED <<reports, down>>
        BY <2>2 DEF GatewayTop, GatewayPoll, GatewaySignal, wire
      <3>2. GatewayTop \/ GatewaySignal => gateway'.held = gateway.held
        BY <1>1, GatewayMoves, SMTT(30) DEF GatewayTop, GatewaySignal, GatewayPlaces
      <3>3. gateway'.held = gateway.held
        BY <1>1, <2>2, <3>2, PollEnds, SMTT(30)
      <3> QED
        BY <3>1, <3>3 DEF Incoming
    <2> QED
      BY <2>1, <2>2
  <1> QED
    BY <1>2, <1>3, <1>4, GatewayQuiet, SMTT(30)

\* A request goes from the queue to the frames to send.
LEMMA GatewayPopStep == ASSUME SessionInv, TypeOK', Healthy, GatewayPop PROVE Orderly'
  <1>1. Orderly /\ TypeOK /\ IsGateway(gateway) /\ requests \in Seq(Requests) /\ output \in Seq(Requests)
    BY DEF SessionInv, TypeOK
  <1>2. UNCHANGED <<app, request_id, working, reports, up, down, open, stopped, orders, last_request>>
    BY DEF GatewayPop, appVars, flags, wire, exchange
  <1>3. gateway'.held = gateway.held
    BY <1>1, GatewayMoves, SMTT(30) DEF GatewayPop, GatewayPlaces
  <1>4. Incoming' = Incoming
    BY <1>2, <1>3, SMTT(30) DEF Incoming
  <1>5. Mine(requests) /\ Mine(output) /\ Mine(up)'
    BY <1>1, <1>2 DEF Orderly, OneRequest, Mine
  <1>6. /\ Mine(requests)' /\ Mine(output)'
        /\ Len(requests') + Len(output') + Len(up') <= Len(requests) + Len(output) + Len(up)
    <2>1. CASE UNCHANGED <<requests, output>>
      BY <1>1, <1>2, <1>5, <2>1, QueueLengths, SMTT(30) DEF Mine
    <2>2. CASE requests # <<>> /\ requests' = Tail(requests) /\ output' = Append(output, Head(requests))
      <3> DEFINE r == Head(requests)
                 t == Tail(requests)
      <3>1. /\ r \in Requests /\ t \in Seq(Requests) /\ Len(t) = Len(requests) - 1
            /\ \A i \in 1..Len(t) : t[i] = requests[i + 1]
        BY <1>1, <2>2, HeadTailProperties
      <3>2. r = requests[1] /\ Len(requests) \in Nat \ {0} /\ DOMAIN requests = 1..Len(requests)
        BY <1>1, <2>2, EmptySeq, LenProperties, SMTT(30)
      <3> HIDE DEF r, t
      <3>3. requests' = t /\ output' = Append(output, r)
        BY <2>2, SMTT(30) DEF r, t
      <3>4. /\ Len(output') = Len(output) + 1 /\ DOMAIN output' = 1..(Len(output) + 1)
            /\ \A i \in 1..Len(output) : output'[i] = output[i]
            /\ output'[Len(output) + 1] = r /\ Len(output) \in Nat /\ DOMAIN output = 1..Len(output)
        <4>1. Append(output, r) \in Seq(Requests) /\ Len(output) \in Nat /\ DOMAIN output = 1..Len(output)
          BY <1>1, <3>1, AppendProperties, LenProperties
        <4> QED
          BY <1>1, <3>1, <3>3, <4>1, AppendProperties, LenProperties, SMTT(30)
      <3>5. DOMAIN t = 1..Len(t) /\ Len(t) \in Nat /\ Len(up) \in Nat
        BY <1>1, <3>1, LenProperties, QueueLengths, SMTT(30)
      <3>6. Mine(requests)'
        <4>1. \A i \in DOMAIN t : i + 1 \in DOMAIN requests /\ t[i] = requests[i + 1]
          BY <3>1, <3>2, <3>5, SMTT(30)
        <4> QED
          BY <1>2, <1>5, <3>3, <4>1 DEF Mine
      <3>7. Mine(output)'
        <4>1. r.request_id = request_id /\ r.action = app.action
          BY <1>5, <3>2, SMTT(30) DEF Mine
        <4>2. \A i \in 1..(Len(output) + 1) : i \in 1..Len(output) \/ i = Len(output) + 1
          BY <3>4, SMTT(30)
        <4> QED
          BY <1>2, <1>5, <3>4, <4>1, <4>2, SMTT(30) DEF Mine
      <3>8. Len(requests') + Len(output') + Len(up') <= Len(requests) + Len(output) + Len(up)
        BY <1>2, <3>1, <3>2, <3>3, <3>4, <3>5, SMTT(30)
      <3> QED
        BY <3>6, <3>7, <3>8
    <2> QED
      BY <2>1, <2>2 DEF GatewayPop
  <1>7. OneRequest'
    BY <1>1, <1>2, <1>5, <1>6, QueueMoves, SMTT(30) DEF Orderly
  <1> QED
    BY <1>2, <1>4, <1>7, GatewayQuiet, SMTT(30)

\* Frames go to the exchange, or nowhere when the connection is lost.
LEMMA GatewayFlushStep == ASSUME SessionInv, TypeOK', Healthy, GatewayFlush PROVE Orderly'
  <1>1. Orderly /\ TypeOK /\ IsGateway(gateway) /\ output \in Seq(Requests) /\ up \in Seq(Requests)
    BY DEF SessionInv, TypeOK
  <1>2. UNCHANGED <<app, request_id, working, requests, reports, down, open, stopped, orders, last_request>>
    BY DEF GatewayFlush, appVars, exchange
  <1>3. gateway'.held = gateway.held
    BY <1>1 DEF GatewayFlush, IsGateway
  <1>4. Incoming' = Incoming
    BY <1>2, <1>3, SMTT(30) DEF Incoming
  <1>5. Mine(requests)' /\ Mine(output) /\ Mine(up)
    BY <1>1, <1>2 DEF Orderly, OneRequest, Mine
  <1>6. PICK n \in 0..Len(output) :
            /\ output' = SubSeq(output, n + 1, Len(output))
            /\ up' = up \o SubSeq(output, 1, n) \/ up' = up
    <2>1. PICK n \in 0..Len(output) :
            /\ output' = SubSeq(output, n + 1, Len(output))
            /\ up' = IF open THEN up \o SubSeq(output, 1, n) ELSE up
      BY DEF GatewayFlush
    <2>2. up' = up \o SubSeq(output, 1, n) \/ up' = up
      BY <2>1
    <2> QED
      BY <2>1, <2>2
  <1>7. /\ Len(output) \in Nat /\ Len(up) \in Nat /\ Len(requests) \in Nat
        /\ DOMAIN output = 1..Len(output) /\ DOMAIN up = 1..Len(up)
    BY <1>1, QueueLengths
  <1> DEFINE a == SubSeq(output, 1, n)
             b == SubSeq(output, n + 1, Len(output))
  <1>8. /\ a \in Seq(Requests) /\ Len(a) = n /\ \A i \in 1..n : a[i] = output[i]
    <2>1. \A i \in 1..n : output[i] \in Requests
      BY <1>1, <1>7, ElementOfSeq, SMTT(30)
    <2> QED
      BY <1>7, <2>1, SubSeqProperties, SMTT(30)
  <1>9. /\ b \in Seq(Requests) /\ Len(b) = Len(output) - n
        /\ \A i \in 1..(Len(output) - n) : b[i] = output[n + i]
    <2>1. \A i \in (n + 1)..Len(output) : output[i] \in Requests
      BY <1>1, <1>7, ElementOfSeq, SMTT(30)
    <2>2. b \in Seq(Requests)
      BY <1>7, <2>1, SubSeqProperties, SMTT(30)
    <2>3. Len(b) = IF n + 1 <= Len(output) THEN Len(output) - (n + 1) + 1 ELSE 0
      BY <1>7, <2>1, SubSeqProperties, SMTT(30)
    <2>4. \A i \in 1..(Len(output) - (n + 1) + 1) : b[i] = output[(n + 1) + i - 1]
      BY <1>7, <2>1, SubSeqProperties, SMTT(30)
    <2>5. PICK len \in Nat : len = Len(output)
      BY <1>7
    <2> HIDE DEF b
    <2>6. n \in Nat /\ n <= len
      <3>1. n \in 0..len
        BY <2>5
      <3> QED
        BY <3>1, SMTT(30)
    <2>7. Len(b) = Len(output) - n
      BY <2>3, <2>5, <2>6, SMTT(30)
    <2>8. ASSUME NEW i \in 1..(len - n) PROVE b[i] = output[n + i]
      <3>1. (n + 1) + i - 1 = n + i /\ i \in 1..(len - (n + 1) + 1)
        BY <2>6, SMTT(30)
      <3> QED
        BY <2>4, <2>5, <3>1
    <2> QED
      BY <2>2, <2>5, <2>7, <2>8
  <1> HIDE DEF a, b
  <1>10. output' = b /\ (up' = up \o a \/ up' = up)
    BY <1>6 DEF a, b
  <1>11. DOMAIN b = 1..(Len(output) - n)
    BY <1>9, LenProperties, SMTT(30)
  <1>12. Mine(output)'
    <2>1. \A i \in 1..(Len(output) - n) : n + i \in DOMAIN output
      BY <1>7, SMTT(30)
    <2> QED
      BY <1>2, <1>5, <1>9, <1>10, <1>11, <2>1, SMTT(30) DEF Mine
  <1>13. Mine(up)' /\ Len(up') <= Len(up) + n
    <2>1. CASE up' = up
      BY <1>2, <1>5, <1>7, <2>1, SMTT(30) DEF Mine
    <2>2. CASE up' = up \o a
      <3>1. /\ up \o a \in Seq(Requests) /\ Len(up \o a) = Len(up) + n
            /\ \A i \in 1..(Len(up) + n) : (up \o a)[i] = IF i <= Len(up) THEN up[i] ELSE a[i - Len(up)]
        <4>1. a \in Seq(Requests) /\ Len(a) = n
          BY <1>8
        <4>2. /\ up \o a \in Seq(Requests) /\ Len(up \o a) = Len(up) + Len(a)
              /\ \A i \in 1..(Len(up) + Len(a)) : (up \o a)[i] = IF i <= Len(up) THEN up[i] ELSE a[i - Len(up)]
          BY <1>1, <4>1, ConcatProperties
        <4> QED
          BY <4>1, <4>2
      <3>2. DOMAIN (up \o a) = 1..(Len(up) + n)
        BY <3>1, LenProperties
      <3>3. \A i \in 1..(Len(up) + n) :
                \/ i \in 1..Len(up) /\ up'[i] = up[i]
                \/ i - Len(up) \in 1..n /\ up'[i] = output[i - Len(up)]
        BY <1>7, <1>8, <2>2, <3>1, SMTT(30)
      <3>4. Len(up') = Len(up) + n /\ DOMAIN up' = 1..(Len(up) + n)
        BY <2>2, <3>1, <3>2
      <3>5. \A i \in 1..n : i \in DOMAIN output
        BY <1>7, SMTT(30)
      <3>6. Mine(up)'
        BY <1>2, <1>5, <1>7, <3>3, <3>4, <3>5, SMTT(30) DEF Mine
      <3> QED
        BY <1>7, <3>4, <3>6, SMTT(30)
    <2> QED
      BY <1>10, <2>1, <2>2, SMTT(30)
  <1>14. Len(requests') + Len(output') + Len(up') <= Len(requests) + Len(output) + Len(up)
    <2>1. Len(up') \in Nat
      BY LenProperties DEF TypeOK
    <2> QED
      BY <1>2, <1>7, <1>9, <1>10, <1>13, <2>1, SMTT(30)
  <1>15. OneRequest'
    BY <1>1, <1>2, <1>5, <1>12, <1>13, <1>14, QueueMoves, SMTT(30) DEF Orderly
  <1> QED
    BY <1>2, <1>4, <1>15, GatewayQuiet, SMTT(30)

-----------------------------------------------------------------------------
(* The steps of the exchange and of the network *)

\* An answer tells of the orders that the exchange adds and removes.
AnswerOf(s, request, left) ==
    /\ s \in Seq(Reports)
    /\ \A i \in DOMAIN s : s[i].request_id = request /\ (s[i].report = "Accepted" => i = 1 /\ left > orders)
    /\ left + Count(s, {"Fill", "Cancelled"}) = orders + Count(s, {"Accepted"})
    /\ orders' = left /\ down' = IF open THEN down \o s ELSE down

\* The answers of Serve and Trade are such answers.
LEMMA AnswersTell ==
    ASSUME TypeOK, NEW request \in Nat
    PROVE  /\ Answer(<<"Complete">>, request, orders) => \E s : AnswerOf(s, request, orders)
           /\ Answer(<<"Accepted", "Complete">>, request, orders + 1) =>
                  \E s : AnswerOf(s, request, orders + 1)
           /\ Answer([i \in 1..orders |-> "Cancelled"] \o <<"Complete">>, request, 0) =>
                  \E s : AnswerOf(s, request, 0)
           /\ orders > 0 /\ Answer(<<"Fill">>, request, orders - 1) =>
                  \E s : AnswerOf(s, request, orders - 1)
  <1> DEFINE R == {"Accepted", "Fill", "Cancelled", "Complete"}
             C == {"Fill", "Cancelled"}
             K == {"Accepted"}
             S(kinds) == [i \in DOMAIN kinds |-> [report |-> kinds[i], request_id |-> request]]
  <1>1. orders \in Nat
    BY DEF TypeOK
  <1>2. ASSUME NEW kinds \in Seq(R), NEW left, Answer(kinds, request, left),
               \A i \in DOMAIN kinds : kinds[i] = "Accepted" => i = 1 /\ left > orders,
               left + Cardinality({i \in DOMAIN kinds : kinds[i] \in C})
                   = orders + Cardinality({i \in DOMAIN kinds : kinds[i] \in K})
        PROVE  \E s : AnswerOf(s, request, left)
    <2>1. S(kinds) \in Seq(Reports)
      BY AnswerType
    <2>2. \A i \in DOMAIN S(kinds) : S(kinds)[i].request_id = request
                                     /\ (S(kinds)[i].report = "Accepted" => i = 1 /\ left > orders)
      BY <1>2
    <2>3. left + Count(S(kinds), C) = orders + Count(S(kinds), K)
      <3>1. DOMAIN S(kinds) = DOMAIN kinds /\ \A i \in DOMAIN kinds : S(kinds)[i].report = kinds[i]
        OBVIOUS
      <3> HIDE DEF C, K, S
      <3>2. /\ {i \in DOMAIN S(kinds) : S(kinds)[i].report \in C} = {i \in DOMAIN kinds : kinds[i] \in C}
            /\ {i \in DOMAIN S(kinds) : S(kinds)[i].report \in K} = {i \in DOMAIN kinds : kinds[i] \in K}
        BY <3>1
      <3>3. /\ Count(S(kinds), C) = Cardinality({i \in DOMAIN S(kinds) : S(kinds)[i].report \in C})
            /\ Count(S(kinds), K) = Cardinality({i \in DOMAIN S(kinds) : S(kinds)[i].report \in K})
        BY DEF Count
      <3> QED
        BY <1>2, <3>2, <3>3
    <2>4. orders' = left /\ down' = IF open THEN down \o S(kinds) ELSE down
      BY <1>2 DEF Answer
    <2> HIDE DEF S
    <2>5. AnswerOf(S(kinds), request, left)
      BY <2>1, <2>2, <2>3, <2>4 DEF AnswerOf
    <2> QED
      BY <2>5
  <1> HIDE DEF S
  <1>3. Cardinality({1}) = 1
    BY FS_Singleton
  <1>4. Cardinality({}) = 0
    BY FS_EmptySet
  <1>5. Answer(<<"Complete">>, request, orders) => \E s : AnswerOf(s, request, orders)
    <2> DEFINE k == <<"Complete">>
    <2>1. k \in Seq(R) /\ DOMAIN k = {1} /\ k[1] = "Complete"
      BY SMTT(30)
    <2> HIDE DEF k
    <2>2. {i \in DOMAIN k : k[i] \in C} = {} /\ {i \in DOMAIN k : k[i] \in K} = {}
      BY <2>1
    <2>3. ASSUME Answer(k, request, orders) PROVE \E s : AnswerOf(s, request, orders)
      <3>1. \A i \in DOMAIN k : k[i] = "Accepted" => i = 1 /\ orders > orders
        BY <2>1
      <3> HIDE DEF C, K, R
      <3> QED
        BY <1>2, <2>1, <2>2, <2>3, <3>1
    <2> QED
      BY <2>3 DEF k

  <1>6. Answer(<<"Accepted", "Complete">>, request, orders + 1) => \E s : AnswerOf(s, request, orders + 1)
    <2> DEFINE k == <<"Accepted", "Complete">>
    <2>1. k \in Seq(R) /\ DOMAIN k = {1, 2} /\ k[1] = "Accepted" /\ k[2] = "Complete"
      BY SMTT(30)
    <2> HIDE DEF k
    <2>2. {i \in DOMAIN k : k[i] \in C} = {} /\ {i \in DOMAIN k : k[i] \in K} = {1}
      BY <2>1
    <2>3. ASSUME Answer(k, request, orders + 1) PROVE \E s : AnswerOf(s, request, orders + 1)
      <3>1. \A i \in DOMAIN k : k[i] = "Accepted" => i = 1 /\ orders + 1 > orders
        BY <1>1, <2>1, SMTT(30)
      <3>2. (orders + 1) + Cardinality({}) = orders + Cardinality({1})
        BY <1>1, <1>3, <1>4, SMTT(30)
      <3> HIDE DEF C, K, R
      <3> QED
        BY <1>2, <2>1, <2>2, <2>3, <3>1, <3>2
    <2> QED
      BY <2>3 DEF k
  <1>7. ASSUME orders > 0, Answer(<<"Fill">>, request, orders - 1)
        PROVE  \E s : AnswerOf(s, request, orders - 1)
    <2> DEFINE k == <<"Fill">>
    <2>1. k \in Seq(R) /\ DOMAIN k = {1} /\ k[1] = "Fill"
      BY SMTT(30)
    <2> HIDE DEF k
    <2>2. {i \in DOMAIN k : k[i] \in C} = {1} /\ {i \in DOMAIN k : k[i] \in K} = {}
      BY <2>1
    <2>3. ASSUME Answer(k, request, orders - 1) PROVE \E s : AnswerOf(s, request, orders - 1)
      <3>1. \A i \in DOMAIN k : k[i] = "Accepted" => i = 1 /\ orders - 1 > orders
        BY <2>1
      <3>2. (orders - 1) + Cardinality({1}) = orders + Cardinality({})
        BY <1>1, <1>3, <1>4, SMTT(30)
      <3> HIDE DEF C, K, R
      <3> QED
        BY <1>2, <2>1, <2>2, <2>3, <3>1, <3>2
    <2> QED
      BY <1>7, <2>3 DEF k
  <1>8. Answer([i \in 1..orders |-> "Cancelled"] \o <<"Complete">>, request, 0) =>
            \E s : AnswerOf(s, request, 0)
    <2> DEFINE n == [i \in 1..orders |-> "Cancelled"]
               k == n \o <<"Complete">>
    <2>1. n \in Seq(R) /\ Len(n) = orders /\ \A i \in 1..orders : n[i] = "Cancelled"
      BY <1>1, SMTT(30)
    <2>2. <<"Complete">> \in Seq(R) /\ Len(<<"Complete">>) = 1 /\ <<"Complete">>[1] = "Complete"
      BY SMTT(30)
    <2> HIDE DEF n
    <2>3. /\ k \in Seq(R) /\ Len(k) = orders + 1
          /\ \A i \in 1..(orders + 1) : k[i] = IF i <= orders THEN n[i] ELSE <<"Complete">>[i - orders]
      <3>1. /\ k \in Seq(R) /\ Len(k) = Len(n) + Len(<<"Complete">>)
            /\ \A i \in 1..(Len(n) + Len(<<"Complete">>)) :
                   k[i] = IF i <= Len(n) THEN n[i] ELSE <<"Complete">>[i - Len(n)]
        BY <2>1, <2>2, ConcatProperties
      <3> QED
        BY <2>1, <2>2, <3>1
    <2>4. \A i \in 1..(orders + 1) : k[i] = IF i <= orders THEN "Cancelled" ELSE "Complete"
      BY <1>1, <2>1, <2>2, <2>3, SMTT(30)
    <2> HIDE DEF k
    <2>5. DOMAIN k = 1..(orders + 1)
      BY <2>3, LenProperties
    <2>6. {i \in DOMAIN k : k[i] \in C} = 1..orders /\ {i \in DOMAIN k : k[i] \in K} = {}
      BY <1>1, <2>4, <2>5, SMTT(30)
    <2>7. 0 + Cardinality(1..orders) = orders + Cardinality({})
      BY <1>1, <1>4, FS_Interval, SMTT(30)
    <2>8. \A i \in DOMAIN k : k[i] = "Accepted" => i = 1 /\ 0 > orders
      BY <2>4, <2>5
    <2>9. ASSUME Answer(k, request, 0) PROVE \E s : AnswerOf(s, request, 0)
      <3> HIDE DEF C, K, R
      <3> QED
        BY <1>2, <2>3, <2>6, <2>7, <2>8, <2>9
    <2> QED
      BY <2>9 DEF k, n
  <1> QED
    BY <1>5, <1>6, <1>7, <1>8

\* What is to come when the answer is on its way.
LEMMA IncomingGrows ==
    ASSUME TypeOK, NEW s, NEW request, NEW left, AnswerOf(s, request, left), open,
           UNCHANGED <<reports, gateway>>
    PROVE  /\ Incoming' = Incoming \o s
           /\ \A kinds : Count(Incoming \o s, kinds) = Count(Incoming, kinds) + Count(s, kinds)
           /\ Incoming \in Seq(Reports) /\ Len(Incoming) \in Nat /\ Len(s) \in Nat /\ DOMAIN s = 1..Len(s)
           /\ DOMAIN Incoming = 1..Len(Incoming) /\ DOMAIN (Incoming \o s) = 1..(Len(Incoming) + Len(s))
           /\ \A i \in 1..(Len(Incoming) + Len(s)) :
                  \/ i \in 1..Len(Incoming) /\ (Incoming \o s)[i] = Incoming[i]
                  \/ i - Len(Incoming) \in 1..Len(s) /\ (Incoming \o s)[i] = s[i - Len(Incoming)]
  <1>1. /\ s \in Seq(Reports) /\ Incoming \in Seq(Reports)
        /\ DOMAIN Incoming = 1..Len(Incoming) /\ Len(Incoming) \in Nat
    BY IncomingType DEF AnswerOf
  <1>2. Incoming' = Incoming \o s
    BY <1>1, IncomingAnswered, SMTT(30) DEF AnswerOf
  <1>3. \A kinds : Count(Incoming \o s, kinds) = Count(Incoming, kinds) + Count(s, kinds)
    BY <1>1, CountConcat
  <1>4. /\ Incoming \o s \in Seq(Reports) /\ Len(Incoming \o s) = Len(Incoming) + Len(s)
        /\ \A i \in 1..(Len(Incoming) + Len(s)) :
               (Incoming \o s)[i] = IF i <= Len(Incoming) THEN Incoming[i] ELSE s[i - Len(Incoming)]
    BY <1>1, ConcatProperties
  <1>5. Len(s) \in Nat /\ DOMAIN s = 1..Len(s)
    BY <1>1, LenProperties
  <1>6. DOMAIN (Incoming \o s) = 1..(Len(Incoming) + Len(s))
    BY <1>4, LenProperties
  <1>7. \A i \in 1..(Len(Incoming) + Len(s)) :
            \/ i \in 1..Len(Incoming) /\ (Incoming \o s)[i] = Incoming[i]
            \/ i - Len(Incoming) \in 1..Len(s) /\ (Incoming \o s)[i] = s[i - Len(Incoming)]
    BY <1>1, <1>4, <1>5, SMTT(30)
  <1> QED
    BY <1>1, <1>2, <1>3, <1>5, <1>6, <1>7

\* The exchange performs the request of the application: nothing about it was
\* told before, and the answer tells of every order.
LEMMA ServeStep == ASSUME SessionInv, TypeOK', Healthy, Serve PROVE Orderly'
  <1> DEFINE m == Head(up)
             K == {"Accepted"}
             C == {"Fill", "Cancelled"}
  <1>1. /\ Orderly /\ TypeOK /\ app \in Apps /\ working \in Int /\ orders \in Nat
        /\ request_id \in Nat /\ last_request \in Nat /\ up \in Seq(Requests)
    BY DEF SessionInv, TypeOK
  <1>2. up # <<>> /\ up' = Tail(up)
    BY DEF Serve
  <1>3. UNCHANGED <<app, request_id, working, requests, reports, gateway, output, stopped, open>>
    BY DEF Serve, appVars, flags
  <1>4. Len(up) \in Nat \ {0} /\ m = up[1] /\ Len(Tail(up)) = Len(up) - 1 /\ Tail(up) \in Seq(Requests)
    BY <1>1, <1>2, EmptySeq, HeadTailProperties, SMTT(30)
  <1>5. /\ Submitted /\ Submitted' /\ last_request + 1 = request_id
        /\ Len(requests) = 0 /\ Len(output) = 0 /\ Len(up) = 1
    BY <1>1, <1>3, <1>4, QueueLengths, SMTT(30) DEF Orderly, OneRequest, Submitted
  <1>6. m.request_id = request_id /\ m.action = app.action
    BY <1>1, <1>4, <1>5, QueueLengths, SMTT(30) DEF Orderly, OneRequest, Mine
  <1>7. /\ last_request' = request_id
        /\ \/ m.action = "New" /\ Answer(<<"Accepted", "Complete">>, request_id, orders + 1)
           \/ m.action = "New" /\ Answer(<<"Complete">>, request_id, orders)
           \/ m.action = "CancelAll"
              /\ Answer([i \in 1..orders |-> "Cancelled"] \o <<"Complete">>, request_id, 0)
    <2>1. m.request_id = last_request + 1
      BY <1>5, <1>6
    <2> QED
      BY <1>6, <2>1 DEF Serve
  <1> HIDE DEF m, K, C
  <1>8. PICK s : AnswerOf(s, request_id, orders')
    <2>1. orders \in Nat /\ 0 \in Nat
      BY <1>1
    <2>2. \A kinds, left : Answer(kinds, request_id, left) => orders' = left
      BY DEF Answer
    <2>3. /\ Answer(<<"Complete">>, request_id, orders) => \E s : AnswerOf(s, request_id, orders)
          /\ Answer(<<"Accepted", "Complete">>, request_id, orders + 1) =>
                 \E s : AnswerOf(s, request_id, orders + 1)
          /\ Answer([i \in 1..orders |-> "Cancelled"] \o <<"Complete">>, request_id, 0) =>
                 \E s : AnswerOf(s, request_id, 0)
      BY <1>1, AnswersTell
    <2> QED
      BY <1>7, <2>2, <2>3
  <1>9. app.action = "CancelAll" => orders' = 0
    BY <1>6, <1>7, SMTT(30) DEF Answer
  <1>10. OneRequest'
    <2>1. Len(up') = 0 /\ DOMAIN up' = {} /\ DOMAIN requests' = {} /\ DOMAIN output' = {}
      <3>1. Len(up') = 0 /\ up' \in Seq(Requests)
        <4> DEFINE rest == Tail(up)
        <4> HIDE DEF rest
        <4>1. up' = rest /\ rest \in Seq(Requests) /\ Len(rest) = Len(up) - 1
          BY <1>2, <1>4 DEF rest
        <4> QED
          BY <1>5, <4>1, SMTT(30)
      <3>2. DOMAIN up' = {}
        BY <3>1, LenProperties, SMTT(30)
      <3> QED
        BY <1>1, <1>3, <1>5, <3>1, <3>2, QueueLengths, SMTT(30)
    <2> QED
      BY <1>3, <1>5, <1>7, <2>1, SMTT(30) DEF OneRequest, Mine
  <1>11. CancelledAll'
    BY <1>1, <1>3, <1>5, <1>9, SMTT(30) DEF Orderly, CancelledAll, Submitted
  <1>12. \A i \in DOMAIN Incoming : /\ Incoming[i].request_id <= request_id
                                    /\ Incoming[i].report # "Accepted" /\ ~Done(Incoming[i])
    <2>1. \A i \in DOMAIN Incoming : Incoming[i].request_id \in Nat
      BY <1>1, IncomingReports DEF Reports
    <2>2. \A i \in DOMAIN Incoming : /\ Incoming[i].request_id <= last_request
                                     /\ Incoming[i].report = "Accepted" => last_request = request_id
      BY <1>1 DEF Orderly, ReportsInOrder
    <2> QED
      BY <1>1, <1>5, <2>1, <2>2, SMTT(30) DEF Done
  <1>13. CASE ~open
    <2>1. Incoming' = Incoming
      BY <1>3, <1>8, <1>13, SMTT(30) DEF AnswerOf, Incoming
    <2>2. ReportsInOrder'
      BY <1>1, <1>5, <1>7, <1>12, <2>1, SMTT(30) DEF ReportsInOrder
    <2>3. Doomed'
      BY <1>3, <1>5, <1>12, <1>13, <2>1 DEF Doomed, Done
    <2> QED
      BY <1>1, <1>3, <1>10, <1>11, <2>2, <2>3 DEF Orderly, OrdersKnown
  <1>14. CASE open
    <2> DEFINE in == Incoming \o s
               n == Len(Incoming)
    <2>1. /\ Incoming' = in /\ n \in Nat /\ Len(s) \in Nat /\ DOMAIN s = 1..Len(s)
          /\ Incoming \in Seq(Reports)
          /\ DOMAIN Incoming = 1..n /\ DOMAIN in = 1..(n + Len(s))
          /\ \A i \in 1..(n + Len(s)) : \/ i \in 1..n /\ in[i] = Incoming[i]
                                        \/ i - n \in 1..Len(s) /\ in[i] = s[i - n]
      BY <1>1, <1>3, <1>8, <1>14, IncomingGrows
    <2>2. \A kinds : Count(in, kinds) = Count(Incoming, kinds) + Count(s, kinds)
      BY <1>1, <1>3, <1>8, <1>14, IncomingGrows
    <2>3. /\ s \in Seq(Reports)
          /\ \A i \in 1..Len(s) : s[i].request_id = request_id /\ (s[i].report = "Accepted" => i = 1)
          /\ orders' + Count(s, C) = orders + Count(s, K)
      BY <1>8, <2>1 DEF AnswerOf, C, K
    <2> HIDE DEF in, n
    <2>4. \A i \in 1..(n + Len(s)) : /\ in[i].request_id <= request_id
                                     /\ in[i].report = "Accepted" => i = n + 1
      <3> SUFFICES ASSUME NEW i \in 1..(n + Len(s))
                   PROVE  in[i].request_id <= request_id /\ (in[i].report = "Accepted" => i = n + 1)
        BY SMTT(30)
      <3>1. CASE i \in 1..n /\ in[i] = Incoming[i]
        BY <1>12, <2>1, <3>1, SMTT(30)
      <3>2. CASE i - n \in 1..Len(s) /\ in[i] = s[i - n]
        <4>1. s[i - n].request_id = request_id /\ (s[i - n].report = "Accepted" => i - n = 1)
          BY <2>3, <3>2
        <4>2. i - n = 1 => i = n + 1
          BY <2>1, SMTT(30)
        <4> QED
          BY <1>1, <3>2, <4>1, <4>2, SMTT(30)
      <3> QED
        BY <2>1, <3>1, <3>2
    <2>5. \A i \in 1..n : ~(in[i].report = "Complete" /\ in[i].request_id = request_id)
      BY <1>12, <2>1, SMTT(30) DEF Done
    <2>6. ReportsInOrder'
      BY <1>3, <1>5, <1>7, <2>1, <2>4, <2>5, SMTT(30) DEF ReportsInOrder, Done
    <2>7. OrdersKnown'
      <3>1. /\ Count(Incoming, K) \in Nat /\ Count(Incoming, C) \in Nat
            /\ Count(s, K) \in Nat /\ Count(s, C) \in Nat
        BY <2>1, <2>3, CountNat
      <3>2. working + Count(Incoming, K) >= orders + Count(Incoming, C)
        BY <1>1, <1>14 DEF Orderly, OrdersKnown, Doomed, K, C
      <3>3. orders' \in Nat /\ working' = working
        BY <1>3, SMTT(30) DEF TypeOK
      <3>4. working' + Count(in, K) >= orders' + Count(in, C)
        BY <1>1, <2>2, <2>3, <3>1, <3>2, <3>3, SMTT(30)
      <3> QED
        BY <2>1, <3>4, SMTT(30) DEF OrdersKnown, K, C
    <2> QED
      BY <1>1, <1>3, <1>10, <1>11, <2>6, <2>7 DEF Orderly
  <1> QED
    BY <1>13, <1>14

\* Somebody trades: the application is told of one order less.
LEMMA TradeStep == ASSUME SessionInv, TypeOK', Healthy, Trade PROVE Orderly'
  <1> DEFINE K == {"Accepted"}
             C == {"Fill", "Cancelled"}
  <1>1. /\ Orderly /\ TypeOK /\ app \in Apps /\ working \in Int /\ orders \in Nat
        /\ request_id \in Nat /\ last_request \in Nat
    BY DEF SessionInv, TypeOK
  <1>2. orders > 0 /\ Answer(<<"Fill">>, 0, orders - 1)
    BY DEF Trade
  <1>3. UNCHANGED <<app, request_id, working, requests, reports, gateway, output, up, stopped, open,
                    last_request>>
    BY DEF Trade, appVars, flags
  <1>4. PICK s : AnswerOf(s, 0, orders - 1)
    <2>1. 0 \in Nat
      OBVIOUS
    <2> QED
      BY <1>1, <1>2, <2>1, AnswersTell
  <1>5. orders' = orders - 1
    BY <1>4 DEF AnswerOf
  <1> HIDE DEF K, C
  <1>6. Submitted' = Submitted
    BY <1>3, SMTT(30) DEF Submitted
  <1>7. OneRequest'
    BY <1>1, <1>3, <1>6, SMTT(30) DEF Orderly, OneRequest, Mine
  <1>8. CancelledAll'
    BY <1>1, <1>2, <1>3, <1>6, SMTT(30) DEF Orderly, CancelledAll
  <1>9. CASE ~open
    <2>1. Incoming' = Incoming
      BY <1>3, <1>4, <1>9, SMTT(30) DEF AnswerOf, Incoming
    <2>2. ReportsInOrder'
      BY <1>1, <1>3, <1>6, <2>1, SMTT(30) DEF Orderly, ReportsInOrder, Done
    <2>3. Doomed => Doomed'
      BY <1>3, <1>6, <2>1 DEF Doomed, Done
    <2>4. Count(Incoming, K) \in Nat /\ Count(Incoming, C) \in Nat
      BY <1>1, IncomingType, CountNat
    <2>5. ~Doomed => working + Count(Incoming, K) >= orders + Count(Incoming, C)
      BY <1>1 DEF Orderly, OrdersKnown, K, C
    <2>6. ~Doomed => working + Count(Incoming, K) >= (orders - 1) + Count(Incoming, C)
      BY <1>1, <2>4, <2>5, SMTT(30)
    <2>7. OrdersKnown'
      BY <1>3, <1>5, <2>1, <2>3, <2>6, SMTT(30) DEF OrdersKnown, K, C
    <2> QED
      BY <1>1, <1>3, <1>7, <1>8, <2>2, <2>7 DEF Orderly
  <1>10. CASE open
    <2> DEFINE in == Incoming \o s
               n == Len(Incoming)
    <2>1. /\ Incoming' = in /\ n \in Nat /\ Len(s) \in Nat /\ DOMAIN s = 1..Len(s)
          /\ Incoming \in Seq(Reports)
          /\ DOMAIN Incoming = 1..n /\ DOMAIN in = 1..(n + Len(s))
          /\ \A i \in 1..(n + Len(s)) : \/ i \in 1..n /\ in[i] = Incoming[i]
                                        \/ i - n \in 1..Len(s) /\ in[i] = s[i - n]
      BY <1>1, <1>3, <1>4, <1>10, IncomingGrows
    <2>2. \A kinds : Count(in, kinds) = Count(Incoming, kinds) + Count(s, kinds)
      BY <1>1, <1>3, <1>4, <1>10, IncomingGrows
    <2>3. s \in Seq(Reports) /\ (orders - 1) + Count(s, C) = orders + Count(s, K)
      BY <1>4 DEF AnswerOf, C, K
    <2>4. \A i \in 1..Len(s) : s[i].request_id = 0 /\ s[i].report # "Accepted"
      <3>1. \A i \in 1..Len(s) : s[i].request_id = 0 /\ (s[i].report = "Accepted" => orders - 1 > orders)
        BY <1>4, <2>1 DEF AnswerOf
      <3> QED
        BY <1>1, <3>1, SMTT(30)
    <2> HIDE DEF in, n
    <2>5. ReportsInOrder'
      <3> SUFFICES ASSUME NEW i \in 1..(n + Len(s))
                   PROVE  /\ in[i].request_id <= last_request
                          /\ in[i].report = "Accepted" =>
                                /\ Submitted /\ last_request = request_id
                                /\ \A j \in 1..(i - 1) : ~Done(in[j])
        BY <1>3, <1>6, <2>1, SMTT(30) DEF ReportsInOrder, Done
      <3>1. CASE i \in 1..n /\ in[i] = Incoming[i]
        <4>1. /\ Incoming[i].request_id <= last_request
              /\ Incoming[i].report = "Accepted" =>
                    /\ Submitted /\ last_request = request_id
                    /\ \A j \in 1..(i - 1) : ~Done(Incoming[j])
          BY <1>1, <2>1, <3>1, SMTT(30) DEF Orderly, ReportsInOrder
        <4>2. \A j \in 1..(i - 1) : in[j] = Incoming[j]
          BY <2>1, <3>1, SMTT(30)
        <4> QED
          BY <3>1, <4>1, <4>2, SMTT(30)
      <3>2. CASE i - n \in 1..Len(s) /\ in[i] = s[i - n]
        BY <1>1, <2>4, <3>2, SMTT(30)
      <3> QED
        BY <2>1, <3>1, <3>2, SMTT(30)
    <2>6. OrdersKnown'
      <3>1. /\ Count(Incoming, K) \in Nat /\ Count(Incoming, C) \in Nat
            /\ Count(s, K) \in Nat /\ Count(s, C) \in Nat
        BY <2>1, <2>3, CountNat
      <3>2. working + Count(Incoming, K) >= orders + Count(Incoming, C)
        BY <1>1, <1>10 DEF Orderly, OrdersKnown, Doomed, K, C
      <3>3. working' + Count(in, K) >= orders' + Count(in, C)
        BY <1>1, <1>3, <1>5, <2>2, <2>3, <3>1, <3>2, SMTT(30)
      <3> QED
        BY <2>1, <3>3 DEF OrdersKnown, K, C
    <2> QED
      BY <1>1, <1>3, <1>7, <1>8, <2>5, <2>6 DEF Orderly
  <1> QED
    BY <1>9, <1>10

\* The connection is lost: if the end of the command is among what arrived, so
\* is every order it added.
LEMMA BreakStep == ASSUME SessionInv, TypeOK', Healthy, Break PROVE Orderly'
  <1> DEFINE K == {"Accepted"}
             C == {"Fill", "Cancelled"}
             in == Incoming'
  <1>1. /\ Orderly /\ TypeOK /\ app \in Apps /\ working \in Int /\ orders \in Nat
        /\ request_id \in Nat /\ last_request \in Nat
    BY DEF SessionInv, TypeOK
  <1>2. UNCHANGED <<app, request_id, working, requests, reports, gateway, output, stopped, orders,
                    last_request>>
    BY DEF Break, appVars, flags, exchange
  <1>3. open /\ ~open'
    BY DEF Break
  <1>4. Submitted' = Submitted
    BY <1>2 DEF Submitted
  <1>5. OneRequest'
    <2>1. up' = up \/ (up' = <<>> /\ DOMAIN up' = {})
      <3>1. up' \in {up, <<>>}
        BY DEF Break
      <3> QED
        BY <3>1, SMTT(30)
    <2>2. Mine(requests)' /\ Mine(output)' /\ Mine(up)'
      BY <1>1, <1>2, <2>1 DEF Orderly, OneRequest, Mine
    <2>3. Len(requests') + Len(output') + Len(up') <= Len(requests) + Len(output) + Len(up)
      BY <1>1, <1>2, <2>1, QueueLengths, SMTT(30)
    <2> QED
      BY <1>1, <1>2, <2>2, <2>3, QueueMoves DEF Orderly
  <1>6. CancelledAll'
    BY <1>1, <1>2, <1>4 DEF Orderly, CancelledAll
  <1>7. PICK rest \in Seq(Reports) : Incoming = in \o rest /\ in \in Seq(Reports)
    BY <1>1, IncomingBroken, SMTT(30)
  <1> HIDE DEF in, K, C
  <1>8. /\ Len(in) \in Nat /\ Len(rest) \in Nat /\ DOMAIN in = 1..Len(in) /\ DOMAIN rest = 1..Len(rest)
        /\ Len(Incoming) = Len(in) + Len(rest)
        /\ \A i \in 1..(Len(in) + Len(rest)) :
               Incoming[i] = IF i <= Len(in) THEN in[i] ELSE rest[i - Len(in)]
    BY <1>7, LenProperties, ConcatProperties
  <1>9. DOMAIN Incoming = 1..(Len(in) + Len(rest))
    BY <1>1, <1>8, IncomingType
  <1>10. /\ \A i \in DOMAIN in : i \in DOMAIN Incoming /\ Incoming[i] = in[i]
         /\ \A i \in DOMAIN rest : Len(in) + i \in DOMAIN Incoming /\ Incoming[Len(in) + i] = rest[i]
    BY <1>8, <1>9, SMTT(30)
  <1>11. ReportsInOrder'
    <2>1. \A i \in DOMAIN in : \A j \in 1..(i - 1) : j \in DOMAIN in
      BY <1>8, SMTT(30)
    <2>2. \A i \in DOMAIN in : /\ in[i].request_id <= last_request
                               /\ in[i].report = "Accepted" =>
                                     /\ Submitted /\ last_request = request_id
                                     /\ \A j \in 1..(i - 1) : ~Done(in[j])
      BY <1>1, <1>10, <2>1 DEF Orderly, ReportsInOrder
    <2> QED
      BY <1>2, <1>4, <2>2 DEF ReportsInOrder, Done, in
  <1>12. ASSUME ~Doomed' PROVE Count(rest, K) = 0
    <2>1. ~Submitted \/ \E i \in DOMAIN in : Done(in[i])
      BY <1>2, <1>3, <1>4, <1>12 DEF Doomed, Done, in
    <2>2. \A i \in DOMAIN rest : rest[i].report \notin K
      <3> SUFFICES ASSUME NEW i \in DOMAIN rest, rest[i].report = "Accepted" PROVE FALSE
        BY DEF K
      <3>1. Submitted /\ \A j \in 1..(Len(in) + i - 1) : ~Done(Incoming[j])
        BY <1>1, <1>10, SMTT(30) DEF Orderly, ReportsInOrder
      <3>2. \A j \in DOMAIN in : j \in 1..(Len(in) + i - 1)
        BY <1>8, SMTT(30)
      <3> QED
        BY <1>10, <2>1, <3>1, <3>2, SMTT(30)
    <2> QED
      BY <2>2, CountNone
  <1>13. OrdersKnown'
    <2> SUFFICES ASSUME ~Doomed' PROVE OrdersKnown'
      BY DEF OrdersKnown
    <2>1. /\ Count(in, K) \in Nat /\ Count(in, C) \in Nat
          /\ Count(rest, K) \in Nat /\ Count(rest, C) \in Nat
      BY <1>7, CountNat
    <2>2. \A kinds : Count(in \o rest, kinds) = Count(in, kinds) + Count(rest, kinds)
      BY <1>7, CountConcat
    <2>3. /\ Count(Incoming, K) = Count(in, K) + Count(rest, K)
          /\ Count(Incoming, C) = Count(in, C) + Count(rest, C)
      BY <1>7, <2>2
    <2>4. working + Count(Incoming, K) >= orders + Count(Incoming, C)
      BY <1>1, <1>3 DEF Orderly, OrdersKnown, Doomed, K, C
    <2>5. working' + Count(in, K) >= orders' + Count(in, C)
      BY <1>1, <1>2, <1>12, <2>1, <2>3, <2>4, SMTT(30)
    <2> QED
      BY <2>5 DEF OrdersKnown, in, K, C
  <1> QED
    BY <1>1, <1>2, <1>5, <1>6, <1>11, <1>13 DEF Orderly

-----------------------------------------------------------------------------
(* A clean exit *)

\* What close leaves behind stays as it is.
LEMMA StepKeepsLeft == ASSUME SessionInv, Next, TypeOK' PROVE Left'
  <1> DEFINE Nothing == orders = 0 /\ requests = <<>> /\ output = <<>> /\ up = <<>>
             Closed == app.mode = "closing" /\ app.cancel /\ app.at \in {"stop", "join", "recover", "ok"}
  <1>1. TypeOK /\ app \in Apps /\ Left
    BY DEF SessionInv, TypeOK
  <1>2. CASE UNCHANGED <<orders, requests, output, up>> /\ (Closed' => Closed)
    BY <1>1, <1>2 DEF Left
  <1>3. CASE AppCheck
    <2> SUFFICES ASSUME Closed' PROVE Nothing'
      BY DEF Left
    <2>1. app.at = "check" /\ UNCHANGED <<orders, requests, output, up>>
      BY <1>3 DEF AppCheck, wire, exchange
    <2>2. GoesOn("stop") /\ app' # Thrown(app)
      BY <1>1, <1>3, AppSteps, AppGoes DEF Throws
    <2>3. ~error
      BY <1>3, <2>2 DEF AppCheck
    <2>4. Healthy
      BY <2>1, <2>2, <2>3 DEF Healthy, GoesOn
    <2>5. Orderly /\ ~Submitted /\ app.cancel
      BY <2>1, <2>2, <2>4 DEF SessionInv, Submitted, GoesOn
    <2>6. requests = <<>> /\ output = <<>> /\ up = <<>> /\ orders = 0
      BY <1>1, <2>1, <2>5, NoneQueued DEF Orderly, CancelledAll
    <2> QED
      BY <2>1, <2>6
  <1>4. CASE Throws
    BY <1>4 DEF Left, Throws
  <1>5. CASE \/ \E action \in Actions : AppCalls(action)
             \/ AppFinish \/ AppDrain \/ AppDrainPop \/ AppDrained \/ AppPush \/ AppSignal \/ AppWait
             \/ AppWaitPop \/ AppPoll \/ AppClose \/ AppDeadline
    <2>1. Throws \/ app'.at \in {"drain", "drain_pop", "drained", "idle", "close", "push", "signal", "wait",
                                 "wait_pop", "poll", "check"}
      BY <1>1, <1>5, AppSteps DEF GoesOn, Begins
    <2> QED
      BY <1>4, <2>1, SMTT(30) DEF Left
  <1>6. CASE AppStop \/ AppJoin \/ AppRecover
    <2>1. UNCHANGED <<orders, requests, output, up>> /\ app.at \in {"stop", "join", "recover"}
      BY <1>6 DEF AppStop, AppJoin, AppRecover, wire, exchange
    <2>2. app'.mode = app.mode /\ app'.cancel = app.cancel
      BY <1>1, <1>6, AppSteps DEF GoesOn
    <2>3. Closed' => Closed
      BY <2>1, <2>2
    <2> QED
      BY <1>2, <2>1, <2>3
  <1>7. CASE Gateway \/ SubscriberEnds \/ SubscriberFails \/ SubscriberFailed \/ Serve \/ Trade \/ Break
    <2> SUFFICES ASSUME Closed' PROVE Nothing'
      BY DEF Left
    <2>1. Nothing
      <3>1. Closed
        BY <1>7, OthersLeaveApp
      <3> QED
        BY <1>1, <3>1 DEF Left
    <2>2. CASE \/ GatewayTop \/ GatewayPoll \/ GatewayRead \/ GatewayPush \/ GatewaySignal \/ GatewayFails
               \/ GatewayFailed \/ SubscriberEnds \/ SubscriberFails \/ SubscriberFailed
      <3>1. UNCHANGED <<orders, requests, output, up>>
        BY <2>2 DEF GatewayTop, GatewayPoll, GatewayRead, GatewayPush, GatewaySignal, GatewayFails,
                GatewayFailed, SubscriberEnds, SubscriberFails, SubscriberFailed, wire, exchange
      <3> QED
        BY <2>1, <3>1
    <2>3. CASE GatewayPop
      BY <2>1, <2>3 DEF GatewayPop, wire, exchange
    <2>4. CASE GatewayFlush
      <3>1. PICK n \in 0..Len(output) :
              /\ output' = SubSeq(output, n + 1, Len(output))
              /\ up' = IF open THEN up \o SubSeq(output, 1, n) ELSE up
        BY <2>4 DEF GatewayFlush
      <3>2. Len(output) = 0 /\ n = 0
        BY <2>1, SMTT(30)
      <3>3. SubSeq(output, n + 1, Len(output)) = <<>> /\ SubSeq(output, 1, n) = <<>>
        BY <3>2, SubSeqEmpty, SMTT(30)
      <3>4. <<>> \o <<>> = <<>>
        BY EmptySeq, ConcatEmptySeq
      <3>5. output' = <<>> /\ up' = <<>>
        BY <2>1, <3>1, <3>3, <3>4
      <3>6. UNCHANGED <<requests, orders>>
        BY <2>4 DEF GatewayFlush, exchange
      <3> QED
        BY <2>1, <3>5, <3>6
    <2>5. CASE Serve \/ Trade
      BY <2>1, <2>5, SMTT(30) DEF Serve, Trade
    <2>6. CASE Break
      BY <2>1, <2>6 DEF Break, exchange
    <2> QED
      BY <1>7, <2>2, <2>3, <2>4, <2>5, <2>6, SMTT(30) DEF Gateway
  <1> QED
    BY <1>3, <1>5, <1>6, <1>7, SMTT(30) DEF Next, App, Actions

\* Every step preserves the invariant.
LEMMA StepPreservesSession == ASSUME SessionInv, [Next]_vars PROVE SessionInv'
  <1>1. CASE UNCHANGED vars
    <2>1. TypeOK' /\ Ways' /\ FailuresShow'
      BY <1>1, StepKeepsTypes, StepKeepsWays, StepKeepsFailures DEF SessionInv
    <2>2. UNCHANGED <<app, request_id, working, requests, reports, error, stopped, gateway, output, up, down,
                      open, orders, last_request>>
      BY <1>1 DEF vars, appVars, flags, wire, exchange
    <2>3. Left'
      BY <2>2 DEF SessionInv, Left
    <2>4. Healthy' => Healthy
      BY <2>2 DEF Healthy
    <2>5. Incoming' = Incoming /\ Submitted' = Submitted
      BY <2>2 DEF Incoming, Submitted
    <2>6. Orderly => Orderly'
      <3> SUFFICES ASSUME Orderly PROVE Orderly'
        BY SMTT(30)
      <3>1. OneRequest' /\ CancelledAll'
        BY <2>2, <2>5 DEF Orderly, OneRequest, Mine, CancelledAll
      <3>2. ReportsInOrder' /\ OrdersKnown'
        BY <2>2, <2>5, QuietSteps DEF Orderly
      <3> QED
        BY <2>2, <3>1, <3>2 DEF Orderly
    <2> QED
      BY <2>1, <2>3, <2>4, <2>6 DEF SessionInv
  <1>2. CASE Next
    <2>1. TypeOK /\ Ways /\ FailuresShow
      BY DEF SessionInv
    <2>2. TypeOK' /\ Ways' /\ FailuresShow'
      BY <1>2, <2>1, StepKeepsTypes, StepKeepsWays, StepKeepsFailures
    <2>3. Left'
      BY <1>2, <2>2, StepKeepsLeft
    <2>4. ASSUME Healthy' PROVE Orderly'
      <3>1. Healthy
        BY <1>2, <2>1, <2>4, HealthyBefore
      <3>2. CASE \/ \E action \in Actions : AppCalls(action)
                 \/ AppFinish \/ AppDrain \/ AppDrainPop \/ AppDrained \/ AppPush \/ AppSignal \/ AppWait
                 \/ AppWaitPop \/ AppPoll \/ AppClose
        BY <2>2, <2>4, <3>1, <3>2, CallStep, DrainStep, DrainPopStep, DrainedStep, PushStep, WaitStep,
           WaitPopStep, CloseStep, SMTT(30)
      <3>3. ~(AppCheck \/ AppDeadline \/ AppStop \/ AppJoin \/ AppRecover)
        <4>1. app \in Apps /\ ~Throws
          BY <2>1, <2>4, SMTT(30) DEF TypeOK, Healthy, Throws
        <4>2. ~(GoesOn("stop") \/ GoesOn("join") \/ GoesOn("recover") \/ GoesOn("ok") \/ GoesOn("error"))
          BY <2>4 DEF Healthy, GoesOn
        <4> QED
          BY <4>1, <4>2, AppSteps
      <3>4. CASE Gateway
        <4>1. ~(GatewayFails \/ GatewayFailed)
          BY <2>1, <2>4, <3>1 DEF GatewayFails, GatewayFailed, Healthy, FailuresShow
        <4> QED
          BY <2>2, <3>1, <3>4, <4>1, GatewayReportStep, GatewayPopStep, GatewayFlushStep DEF Gateway
      <3>5. ~(SubscriberEnds \/ SubscriberFails \/ SubscriberFailed)
        BY <2>1, <2>4, <3>1 DEF SubscriberEnds, SubscriberFails, SubscriberFailed, Healthy,
           FailuresShow, SessionInv, Orderly
      <3>6. CASE Serve \/ Trade \/ Break
        BY <2>2, <3>1, <3>6, ServeStep, TradeStep, BreakStep
      <3> QED
        BY <1>2, <3>2, <3>3, <3>4, <3>5, <3>6 DEF Next, App, Actions
    <2> QED
      BY <2>2, <2>3, <2>4 DEF SessionInv
  <1> QED
    BY <1>1, <1>2

\* The invariant holds at the start.
LEMMA InitSession == Init => SessionInv
  <1> SUFFICES ASSUME Init PROVE SessionInv
    OBVIOUS
  <1>1. TypeOK /\ app.at = "idle" /\ app.mode = "run" /\ app.action = "poll"
    BY InitTypes DEF Init
  <1>2. /\ requests = <<>> /\ output = <<>> /\ up = <<>> /\ orders = 0 /\ working = 0
        /\ request_id = 0 /\ last_request = 0 /\ subscriber = "run" /\ gateway.at = "top"
    BY DEF Init
  <1>3. ~stopped
    BY DEF Init
  <1>4. ~Submitted
    BY <1>1 DEF Submitted
  <1>5. Incoming = <<>> /\ DOMAIN Incoming = {}
    <2>1. <<>> \o <<>> = <<>>
      BY EmptySeq, ConcatEmptySeq
    <2> QED
      BY <2>1, SMTT(30) DEF Incoming, Init
  <1>6. OneRequest
    BY <1>1, <1>2, <1>4, SMTT(30) DEF OneRequest, Mine
  <1>7. ReportsInOrder
    BY <1>5 DEF ReportsInOrder
  <1>8. OrdersKnown
    <2>1. Count(Incoming, {"Accepted"}) = 0 /\ Count(Incoming, {"Fill", "Cancelled"}) = 0
      BY <1>5, CountNone
    <2> QED
      BY <1>2, <2>1, SMTT(30) DEF OrdersKnown
  <1>9. CancelledAll
    BY <1>1, <1>4 DEF CancelledAll
  <1>10. Ways /\ FailuresShow /\ Left
    BY <1>1, <1>2 DEF Ways, FailuresShow, Left
  <1> QED
    BY <1>1, <1>3, <1>6, <1>7, <1>8, <1>9, <1>10 DEF SessionInv, Orderly

\* For queues of any capacity and any number of commands, whatever the
\* exchange, the connection and the other threads do: an application that was
\* told to cancel on exit and exits without an error has no order at the
\* exchange and no request on its way there.
THEOREM GatewayCleanExit == Spec => []CleanExit
  <1>1. SessionInv => CleanExit
    <2> SUFFICES ASSUME SessionInv, app.cancel, app.at = "ok"
                 PROVE  orders = 0 /\ requests \o output \o up = <<>>
      BY DEF CleanExit
    <2>1. orders = 0 /\ requests = <<>> /\ output = <<>> /\ up = <<>>
      BY DEF SessionInv, Ways, Left
    <2>2. <<>> \o <<>> = <<>>
      BY EmptySeq, ConcatEmptySeq
    <2> QED
      BY <2>1, <2>2
  <1> QED
    BY <1>1, InitSession, StepPreservesSession, PTL DEF Spec

=============================================================================
