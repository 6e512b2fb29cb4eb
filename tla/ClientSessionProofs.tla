------------------------- MODULE ClientSessionProofs -------------------------
(* The client's session, for every number of cards, tokens, seats and        *)
(* requests in flight.                                                       *)
EXTENDS ClientSession, TLAPS

\* A session is on the card that it is taken to be on, or has ended.
OnCard(token, card) == token \in Tokens => alive[token] \in {NoCard, card}

Known(token) == token \in Tokens => token \in issued

\* What a request in flight has found, as far as it cannot change again.
Holds(r, rows, given, ended, left) ==
  /\ {r.token, r.granted} \cap Tokens \subseteq given
  /\ r.granted # NoToken => r.kind = "activate" /\ r.result = "ok"
  /\ r.kind = "activate" /\ r.result = "ok" =>
       r.granted \in Tokens /\ rows[r.granted] \in {NoCard, r.card}
  /\ r.kind # "activate" => r.token \in Tokens
  /\ r.kind \in {"heartbeat", "restore"} /\ r.result = "ok" =>
       rows[r.token] \in {NoCard, r.card}
  /\ r.kind = "heartbeat" /\ r.result = "refused" =>
       rows[r.token] = NoCard \/ rows[r.token] \in ended
  /\ r.kind = "chat" /\ r.result = "refused" =>
       \/ rows[r.token] = NoCard \/ rows[r.token] \in ended
       \/ r.card \notin {NoCard, rows[r.token]}
  /\ r.kind = "deactivate" =>
       /\ r.result \in {"none", "ok", "failed", "dropped"}
       /\ r.result = "ok" => rows[r.token] = NoCard
       /\ r.result = "dropped" => left

RequestHolds(r) == Holds(r, alive, issued, over, spilled)
StillHolds(r) == Holds(r, alive', issued', over', spilled')

RequestsInv == \A s \in Slots : request[s] # NoRequest => RequestHolds(request[s])

\* Tokens come from the server, and it gives out none twice.
IssuedInv ==
  /\ \A t \in Tokens : alive[t] # NoCard => t \in issued
  /\ Known(saved.token) /\ Known(window.token)
  /\ pending \subseteq issued

\* What the worker has read stays in the file until it is done.
FlushInv ==
  /\ ~flush.running => flush = NoFlush
  /\ ~restored => ~flush.running
  /\ flush.read \subseteq pending
  /\ flush.todo \cup flush.keep \subseteq flush.read
  /\ ~spilled => \A t \in flush.read :
       alive[t] # NoCard => t \in flush.todo \cup flush.keep

\* The controller's session is the saved one.
SavedInv ==
  /\ controller.token \in {NoToken, saved.token}
  /\ OnCard(saved.token, saved.card)

\* Window and controller agree, in both directions.
WindowInv ==
  ~late =>
    /\ window.activated <=> controller.state = "Active"
    /\ window.activated =>
         /\ window.token = controller.token /\ window.token \in Tokens
         /\ OnCard(window.token, window.expiry)

IInv == /\ TypeOK /\ RequestsInv /\ IssuedInv /\ FlushInv /\ SavedInv
        /\ WindowInv /\ SeatsAccounted

-----------------------------------------------------------------------------
(* Requests and the slots they take.                                       *)

\* No token is a token of nobody.
LEMMA SentIsRequest ==
  ASSUME NEW kind \in Kinds, NEW token \in Token, NEW card \in CardOrNone
  PROVE  /\ Sent(kind, token, card) \in Request
         /\ Sent(kind, token, card).kind = kind
         /\ Sent(kind, token, card).token = token
         /\ Sent(kind, token, card).card = card
         /\ Sent(kind, token, card).result = "none"
         /\ Sent(kind, token, card).granted = NoToken
BY DEF Sent, Request, Results, Token

\* A new request asks for nothing that is known already.
LEMMA SentHolds ==
  ASSUME NEW kind \in Kinds, NEW token \in Token, NEW card \in CardOrNone,
         Known(token), kind = "activate" \/ token \in Tokens
  PROVE  RequestHolds(Sent(kind, token, card))
BY SentIsRequest, NamesAssumption DEF RequestHolds, Holds, Known, NamesAssumption

LEMMA DeactivationHolds ==
  ASSUME NEW token \in Token, Known(token)
  PROVE  /\ Deactivation(token) \in Request \cup {NoRequest}
         /\ token = NoToken => Deactivation(token) = NoRequest
         /\ token # NoToken =>
              /\ Deactivation(token) \in Request
              /\ RequestHolds(Deactivation(token))
              /\ Deactivation(token).kind = "deactivate"
              /\ Deactivation(token).token = token
<1>1. "deactivate" \in Kinds /\ NoCard \in CardOrNone
  BY DEF Kinds, CardOrNone
<1>2. token # NoToken => token \in Tokens
  BY DEF Token
<1>3. QED
  BY <1>1, <1>2, SentIsRequest, SentHolds DEF Deactivation

\* Send puts the request into a slot that was empty.
LEMMA SendTakesSlot ==
  ASSUME NEW r, Send(r)
  PROVE  \E s \in Slots : /\ request[s] = NoRequest
                          /\ request' = [request EXCEPT ![s] = r]
<1>1. \E s \in Slots : request[s] = NoRequest
  BY DEF Send, Free
<1>2. FirstFree \in Slots /\ request[FirstFree] = NoRequest
  BY <1>1 DEF FirstFree
<1>3. QED
  BY <1>2 DEF Send

-----------------------------------------------------------------------------
(* The actions, by what they touch.                                        *)

LEMMA ActionCases ==
  ASSUME [Next]_vars
  PROVE  \/ \E s \in Slots : Serve(s) \/ LoseAnswer(s) \/ Continue(s)
         \/ \E t \in Tokens : SessionEnds(t) \/ FlushOne(t)
         \/ \E c \in Cards : CardEnds(c) \/ FillFromClipboard(c)
         \/ \E card \in CardOrNone : EnterCard(card)
         \/ TryRestoreSession \/ ClickActivate \/ ClickDeactivate
         \/ PerformHeartbeat \/ CheckCardExpiry \/ SendChatMessage \/ FlushEnd \/ Restart
         \/ UNCHANGED vars
BY DEF Next

\* The server and the network.
Outside == \/ \E s \in Slots : Serve(s) \/ LoseAnswer(s)
           \/ \E t \in Tokens : SessionEnds(t)
           \/ \E c \in Cards : CardEnds(c)

\* A change of the text in the input.
Enters == \/ \E card \in CardOrNone : EnterCard(card)
          \/ \E c \in Cards : FillFromClipboard(c)

\* The handlers of the window's thread.
Handler == \/ \E s \in Slots : Continue(s)
           \/ Enters
           \/ TryRestoreSession \/ ClickActivate \/ ClickDeactivate
           \/ PerformHeartbeat \/ CheckCardExpiry \/ SendChatMessage

Worker == (\E t \in Tokens : FlushOne(t)) \/ FlushEnd

LEMMA ActionKinds ==
  ASSUME [Next]_vars
  PROVE  Outside \/ Handler \/ Worker \/ Restart \/ UNCHANGED vars
BY ActionCases DEF Outside, Handler, Enters, Worker

LEMMA EntersOnlyText ==
  ASSUME Enters
  PROVE  /\ \E card \in CardOrNone : window' = [window EXCEPT !.input = card]
         /\ UNCHANGED <<server, settings, restored, controller, request, flush,
                        history>>
BY DEF Enters, EnterCard, FillFromClipboard, CardOrNone

LEMMA OutsideLeavesClient ==
  ASSUME Outside
  PROVE  UNCHANGED client /\ (spilled => spilled')
<1> USE DEF client
<1>1. ASSUME NEW s \in Slots, Serve(s)
      PROVE  UNCHANGED client /\ (spilled => spilled')
  <2>1. CASE ServeActivate(s) \/ ServeHeartbeat(s)
    BY <2>1 DEF ServeActivate, ServeHeartbeat
  <2>2. CASE ServeChat(s) \/ ServeDeactivate(s) \/ LoseRequest(s)
    BY <2>2 DEF ServeChat, ServeDeactivate, LoseRequest
  <2>3. CASE Reject(s)
    BY <2>3 DEF Reject
  <2>4. QED
    BY <1>1, <2>1, <2>2, <2>3 DEF Serve
<1>2. ASSUME NEW s \in Slots, LoseAnswer(s)
      PROVE  UNCHANGED client /\ (spilled => spilled')
  BY <1>2 DEF LoseAnswer
<1>3. QED
  BY <1>1, <1>2 DEF Outside, SessionEnds, CardEnds

LEMMA HandlerLeavesServer ==
  ASSUME Handler
  PROVE  UNCHANGED server /\ (spilled => spilled') /\ (late => late')
<1> USE DEF history
<1>1. ASSUME NEW s \in Slots, Continue(s)
      PROVE  UNCHANGED server /\ (spilled => spilled') /\ (late => late')
  <2>1. CASE ActivateDone(s)
    <3>1. UNCHANGED server
      BY <2>1 DEF ActivateDone
    <3>2. late => late'
      BY <2>1, Zenon DEF ActivateDone, Observe
    <3>3. spilled => spilled'
      BY <2>1, Zenon DEF ActivateDone
    <3>4. QED
      BY <3>1, <3>2, <3>3
  <2>2. CASE RestoreDone(s)
    <3>1. UNCHANGED server
      BY <2>2 DEF RestoreDone
    <3>2. late => late'
      BY <2>2, Zenon DEF RestoreDone, Observe
    <3>3. UNCHANGED spilled
      BY <2>2, Zenon DEF RestoreDone, EndSession
    <3>4. QED
      BY <3>1, <3>2, <3>3
  <2>3. CASE HeartbeatDone(s)
    BY <2>3 DEF HeartbeatDone, EndSession, HeartbeatFails, CountFailure,
       Reconnect
  <2>4. CASE ChatDone(s)
    BY <2>4, Zenon DEF ChatDone, Observe, CloseWindow
  <2>5. CASE DeactivateDone(s)
    BY <2>5 DEF DeactivateDone
  <2>6. QED
    BY <1>1, <2>1, <2>2, <2>3, <2>4, <2>5 DEF Continue
<1>2. QED
  BY <1>1, EntersOnlyText DEF Handler, ClickActivate, TryRestoreSession, ClickDeactivate,
     PerformHeartbeat, CheckCardExpiry, CloseWindow, SendChatMessage

-----------------------------------------------------------------------------
(* Sessions only end, tokens are only given out, cards only expire.        *)

Forward ==
  /\ issued \subseteq issued' /\ over \subseteq over'
  /\ spilled => spilled'
  /\ \A t \in Tokens : t \in issued => alive'[t] \in {alive[t], NoCard}

LEMMA StepsGoForward ==
  ASSUME TypeOK, [Next]_vars
  PROVE  Forward
<1>0. alive \in [Tokens -> CardOrNone] /\ issued \subseteq Tokens
  BY DEF TypeOK
<1>1. ASSUME NEW s \in Slots, Serve(s)
      PROVE  Forward
  <2>1. CASE ServeActivate(s)
    BY <1>0, <2>1 DEF ServeActivate, Forward
  <2>2. CASE ServeDeactivate(s)
    BY <1>0, <2>2 DEF ServeDeactivate, Forward
  <2>3. CASE UNCHANGED server /\ (spilled => spilled')
    BY <2>3 DEF server, Forward
  <2>4. QED
    BY <1>1, <2>1, <2>2, <2>3 DEF Serve, ServeHeartbeat, ServeChat, Reject,
       LoseRequest
<1>2. ASSUME NEW t \in Tokens, SessionEnds(t) \/ FlushOne(t)
      PROVE  Forward
  BY <1>0, <1>2 DEF SessionEnds, FlushOne, Forward
<1>3. ASSUME NEW c \in Cards, CardEnds(c)
      PROVE  Forward
  BY <1>0, <1>3 DEF CardEnds, Forward
<1>4. CASE Handler
  BY <1>4, HandlerLeavesServer DEF server, Forward
<1>5. CASE FlushEnd \/ Restart \/ UNCHANGED vars
  <2>1. UNCHANGED server
    BY <1>5 DEF FlushEnd, Restart, vars
  <2>2. spilled => spilled'
    BY <1>5, Zenon DEF FlushEnd, Restart, vars, history
  <2>3. QED
    BY <2>1, <2>2 DEF Forward, server
<1>6. ASSUME NEW s \in Slots, LoseAnswer(s)
      PROVE  Forward
  BY <1>6 DEF LoseAnswer, server, Forward
<1>7. QED
  BY <1>1, <1>2, <1>3, <1>4, <1>5, <1>6, ActionKinds DEF Outside, Worker

LEMMA ForwardKeeps ==
  ASSUME Forward, NEW token, Known(token)
  PROVE  /\ Known(token)'
         /\ \A card : OnCard(token, card) => OnCard(token, card)'
         /\ token \in Tokens /\ alive[token] = NoCard => alive'[token] = NoCard
         /\ token \in Tokens /\ ~Renewable(token) => ~Renewable(token)'
BY DEF Forward, Known, OnCard, Renewable

LEMMA ForwardKeepsRequest ==
  ASSUME Forward, NEW r, RequestHolds(r)
  PROVE  StillHolds(r)
BY NamesAssumption
   DEF RequestHolds, StillHolds, Holds, Forward, NamesAssumption

-----------------------------------------------------------------------------
(* What the requests in flight have found.                                 *)

RequestTypes == request \in [Slots -> Request \cup {NoRequest}]

LEMMA Replaced ==
  ASSUME RequestTypes, RequestsInv, Forward, NEW s \in Slots,
         NEW r \in Request \cup {NoRequest},
         request' = [request EXCEPT ![s] = r],
         r # NoRequest => StillHolds(r)
  PROVE  RequestTypes' /\ RequestsInv'
<1>1. RequestTypes'
  BY DEF RequestTypes
<1>2. ASSUME NEW x \in Slots, request'[x] # NoRequest
      PROVE  StillHolds(request'[x])
  <2>1. CASE x = s
    BY <1>2, <2>1 DEF RequestTypes
  <2>2. CASE x # s
    <3>1. request'[x] = request[x]
      BY <2>2 DEF RequestTypes
    <3>2. QED
      BY <1>2, <3>1, ForwardKeepsRequest DEF RequestsInv
  <2>3. QED
    BY <2>1, <2>2
<1>3. QED
  BY <1>1, <1>2 DEF RequestsInv, RequestHolds, StillHolds

LEMMA SentInto ==
  ASSUME RequestTypes, RequestsInv, Forward, NEW r \in Request \cup {NoRequest},
         Send(r), r # NoRequest => RequestHolds(r)
  PROVE  RequestTypes' /\ RequestsInv'
BY SendTakesSlot, Replaced, ForwardKeepsRequest

LEMMA RequestsStay ==
  ASSUME RequestTypes, RequestsInv, Forward, UNCHANGED request
  PROVE  RequestTypes' /\ RequestsInv'
<1>1. ASSUME NEW x \in Slots, request[x] # NoRequest
      PROVE  StillHolds(request[x])
  BY <1>1, ForwardKeepsRequest DEF RequestsInv
<1>2. QED
  BY <1>1 DEF RequestTypes, RequestsInv, RequestHolds, StillHolds

\* The tokens that handlers put into requests.
LEMMA TokensKnown ==
  ASSUME IInv
  PROVE  /\ controller.token \in Token /\ Known(controller.token)
         /\ saved.token \in Token /\ Known(saved.token)
         /\ window.token \in Token /\ Known(window.token)
         /\ saved.card \in CardOrNone /\ window.input \in CardOrNone
BY NamesAssumption
   DEF IInv, TypeOK, Controller, Window, SavedSession, SavedInv, IssuedInv,
       Known, NamesAssumption

LEMMA OutsideRequests ==
  ASSUME IInv, [Next]_vars, Outside
  PROVE  RequestTypes' /\ RequestsInv'
<1>0. RequestTypes /\ RequestsInv /\ Forward /\ issued \subseteq Tokens
      /\ alive \in [Tokens -> CardOrNone]
  BY StepsGoForward DEF IInv, TypeOK, RequestTypes
<1>1. ASSUME NEW s \in Slots, Serve(s) \/ LoseAnswer(s)
      PROVE  RequestTypes' /\ RequestsInv'
  <2> DEFINE r == request[s]
  <2>1. r \in Request /\ RequestHolds(r)
    BY <1>0, <1>1 DEF Serve, ServeActivate, ServeHeartbeat, ServeChat,
       ServeDeactivate, Reject, LoseRequest, LoseAnswer, Waiting,
       RequestTypes, RequestsInv
  <2>2. StillHolds(r)
    BY <1>0, <2>1, ForwardKeepsRequest
  <2>3. r.kind \in Kinds /\ r.token \in Token /\ r.card \in CardOrNone
        /\ r.granted \in Token /\ r.result \in Results
    BY <2>1 DEF Request
  <2> DEFINE put(result, card, granted) ==
        [kind |-> r.kind, token |-> r.token, card |-> card,
         result |-> result, granted |-> granted]
  <2>4. ASSUME NEW result \in Results, NEW card \in CardOrNone,
               NEW granted \in Token,
               request' = [request EXCEPT ![s] = put(result, card, granted)],
               StillHolds(put(result, card, granted))
        PROVE  RequestTypes' /\ RequestsInv'
    <3>1. put(result, card, granted) \in Request
      BY <2>3 DEF Request
    <3>2. QED
      BY <1>0, <2>4, <3>1, Replaced
  <2>5. r = put(r.result, r.card, r.granted)
    BY <2>1 DEF Request
  <2>6. ASSUME NEW result \in Results, Answer(s, result)
        PROVE  request' = [request EXCEPT ![s] = put(result, r.card, r.granted)]
    BY <2>6 DEF Answer, Reply
  <2>15. /\ "ok" \in Results /\ "refused" \in Results /\ "outdated" \in Results
         /\ "unauthorized" \in Results
         /\ "failed" \in Results /\ "dropped" \in Results
    BY DEF Results
  <2>16. NoToken \in Token /\ Tokens \subseteq Token
    BY DEF Token
  <2>7. CASE ServeActivate(s)
    <3>1. r.kind = "activate" /\ r.result = "none"
      BY <2>7 DEF ServeActivate, Waiting
    <3>2. CASE Answer(s, "refused")
      <4>1. StillHolds(put("refused", r.card, r.granted))
        BY <2>2, <3>1 DEF StillHolds, Holds
      <4>2. QED
        BY <2>3, <2>4, <2>6, <2>15, <3>2, <4>1
    <3>3. CASE ~Answer(s, "refused")
      <4>1. PICK t \in Tokens \ issued :
              /\ alive' = [alive EXCEPT ![t] = r.card]
              /\ issued' = issued \cup {t}
              /\ Reply(s, "ok", r.card, t)
        BY <2>7, <3>3 DEF ServeActivate
      <4>2. request' = [request EXCEPT ![s] = put("ok", r.card, t)]
        BY <4>1 DEF Reply
      <4>3. alive'[t] = r.card /\ t \in issued'
        BY <1>0, <4>1
      <4>4. StillHolds(put("ok", r.card, t))
        BY <2>2, <3>1, <4>3 DEF StillHolds, Holds
      <4>5. t \in Token
        BY DEF Token
      <4>6. QED
        BY <2>3, <2>4, <2>15, <4>2, <4>4, <4>5
    <3>4. QED
      BY <3>2, <3>3
  <2>8. CASE ServeHeartbeat(s)
    <3>1. /\ r.kind \in {"heartbeat", "restore"} /\ r.result = "none"
          /\ UNCHANGED server
      BY <2>8 DEF ServeHeartbeat, Waiting
    <3>2. CASE Renewable(r.token)
      <4>1. Reply(s, "ok", alive[r.token], NoToken)
        BY <2>8, <3>2 DEF ServeHeartbeat
      <4>2. r.token \in Tokens /\ alive[r.token] \in CardOrNone
        BY <1>0, <2>1, <3>1 DEF RequestHolds, Holds
      <4>3. request' = [request EXCEPT ![s] =
                          put("ok", alive[r.token], NoToken)]
        BY <4>1 DEF Reply
      <4>4. StillHolds(put("ok", alive[r.token], NoToken))
        BY <2>2, <3>1, NamesAssumption DEF NamesAssumption, StillHolds, Holds, server
      <4>5. QED
        BY <2>4, <2>15, <2>16, <4>2, <4>3, <4>4
    <3>3. CASE ~Renewable(r.token)
      <4>1. Answer(s, "refused")
        BY <2>8, <3>3 DEF ServeHeartbeat
      <4>2. r.token \in Tokens
        BY <2>1, <3>1 DEF RequestHolds, Holds
      <4>3. StillHolds(put("refused", r.card, r.granted))
        BY <2>2, <3>1, <3>3, <4>2, NamesAssumption
           DEF StillHolds, Holds, server, Renewable, NamesAssumption
      <4>4. QED
        BY <2>3, <2>4, <2>6, <2>15, <4>1, <4>3
    <3>4. QED
      BY <3>2, <3>3
  <2>9. CASE ServeChat(s)
    <3>1. /\ r.kind = "chat" /\ r.result = "none" /\ UNCHANGED server
          /\ Answer(s, IF Bound(r.token, r.card) THEN "ok" ELSE "refused")
      BY <2>9 DEF ServeChat, Waiting
    <3>2. r.token \in Tokens
      BY <2>1, <3>1 DEF RequestHolds, Holds
    <3>3. /\ StillHolds(put("ok", r.card, r.granted))
          /\ ~Bound(r.token, r.card) =>
               StillHolds(put("refused", r.card, r.granted))
      BY <2>2, <3>1, <3>2, NamesAssumption
         DEF StillHolds, Holds, server, Bound, Renewable, NamesAssumption
    <3>4. QED
      BY <2>3, <2>4, <2>6, <2>15, <3>1, <3>3
  <2>10. CASE ServeDeactivate(s)
    <3>1. /\ r.kind = "deactivate" /\ r.result = "none" /\ Answer(s, "ok")
          /\ alive' = [alive EXCEPT ![r.token] = NoCard]
      BY <2>10 DEF ServeDeactivate, Waiting
    <3>2. r.token \in Tokens
      BY <2>1, <3>1 DEF RequestHolds, Holds
    <3>3. alive'[r.token] = NoCard
      BY <1>0, <3>1, <3>2
    <3>4. StillHolds(put("ok", r.card, r.granted))
      BY <2>2, <3>1, <3>3 DEF StillHolds, Holds
    <3>5. QED
      BY <2>3, <2>4, <2>6, <2>15, <3>1, <3>4
  <2>11. CASE Reject(s)
    <3>1. r.result = "none"
      BY <2>11 DEF Reject, Waiting
    <3>2. ASSUME NEW result \in {"unauthorized", "outdated"},
                 r.kind # "deactivate", Answer(s, result)
          PROVE  RequestTypes' /\ RequestsInv'
      <4>1. StillHolds(put(result, r.card, r.granted))
        BY <2>2, <3>1, <3>2 DEF StillHolds, Holds
      <4>2. QED
        BY <2>3, <2>4, <2>6, <2>15, <3>2, <4>1
    <3>3. CASE r.kind = "deactivate" /\ Answer(s, "dropped") /\ spilled'
      <4>1. StillHolds(put("dropped", r.card, r.granted))
        BY <2>2, <3>1, <3>3 DEF StillHolds, Holds
      <4>2. QED
        BY <2>3, <2>4, <2>6, <2>15, <3>3, <4>1
    <3>4. QED
      BY <2>11, <3>2, <3>3 DEF Reject
  <2>12. CASE LoseRequest(s)
    <3>1. r.result = "none" /\ Answer(s, "failed")
      BY <2>12 DEF LoseRequest, Waiting
    <3>2. StillHolds(put("failed", r.card, r.granted))
      BY <2>2, <3>1 DEF StillHolds, Holds
    <3>3. QED
      BY <2>3, <2>4, <2>6, <2>15, <3>1, <3>2
  <2>13. CASE LoseAnswer(s)
    <3>1. request' = [request EXCEPT ![s] = put("failed", r.card, NoToken)]
      BY <2>13 DEF LoseAnswer, Reply
    <3>2. NoToken \in Token
      BY DEF Token
    <3>3. StillHolds(put("failed", r.card, NoToken))
      BY <2>2, NamesAssumption DEF StillHolds, Holds, NamesAssumption
    <3>4. QED
      BY <2>3, <2>4, <2>15, <3>1, <3>2, <3>3
  <2>14. QED
    BY <1>1, <2>7, <2>8, <2>9, <2>10, <2>11, <2>12, <2>13 DEF Serve
<1>2. CASE UNCHANGED request
  BY <1>0, <1>2, RequestsStay
<1>3. QED
  BY <1>1, <1>2 DEF Outside, SessionEnds, CardEnds

LEMMA HandlerRequests ==
  ASSUME IInv, [Next]_vars, Handler
  PROVE  RequestTypes' /\ RequestsInv'
<1>0. RequestTypes /\ RequestsInv /\ Forward
  BY StepsGoForward DEF IInv, TypeOK, RequestTypes
<1>1. ASSUME NEW token \in Token, Known(token)
      PROVE  /\ Deactivation(token) \in Request \cup {NoRequest}
             /\ Deactivation(token) # NoRequest =>
                  /\ RequestHolds(Deactivation(token))
                  /\ StillHolds(Deactivation(token))
  BY <1>0, <1>1, DeactivationHolds, ForwardKeepsRequest
<1>2. ASSUME NEW kind \in Kinds, NEW token \in Token, NEW card \in CardOrNone,
             Known(token), kind = "activate" \/ token \in Tokens
      PROVE  /\ Sent(kind, token, card) \in Request
             /\ RequestHolds(Sent(kind, token, card))
             /\ StillHolds(Sent(kind, token, card))
  BY <1>0, <1>2, SentIsRequest, SentHolds, ForwardKeepsRequest
<1>3. ASSUME NEW s \in Slots, Done(s)
      PROVE  RequestTypes' /\ RequestsInv'
  BY <1>0, <1>3, Replaced DEF Done
<1>4. ASSUME NEW s \in Slots, NEW token \in Token, Known(token),
             request' = [request EXCEPT ![s] = Deactivation(token)]
      PROVE  RequestTypes' /\ RequestsInv'
  BY <1>0, <1>1, <1>4, Replaced
<1>5. ASSUME NEW token \in Token, Known(token), Send(Deactivation(token))
      PROVE  RequestTypes' /\ RequestsInv'
  BY <1>0, <1>1, <1>5, SentInto
<1>6. ASSUME NEW kind \in Kinds, NEW token \in Token, NEW card \in CardOrNone,
             Known(token), kind = "activate" \/ token \in Tokens,
             Send(Sent(kind, token, card))
      PROVE  RequestTypes' /\ RequestsInv'
  BY <1>0, <1>2, <1>6, SentInto
<1>7. /\ {"activate", "restore", "heartbeat", "chat", "deactivate"} \subseteq Kinds
      /\ NoCard \in CardOrNone /\ Cards \subseteq CardOrNone
  BY DEF Kinds, CardOrNone
<1>8. ASSUME NEW token \in Token, token # NoToken
      PROVE  token \in Tokens
  BY <1>8 DEF Token
<1>9. ASSUME NEW s \in Slots, Continue(s)
      PROVE  RequestTypes' /\ RequestsInv'
  <2>1. ASSUME EndSession(s)
        PROVE  RequestTypes' /\ RequestsInv'
    BY <1>4, <2>1, TokensKnown DEF EndSession
  <2>2. ASSUME HeartbeatFails(s)
        PROVE  RequestTypes' /\ RequestsInv'
    <3>1. CASE CountFailure(s)
      BY <1>3, <3>1 DEF CountFailure
    <3>2. CASE Reconnect(s) /\ saved.card \in Cards \ over
      <4>1. request' = [request EXCEPT ![s] =
                          Sent("activate", controller.token, saved.card)]
        BY <3>2 DEF Reconnect
      <4>2. QED
        BY <1>0, <1>2, <1>7, <4>1, TokensKnown, Replaced
    <3>3. CASE Reconnect(s) /\ saved.card \notin Cards \ over
      BY <1>4, <3>3, TokensKnown DEF Reconnect
    <3>4. QED
      BY <2>2, <3>1, <3>2, <3>3 DEF HeartbeatFails
  <2>3. CASE ActivateDone(s) \/ DeactivateDone(s)
    BY <1>3, <2>3 DEF ActivateDone, DeactivateDone
  <2>4. CASE RestoreDone(s)
    BY <1>3, <2>1, <2>4 DEF RestoreDone
  <2>5. CASE HeartbeatDone(s)
    BY <1>3, <2>1, <2>2, <2>5 DEF HeartbeatDone
  <2>6. CASE ChatDone(s)
    BY <1>3, <1>4, <2>6, TokensKnown DEF ChatDone
  <2>7. QED
    BY <1>9, <2>3, <2>4, <2>5, <2>6 DEF Continue
<1>10. CASE ClickActivate
  <2>1. CASE Send(Sent("activate", controller.token, window.input))
    BY <1>6, <1>7, <2>1, TokensKnown
  <2>2. CASE UNCHANGED request
    BY <1>0, <2>2, RequestsStay
  <2>3. QED
    BY <1>10, <2>1, <2>2 DEF ClickActivate
<1>11. CASE TryRestoreSession
  <2>1. CASE UNCHANGED request
    BY <1>0, <2>1, RequestsStay
  <2>2. CASE Send(Deactivation(saved.token))
    BY <1>5, <2>2, TokensKnown
  <2>3. CASE saved.token # NoToken /\ Send(Sent("restore", saved.token, saved.card))
    BY <1>6, <1>7, <1>8, <2>3, TokensKnown
  <2>4. QED
    BY <1>11, <2>1, <2>2, <2>3 DEF TryRestoreSession
<1>12. CASE ClickDeactivate \/ CheckCardExpiry
  BY <1>5, <1>12, TokensKnown DEF ClickDeactivate, CheckCardExpiry
<1>13. CASE PerformHeartbeat
  <2>1. /\ controller.token # NoToken
        /\ Send(Sent("heartbeat", controller.token, NoCard))
    BY <1>13 DEF PerformHeartbeat
  <2>2. QED
    BY <1>6, <1>7, <1>8, <2>1, TokensKnown
<1>14. CASE SendChatMessage
  <2>1. window.token # NoToken /\ Send(Sent("chat", window.token, window.input))
    BY <1>14 DEF SendChatMessage
  <2>2. QED
    BY <1>6, <1>7, <1>8, <2>1, TokensKnown
<1>15. CASE Enters
  BY <1>0, <1>15, EntersOnlyText, RequestsStay
<1>16. QED
  BY <1>9, <1>10, <1>11, <1>12, <1>13, <1>14, <1>15 DEF Handler

LEMMA RequestsStep ==
  ASSUME IInv, [Next]_vars
  PROVE  RequestTypes' /\ RequestsInv'
<1>0. RequestTypes /\ RequestsInv /\ Forward
  BY StepsGoForward DEF IInv, TypeOK, RequestTypes
<1>1. CASE Worker \/ UNCHANGED vars
  <2>1. UNCHANGED request
    BY <1>1 DEF Worker, FlushOne, FlushEnd, vars
  <2>2. QED
    BY <1>0, <2>1, RequestsStay
<1>2. CASE Restart
  BY <1>2 DEF Restart, RequestTypes, RequestsInv
<1>3. QED
  BY <1>1, <1>2, ActionKinds, OutsideRequests, HandlerRequests

-----------------------------------------------------------------------------
(* The records after a step.                                               *)

LEMMA Windows ==
  ASSUME window \in Window
  PROVE  /\ ClosedWindow \in Window /\ ~ClosedWindow.activated
         /\ ResetWindow \in Window
         /\ \A token \in Token, card \in CardOrNone :
              LET w == OpenedWindow(token, card) IN
                /\ w \in Window /\ w.activated
                /\ w.token = token /\ w.expiry = card
<1>1. NoToken \in Token /\ NoCard \in CardOrNone
  BY DEF Token, CardOrNone
<1>2. ClosedWindow \in Window /\ ClosedWindow.activated = FALSE
  BY <1>1 DEF ClosedWindow, Window
<1>3. ASSUME NEW token \in Token, NEW card \in CardOrNone
      PROVE  /\ OpenedWindow(token, card) \in Window
             /\ OpenedWindow(token, card).activated = TRUE
             /\ OpenedWindow(token, card).token = token
             /\ OpenedWindow(token, card).expiry = card
  BY DEF OpenedWindow, Window
<1>4. QED
  BY <1>2, <1>3 DEF ResetWindow

LEMMA Controllers ==
  ASSUME NEW c \in Controller
  PROVE  /\ [c EXCEPT !.beating = FALSE] \in Controller
         /\ [c EXCEPT !.beating = TRUE] \in Controller
         /\ [c EXCEPT !.fails = 0] \in Controller
         /\ \A state \in States : [c EXCEPT !.state = state] \in Controller
         /\ \A token \in Token : [c EXCEPT !.token = token] \in Controller
<1>1. /\ [c EXCEPT !.beating = FALSE] \in Controller
      /\ [c EXCEPT !.beating = TRUE] \in Controller
  BY DEF Controller
<1>2. [c EXCEPT !.fails = 0] \in Controller
  BY DEF Controller
<1>3. /\ \A state \in States : [c EXCEPT !.state = state] \in Controller
      /\ \A token \in Token : [c EXCEPT !.token = token] \in Controller
  BY DEF Controller
<1>4. QED
  BY <1>1, <1>2, <1>3

LEMMA SavedAndController ==
  ASSUME controller \in Controller, saved \in SavedSession,
         controller.token \in {NoToken, saved.token}
  PROVE  /\ Idle \in Controller /\ NothingSaved \in SavedSession
         /\ ResetController \in Controller /\ ResetSaved \in SavedSession
         /\ ResetController.state = "Inactive"
         /\ ResetController.token \in {NoToken, ResetSaved.token}
<1>1. /\ Idle \in Controller /\ NothingSaved \in SavedSession
      /\ Idle.state = "Inactive" /\ Idle.token = NoToken
  BY DEF Idle, NothingSaved, Controller, SavedSession, Token, CardOrNone, States
<1>2. CASE controller.state = "Inactive"
  BY <1>1, <1>2 DEF ResetController, ResetSaved
<1>3. CASE controller.state # "Inactive"
  BY <1>1, <1>3 DEF ResetController, ResetSaved
<1>4. QED
  BY <1>2, <1>3

ClientTypes == /\ saved \in SavedSession /\ pending \subseteq Tokens
               /\ controller \in Controller /\ window \in Window

\* The request that a continuation handles.
LEMMA Continued ==
  ASSUME IInv, NEW s \in Slots, Continue(s)
  PROVE  /\ request[s] \in Request /\ RequestHolds(request[s])
         /\ request[s].token \in Token /\ request[s].card \in CardOrNone
         /\ request[s].granted \in Token
<1>1. request[s] # NoRequest
  BY DEF Continue, Answered, ActivateDone, RestoreDone, HeartbeatDone, ChatDone,
     DeactivateDone
<1>2. request[s] \in Request /\ RequestHolds(request[s])
  BY <1>1 DEF IInv, TypeOK, RequestsInv
<1>3. QED
  BY <1>2 DEF Request

LEMMA ContinueTypes ==
  ASSUME IInv, NEW s \in Slots, Continue(s)
  PROVE  ClientTypes'
<1> DEFINE r == request[s]
<1>0. r \in Request /\ RequestHolds(r) /\ r.token \in Token
      /\ r.card \in CardOrNone /\ r.granted \in Token
  BY Continued
<1>1. ClientTypes /\ controller.token \in {NoToken, saved.token}
  BY DEF IInv, TypeOK, ClientTypes, SavedInv
<1>2. /\ Idle \in Controller /\ NothingSaved \in SavedSession
      /\ ResetController \in Controller /\ ResetSaved \in SavedSession
  BY <1>1, SavedAndController DEF ClientTypes
<1>3. /\ ClosedWindow \in Window /\ ResetWindow \in Window
      /\ \A token \in Token, card \in CardOrNone :
           OpenedWindow(token, card) \in Window
  BY <1>1, Windows DEF ClientTypes
<1>4. ASSUME EndSession(s) \/ CloseWindow
      PROVE  ClientTypes'
  BY <1>1, <1>2, <1>3, <1>4 DEF EndSession, CloseWindow, ClientTypes
<1>5. controller.token \in Token
  BY <1>1 DEF ClientTypes, Controller
<1>6. \A state \in States : [controller EXCEPT !.state = state] \in Controller
  BY <1>1 DEF ClientTypes, Controller
<1>7. /\ [window EXCEPT !.blocked = TRUE] \in Window
      /\ [window EXCEPT !.button = TRUE] \in Window
      /\ \A card \in CardOrNone : [window EXCEPT !.expiry = card] \in Window
  BY <1>1 DEF ClientTypes, Window
<1>8. /\ [controller EXCEPT !.beating = FALSE] \in Controller
      /\ [controller EXCEPT !.fails = 0, !.beating = FALSE] \in Controller
  <2>1. [controller EXCEPT !.fails = 0] \in Controller
    BY <1>1, Controllers DEF ClientTypes
  <2>2. QED
    BY <1>1, <2>1, Controllers DEF ClientTypes
<1>9. {"Inactive", "Activating", "Active", "HeartbeatFailed"} \subseteq States
  BY DEF States
<1>10. CASE ActivateDone(s)
  <2>1. CASE r.result = "ok"
    <3>1. [token |-> r.granted, card |-> r.card] \in SavedSession
      BY <1>0 DEF SavedSession
    <3>2. [controller EXCEPT !.token = r.granted, !.state = "Active"] \in Controller
      BY <1>0, <1>1 DEF ClientTypes, Controller, States
    <3>3. QED
      BY <1>0, <1>1, <1>3, <1>10, <2>1, <3>1, <3>2 DEF ActivateDone, ClientTypes
  <2>2. CASE r.result # "ok"
    BY <1>1, <1>6, <1>7, <1>9, <1>10, <2>2 DEF ActivateDone, ClientTypes
  <2>3. QED
    BY <2>1, <2>2
<1>11. CASE RestoreDone(s)
  <2>1. CASE EndSession(s)
    BY <1>4, <2>1
  <2>2. CASE ~EndSession(s)
    <3>1. /\ controller' = [controller EXCEPT !.state = "Active"]
          /\ window' = OpenedWindow(controller.token, r.card)
          /\ UNCHANGED settings
      BY <1>11, <2>2 DEF RestoreDone
    <3>2. QED
      BY <1>0, <1>1, <1>3, <1>5, <1>6, <1>9, <3>1 DEF settings, ClientTypes
  <2>3. QED
    BY <2>1, <2>2
<1>12. CASE HeartbeatDone(s)
  <2>1. CASE EndSession(s)
    BY <1>4, <2>1
  <2>2. CASE HeartbeatFails(s)
    <3>1. CASE controller.fails < 2
      <4>1. /\ controller' = [controller EXCEPT !.fails = @ + 1, !.beating = FALSE]
            /\ UNCHANGED <<saved, pending, window>>
        BY <2>2, <3>1 DEF HeartbeatFails, CountFailure, settings
      <4>2. controller' \in Controller
          <5>1. [controller EXCEPT !.fails = @ + 1] \in Controller
            BY <1>1, <3>1 DEF ClientTypes, Controller
          <5>2. QED
            BY <4>1, <5>1, Controllers
      <4>3. QED
        BY <1>1, <4>1, <4>2 DEF ClientTypes
    <3>2. CASE Reconnect(s)
      <4>1. NoToken \in Token /\ NoCard \in CardOrNone
        BY DEF Token, CardOrNone
      <4>2. [window EXCEPT !.activated = FALSE, !.token = NoToken,
                           !.expiry = NoCard, !.button = FALSE,
                           !.input = saved.card] \in Window
        BY <1>1, <4>1 DEF ClientTypes, Window, SavedSession
      <4>3. [controller EXCEPT !.state = "HeartbeatFailed", !.fails = 0,
                               !.beating = FALSE] \in Controller
        <5>1. "HeartbeatFailed" \in States
          BY DEF States
        <5>2. [controller EXCEPT !.state = "HeartbeatFailed"] \in Controller
          BY <1>1, <5>1, Controllers DEF ClientTypes
        <5>3. [controller EXCEPT !.state = "HeartbeatFailed", !.fails = 0]
                \in Controller
          BY <5>2, Controllers
        <5>4. QED
          BY <5>3, Controllers
      <4>4. QED
        BY <1>1, <1>2, <1>3, <3>2, <4>2, <4>3 DEF Reconnect, ClientTypes, settings
    <3>3. QED
      BY <2>2, <3>1, <3>2 DEF HeartbeatFails
  <2>3. CASE ~EndSession(s) /\ ~HeartbeatFails(s)
    <3>1. /\ controller' \in {[controller EXCEPT !.beating = FALSE],
                              [controller EXCEPT !.fails = 0, !.beating = FALSE]}
          /\ window' \in {window, [window EXCEPT !.blocked = TRUE],
                          [window EXCEPT !.expiry = r.card]}
          /\ UNCHANGED settings
      BY <1>12, <2>3, Zenon DEF HeartbeatDone, settings
    <3>2. QED
      BY <1>0, <1>1, <1>7, <1>8, <3>1 DEF ClientTypes, settings
  <2>4. QED
    BY <2>1, <2>2, <2>3
<1>13. CASE ChatDone(s)
  BY <1>1, <1>4, <1>13 DEF ChatDone, ClientTypes, settings
<1>14. CASE DeactivateDone(s)
  <2>1. r.token \in Tokens
    BY <1>0, <1>14 DEF DeactivateDone, Answered, RequestHolds, Holds
  <2>2. QED
    BY <1>1, <1>14, <2>1 DEF DeactivateDone, ClientTypes
<1>15. QED
  BY <1>10, <1>11, <1>12, <1>13, <1>14 DEF Continue

LEMMA HandlerTypes ==
  ASSUME IInv, Handler
  PROVE  ClientTypes'
<1>1. ClientTypes /\ controller.token \in {NoToken, saved.token}
  BY DEF IInv, TypeOK, ClientTypes, SavedInv
<1>2. /\ ResetController \in Controller /\ ResetSaved \in SavedSession
      /\ Idle \in Controller
      /\ ClosedWindow \in Window /\ ResetWindow \in Window
  BY <1>1, SavedAndController, Windows DEF ClientTypes
<1>3. saved.token \in Token
  BY <1>1 DEF ClientTypes, SavedSession
<1>4. /\ [controller EXCEPT !.token = saved.token] \in Controller
      /\ [controller EXCEPT !.state = "Activating"] \in Controller
      /\ [controller EXCEPT !.beating = TRUE] \in Controller
  BY <1>1, <1>3 DEF ClientTypes, Controller, States
<1>5. /\ [window EXCEPT !.button = FALSE] \in Window
      /\ [ClosedWindow EXCEPT !.blocked = FALSE] \in Window
  BY <1>1, <1>2 DEF ClientTypes, Window
<1>6. CASE TryRestoreSession
  BY <1>1, <1>2, <1>4, <1>6 DEF TryRestoreSession, ClientTypes
<1>7. CASE ClickActivate
  BY <1>1, <1>4, <1>5, <1>7 DEF ClickActivate, ClientTypes, settings
<1>8. CASE ClickDeactivate
  BY <1>1, <1>2, <1>5, <1>8 DEF ClickDeactivate, ClientTypes
<1>9. CASE CheckCardExpiry
  BY <1>1, <1>2, <1>9 DEF CheckCardExpiry, CloseWindow, ClientTypes
<1>10. CASE PerformHeartbeat \/ SendChatMessage
  BY <1>1, <1>4, <1>10 DEF PerformHeartbeat, SendChatMessage, ClientTypes, settings
<1>11. CASE Enters
  BY <1>1, <1>11, EntersOnlyText DEF ClientTypes, Window, settings
<1>12. QED
  BY <1>6, <1>7, <1>8, <1>9, <1>10, <1>11, ContinueTypes DEF Handler

-----------------------------------------------------------------------------
(* Controller, window and settings agree after every handler.              *)

Agree == IssuedInv /\ SavedInv /\ WindowInv

\* What one may use of the state before the step.
LEMMA Agreed ==
  ASSUME IInv
  PROVE  /\ ClientTypes /\ Agree
         /\ controller.token \in {NoToken, saved.token}
         /\ Known(saved.token) /\ Known(window.token) /\ Known(controller.token)
         /\ OnCard(saved.token, saved.card)
         /\ NoToken \notin Tokens
BY TokensKnown, NamesAssumption
   DEF IInv, TypeOK, ClientTypes, Agree, SavedInv, IssuedInv, NamesAssumption

\* A reset ends in no session or leaves an inactive controller as it is; the
\* window is closed, or left alone with the controller.
LEMMA AgreeAfterEnding ==
  ASSUME IInv, UNCHANGED server, late => late',
         controller'.state = "Inactive",
         controller'.token \in {NoToken, ResetSaved.token},
         saved' = ResetSaved, pending' = pending,
         \/ ~window'.activated /\ window'.token = NoToken
         \/ window' = ResetWindow
  PROVE  Agree'
<1>1. /\ window \in Window /\ Agree /\ NoToken \notin Tokens
  BY Agreed DEF ClientTypes
<1>2. saved' \in {saved, NothingSaved} /\ NothingSaved.token = NoToken
  BY DEF ResetSaved, NothingSaved
<1>3. ~ClosedWindow.activated /\ ClosedWindow.token = NoToken
  BY <1>1 DEF ClosedWindow, Window
<1>4. IssuedInv'
  <2>1. window'.token \in {window.token, NoToken}
    BY <1>3 DEF ResetWindow
  <2>2. QED
    BY <1>1, <1>2, <2>1 DEF Agree, IssuedInv, Known, server
<1>5. SavedInv'
  BY <1>1, <1>2 DEF Agree, SavedInv, OnCard, server
<1>6. ASSUME ~late'
      PROVE  ~window'.activated
  <2>1. CASE controller.state = "Inactive" /\ window' = window
    BY <1>1, <1>6, <2>1 DEF Agree, WindowInv
  <2>2. QED
    BY <1>3, <2>1 DEF ResetWindow
<1>7. WindowInv'
  BY <1>6 DEF WindowInv
<1>8. QED
  BY <1>4, <1>5, <1>7 DEF Agree

LEMMA AgreeAfterReset ==
  ASSUME IInv, UNCHANGED server, late => late',
         controller' = ResetController, saved' = ResetSaved, pending' = pending,
         \/ ~window'.activated /\ window'.token = NoToken
         \/ window' = ResetWindow
  PROVE  Agree'
<1>1. /\ ResetController.state = "Inactive"
      /\ ResetController.token \in {NoToken, ResetSaved.token}
  BY Agreed, SavedAndController DEF ClientTypes
<1>2. QED
  BY <1>1, AgreeAfterEnding

LEMMA Closed ==
  ASSUME IInv
  PROVE  /\ ~ClosedWindow.activated /\ ClosedWindow.token = NoToken
         /\ ~[ClosedWindow EXCEPT !.blocked = FALSE].activated
         /\ [ClosedWindow EXCEPT !.blocked = FALSE].token = NoToken
<1>1. window \in Window
  BY Agreed DEF ClientTypes
<1>2. ClosedWindow \in Window
  BY <1>1, Windows
<1>3. ~ClosedWindow.activated /\ ClosedWindow.token = NoToken
  BY <1>1 DEF ClosedWindow, Window
<1>4. QED
  BY <1>2, <1>3 DEF Window

\* A handler that changes neither which session the controller has, nor
\* whether it is active, nor the session of the window.
LEMMA AgreeAfterDetail ==
  ASSUME IInv, UNCHANGED server, late => late', UNCHANGED saved,
         pending' \subseteq issued,
         controller'.token = controller.token,
         ~late' => ((controller'.state = "Active") <=> (controller.state = "Active")),
         window'.activated = window.activated, window'.token = window.token,
         window'.expiry = window.expiry
  PROVE  Agree'
<1>1. Agree
  BY Agreed
<1>2. IssuedInv' /\ SavedInv'
  BY <1>1 DEF Agree, IssuedInv, SavedInv, Known, OnCard, server
<1>3. WindowInv'
  <2>1. ASSUME ~late'
        PROVE  /\ window.activated <=> controller.state = "Active"
               /\ window.activated =>
                    /\ window.token = controller.token /\ window.token \in Tokens
                    /\ OnCard(window.token, window.expiry)
    BY <1>1, <2>1 DEF Agree, WindowInv
  <2>2. QED
    BY <2>1 DEF WindowInv, OnCard, server
<1>4. QED
  BY <1>2, <1>3 DEF Agree

\* A handler after which the window is open on the controller's session.
LEMMA AgreeAfterOpening ==
  ASSUME IInv, UNCHANGED server, UNCHANGED pending,
         NEW token \in Token, NEW card \in CardOrNone, Known(token),
         ~late' => token \in Tokens,
         ~late' => OnCard(token, card),
         controller'.token = token, controller'.state = "Active",
         window' = OpenedWindow(token, card),
         token \in {NoToken, saved'.token},
         Known(saved'.token), OnCard(saved'.token, saved'.card)
  PROVE  Agree'
<1>1. Agree /\ window \in Window
  BY Agreed DEF ClientTypes
<1>2. window'.activated /\ window'.token = token /\ window'.expiry = card
  BY <1>1, Windows
<1>3. IssuedInv' /\ SavedInv'
  BY <1>1, <1>2 DEF Agree, IssuedInv, SavedInv, Known, OnCard, server
<1>4. WindowInv'
  BY <1>2 DEF WindowInv, OnCard, server
<1>5. QED
  BY <1>3, <1>4 DEF Agree

LEMMA Observed ==
  ASSUME NEW s \in Slots, Observe(s), ~late'
  PROVE  /\ ~late /\ request[s].token = controller.token
         /\ controller.state \in Expects(request[s].kind)
BY Zenon DEF Observe

\* Fields that a change of another field leaves alone.
LEMMA ControllerFields ==
  ASSUME NEW c \in Controller, NEW state \in States
  PROVE  /\ [c EXCEPT !.state = state].token = c.token
         /\ [c EXCEPT !.state = state].state = state
         /\ [c EXCEPT !.beating = FALSE].token = c.token
         /\ [c EXCEPT !.beating = FALSE].state = c.state
         /\ [c EXCEPT !.beating = TRUE].token = c.token
         /\ [c EXCEPT !.beating = TRUE].state = c.state
         /\ [c EXCEPT !.fails = 0, !.beating = FALSE].token = c.token
         /\ [c EXCEPT !.fails = 0, !.beating = FALSE].state = c.state
         /\ [c EXCEPT !.fails = @ + 1, !.beating = FALSE].token = c.token
         /\ [c EXCEPT !.fails = @ + 1, !.beating = FALSE].state = c.state
<1>1. /\ [c EXCEPT !.state = state].token = c.token
      /\ [c EXCEPT !.state = state].state = state
  BY DEF Controller
<1>2. /\ [c EXCEPT !.beating = FALSE].token = c.token
      /\ [c EXCEPT !.beating = FALSE].state = c.state
      /\ [c EXCEPT !.beating = TRUE].token = c.token
      /\ [c EXCEPT !.beating = TRUE].state = c.state
  BY DEF Controller
<1>3. /\ [c EXCEPT !.fails = 0, !.beating = FALSE].token = c.token
      /\ [c EXCEPT !.fails = 0, !.beating = FALSE].state = c.state
  BY DEF Controller
<1>4. /\ [c EXCEPT !.fails = @ + 1, !.beating = FALSE].token = c.token
      /\ [c EXCEPT !.fails = @ + 1, !.beating = FALSE].state = c.state
  BY DEF Controller
<1>5. QED
  BY <1>1, <1>2, <1>3, <1>4

LEMMA WindowFields ==
  ASSUME NEW w \in Window, NEW card \in CardOrNone
  PROVE  /\ [w EXCEPT !.blocked = TRUE].activated = w.activated
         /\ [w EXCEPT !.blocked = TRUE].token = w.token
         /\ [w EXCEPT !.blocked = TRUE].expiry = w.expiry
         /\ [w EXCEPT !.button = TRUE].activated = w.activated
         /\ [w EXCEPT !.button = TRUE].token = w.token
         /\ [w EXCEPT !.button = TRUE].expiry = w.expiry
         /\ [w EXCEPT !.button = FALSE].activated = w.activated
         /\ [w EXCEPT !.button = FALSE].token = w.token
         /\ [w EXCEPT !.button = FALSE].expiry = w.expiry
         /\ [w EXCEPT !.expiry = card].activated = w.activated
         /\ [w EXCEPT !.expiry = card].token = w.token
         /\ [w EXCEPT !.expiry = card].expiry = card
         /\ [w EXCEPT !.input = card].activated = w.activated
         /\ [w EXCEPT !.input = card].token = w.token
         /\ [w EXCEPT !.input = card].expiry = w.expiry
BY DEF Window

LEMMA ActivateDoneAgrees ==
  ASSUME IInv, NEW s \in Slots, ActivateDone(s)
  PROVE  Agree'
<1> DEFINE r == request[s]
<1>0. /\ r \in Request /\ RequestHolds(r) /\ r.card \in CardOrNone
      /\ r.granted \in Token
  BY Continued DEF Continue
<1>1. /\ UNCHANGED server /\ UNCHANGED pending /\ (late => late')
      /\ r.kind = "activate"
  BY HandlerLeavesServer DEF ActivateDone, Answered, Handler, Continue
<1>2. /\ ClientTypes /\ pending \subseteq issued
      /\ {"Active", "Inactive"} \subseteq States
  BY Agreed DEF Agree, IssuedInv, States
<1>3. CASE r.result = "ok"
  <2>1. /\ controller' = [controller EXCEPT !.token = r.granted, !.state = "Active"]
        /\ saved' = [token |-> r.granted, card |-> r.card]
        /\ window' = OpenedWindow(r.granted, r.card)
    BY <1>3 DEF ActivateDone
  <2>2. controller'.token = r.granted /\ controller'.state = "Active"
    BY <1>2, <2>1 DEF ClientTypes, Controller
  <2>3. r.granted \in Tokens /\ Known(r.granted) /\ OnCard(r.granted, r.card)
    BY <1>0, <1>1, <1>3 DEF RequestHolds, Holds, Known, OnCard
  <2>4. Known(saved'.token) /\ OnCard(saved'.token, saved'.card)
        /\ saved'.token = r.granted
    BY <2>1, <2>3
  <2>5. QED
    <3>1. r.granted \in {NoToken, saved'.token}
      BY <2>4
    <3> HIDE DEF r
    <3>2. QED
      BY <1>0, <1>1, <2>1, <2>2, <2>3, <2>4, <3>1, AgreeAfterOpening
<1>4. CASE r.result # "ok"
  <2>1. /\ controller' = [controller EXCEPT !.state = "Inactive"]
        /\ UNCHANGED saved
        /\ window' \in {[window EXCEPT !.blocked = TRUE],
                        [window EXCEPT !.button = TRUE]}
    BY <1>4 DEF ActivateDone
  <2>2. controller'.token = controller.token /\ controller'.state = "Inactive"
    BY <1>2, <2>1, ControllerFields DEF ClientTypes
  <2>3. /\ window'.activated = window.activated /\ window'.token = window.token
        /\ window'.expiry = window.expiry
    BY <1>2, <2>1 DEF ClientTypes, Window
  <2>4. ASSUME ~late'
        PROVE  controller.state # "Active"
    BY <1>1, <2>4, Observed DEF ActivateDone, Expects
  <2>5. QED
    <3>1. /\ pending' \subseteq issued
          /\ ~late' =>
               ((controller'.state = "Active") <=> (controller.state = "Active"))
      BY <1>1, <1>2, <2>2, <2>4
    <3>2. QED
      BY <1>1, <2>1, <2>2, <2>3, <3>1, AgreeAfterDetail
<1>5. QED
  BY <1>3, <1>4

LEMMA RestoreDoneAgrees ==
  ASSUME IInv, NEW s \in Slots, RestoreDone(s)
  PROVE  Agree'
<1> DEFINE r == request[s]
<1>0. r \in Request /\ RequestHolds(r) /\ r.card \in CardOrNone
  BY Continued DEF Continue
<1>1. UNCHANGED server /\ (late => late') /\ r.kind = "restore"
  BY HandlerLeavesServer DEF RestoreDone, Answered, Handler, Continue
<1>2. CASE EndSession(s)
  BY <1>1, <1>2, AgreeAfterReset DEF EndSession
<1>3. CASE ~EndSession(s)
  <2>1. /\ r.result = "ok"
        /\ controller' = [controller EXCEPT !.state = "Active"]
        /\ window' = OpenedWindow(controller.token, r.card)
        /\ UNCHANGED <<saved, pending>>
    BY <1>3 DEF RestoreDone, settings
  <2>2. controller \in Controller /\ "Active" \in States
    BY Agreed DEF ClientTypes, States
  <2>3. controller'.token = controller.token /\ controller'.state = "Active"
    BY <2>1, <2>2, ControllerFields
  <2>4. ASSUME ~late'
        PROVE  controller.token \in Tokens /\ OnCard(controller.token, r.card)
    <3>1. r.token = controller.token
      BY <2>4, Observed DEF RestoreDone
    <3>2. QED
      BY <1>0, <1>1, <2>1, <3>1 DEF RequestHolds, Holds, OnCard
  <2>5. controller.token \in Token
    BY <2>2 DEF Controller
  <2>6. QED
    BY <1>0, <1>1, <2>1, <2>3, <2>4, <2>5, Agreed, AgreeAfterOpening
<1>4. QED
  BY <1>2, <1>3

LEMMA ReconnectAgrees ==
  ASSUME IInv, NEW s \in Slots, Reconnect(s), UNCHANGED server, late => late'
  PROVE  Agree'
<1>1. ClientTypes /\ Agree
  BY Agreed
<1>2. ClosedWindow.activated = FALSE /\ ClosedWindow.token = NoToken
  BY <1>1 DEF ClientTypes, ClosedWindow, Window
<1>3. ~window'.activated /\ window'.token = NoToken
  <2>1. CASE saved.card \in Cards \ over
    BY <1>1, <2>1 DEF Reconnect, ClientTypes, Window
  <2>2. CASE saved.card \notin Cards \ over
    BY <1>2, <2>2 DEF Reconnect
  <2>3. QED
    BY <2>1, <2>2
<1>4. /\ controller'.state # "Active" /\ UNCHANGED pending
      /\ \/ controller'.token = controller.token /\ saved' = saved
         \/ controller'.token = NoToken /\ saved' = NothingSaved
  <2>1. CASE saved.card \in Cards \ over
    BY <1>1, <2>1 DEF Reconnect, ClientTypes, Controller, settings
  <2>2. CASE saved.card \notin Cards \ over
    BY <2>2 DEF Reconnect, Idle
  <2>3. QED
    BY <2>1, <2>2
<1>5. IssuedInv' /\ SavedInv'
  BY <1>1, <1>3, <1>4, NamesAssumption
     DEF Agree, IssuedInv, SavedInv, Known, OnCard, server, NothingSaved,
         NamesAssumption
<1>6. WindowInv'
  BY <1>3, <1>4 DEF WindowInv
<1>7. QED
  BY <1>5, <1>6 DEF Agree

LEMMA HeartbeatDoneAgrees ==
  ASSUME IInv, NEW s \in Slots, HeartbeatDone(s)
  PROVE  Agree'
<1> DEFINE r == request[s]
<1>0. r \in Request /\ RequestHolds(r) /\ r.card \in CardOrNone
  BY Continued DEF Continue
<1>1. UNCHANGED server /\ (late => late') /\ r.kind = "heartbeat"
  BY HandlerLeavesServer DEF HeartbeatDone, Answered, Handler, Continue
<1>2. ClientTypes /\ pending \subseteq issued
  BY Agreed DEF Agree, IssuedInv
<1>3. ASSUME ~late'
      PROVE  ~late /\ r.token = controller.token
  BY <1>3, Zenon DEF HeartbeatDone
<1>4. CASE EndSession(s)
  BY <1>1, <1>4, AgreeAfterReset DEF EndSession
<1>5. CASE Reconnect(s)
  BY <1>1, <1>5, ReconnectAgrees
<1>6. ASSUME controller' \in {[controller EXCEPT !.beating = FALSE],
                             [controller EXCEPT !.fails = 0, !.beating = FALSE],
                             [controller EXCEPT !.fails = @ + 1, !.beating = FALSE]},
             UNCHANGED <<saved, pending>>,
             window' \in {window, [window EXCEPT !.blocked = TRUE]}
      PROVE  Agree'
  <2>1. /\ controller'.token = controller.token
        /\ controller'.state = controller.state
    BY <1>2, <1>6, ControllerFields DEF ClientTypes, Controller
  <2>2. /\ window'.activated = window.activated /\ window'.token = window.token
        /\ window'.expiry = window.expiry
    BY <1>2, <1>6 DEF ClientTypes, Window
  <2>3. QED
    BY <1>1, <1>2, <1>6, <2>1, <2>2, AgreeAfterDetail
<1>7. ASSUME r.result = "ok", UNCHANGED <<saved, pending>>,
             controller' = [controller EXCEPT !.fails = 0, !.beating = FALSE],
             window' = [window EXCEPT !.expiry = r.card]
      PROVE  Agree'
  <2>1. /\ controller'.token = controller.token
        /\ controller'.state = controller.state
    BY <1>2, <1>7, ControllerFields DEF ClientTypes, Controller
  <2>2. /\ window'.activated = window.activated /\ window'.token = window.token
        /\ window'.expiry = r.card
    BY <1>0, <1>2, <1>7 DEF ClientTypes, Window
  <2>3. Agree
    BY Agreed
  <2>4. IssuedInv' /\ SavedInv'
    BY <1>1, <1>7, <2>1, <2>2, <2>3
       DEF Agree, IssuedInv, SavedInv, Known, OnCard, server
  <2>5. ASSUME ~late'
        PROVE  /\ window.activated <=> controller.state = "Active"
               /\ window.activated =>
                    /\ window.token = controller.token /\ window.token \in Tokens
    BY <1>1, <2>3, <2>5 DEF Agree, WindowInv
  <2>6. ASSUME ~late', window.activated
        PROVE  OnCard(window.token, r.card)
    BY <1>0, <1>1, <1>3, <1>7, <2>5, <2>6 DEF RequestHolds, Holds, OnCard
  <2>7. WindowInv'
    BY <1>1, <2>1, <2>2, <2>5, <2>6 DEF WindowInv, OnCard, server
  <2>8. QED
    BY <2>4, <2>7 DEF Agree
<1>8. QED
  BY <1>4, <1>5, <1>6, <1>7
     DEF HeartbeatDone, HeartbeatFails, CountFailure, settings

LEMMA ContinueAgrees ==
  ASSUME IInv, NEW s \in Slots, Continue(s)
  PROVE  Agree'
<1>1. UNCHANGED server /\ (late => late')
  BY HandlerLeavesServer DEF Handler
<1>2. pending \subseteq issued
  BY Agreed DEF Agree, IssuedInv
<1>3. CASE ChatDone(s)
  <2>1. CASE CloseWindow
    BY <1>1, <2>1, Closed, AgreeAfterReset DEF CloseWindow
  <2>2. CASE ~CloseWindow
    BY <1>1, <1>2, <1>3, <2>2, AgreeAfterDetail DEF ChatDone, settings
  <2>3. QED
    BY <2>1, <2>2
<1>4. CASE DeactivateDone(s)
  <2>1. request[s].token \in issued
    BY <1>4, Continued DEF DeactivateDone, Answered, RequestHolds, Holds
  <2>2. QED
    BY <1>1, <1>2, <1>4, <2>1, AgreeAfterDetail DEF DeactivateDone
<1>5. QED
  BY <1>3, <1>4, ActivateDoneAgrees, RestoreDoneAgrees, HeartbeatDoneAgrees
     DEF Continue

LEMMA TryRestoreAgrees ==
  ASSUME IInv, TryRestoreSession
  PROVE  Agree'
<1>1. UNCHANGED server /\ UNCHANGED <<pending, late>>
  BY DEF TryRestoreSession, history
<1>2. ClientTypes /\ Agree /\ pending \subseteq issued
  BY Agreed DEF Agree, IssuedInv
<1>3. CASE UNCHANGED <<controller, saved, window>>
  BY <1>1, <1>2, <1>3, AgreeAfterDetail
<1>4. CASE /\ controller' = IF controller.state = "Inactive"
                            THEN [controller EXCEPT !.token = saved.token]
                            ELSE Idle
           /\ saved' = ResetSaved /\ window' = ResetWindow
  <2>1. /\ controller'.state = "Inactive"
        /\ controller'.token \in {NoToken, ResetSaved.token}
    BY <1>2, <1>4 DEF ClientTypes, Controller, Idle, ResetSaved
  <2>2. QED
    BY <1>1, <1>4, <2>1, AgreeAfterEnding
<1>5. CASE /\ controller' = [controller EXCEPT !.token = saved.token]
           /\ UNCHANGED <<saved, window>>
  <2>1. controller'.token = saved.token /\ controller'.state = controller.state
    BY <1>2, <1>5 DEF ClientTypes, Controller, SavedSession
  <2>2. IssuedInv' /\ SavedInv'
    BY <1>1, <1>2, <1>5, <2>1
       DEF Agree, IssuedInv, SavedInv, Known, OnCard, server
  <2>3. ASSUME ~late
        PROVE  /\ window.activated <=> controller.state = "Active"
               /\ window.activated =>
                    /\ window.token = controller.token /\ window.token \in Tokens
                    /\ OnCard(window.token, window.expiry)
    BY <1>2, <2>3 DEF Agree, WindowInv
  <2>4. controller.token \in Tokens => controller.token = saved.token
    BY Agreed
  <2>5. WindowInv'
    BY <1>1, <1>5, <2>1, <2>3, <2>4 DEF WindowInv, OnCard, server
  <2>6. QED
    BY <2>2, <2>5 DEF Agree
<1>6. QED
  BY <1>3, <1>4, <1>5 DEF TryRestoreSession

LEMMA HandlerAgrees ==
  ASSUME IInv, Handler
  PROVE  Agree'
<1>1. UNCHANGED server /\ (late => late')
  BY HandlerLeavesServer
<1>2. ClientTypes /\ pending \subseteq issued
  BY Agreed DEF Agree, IssuedInv
<1>3. CASE ClickActivate
  <2>1. /\ window' = [window EXCEPT !.button = FALSE] /\ ~window.activated
        /\ controller' \in {controller, [controller EXCEPT !.state = "Activating"]}
        /\ UNCHANGED <<saved, pending>> /\ UNCHANGED late
    BY <1>3 DEF ClickActivate, settings, history
  <2>2. /\ window'.activated = window.activated /\ window'.token = window.token
        /\ window'.expiry = window.expiry
    BY <1>2, <2>1 DEF ClientTypes, Window
  <2>3. /\ controller'.token = controller.token
        /\ controller'.state \in {controller.state, "Activating"}
    BY <1>2, <2>1 DEF ClientTypes, Controller
  <2>4. ~late => controller.state # "Active"
    BY <2>1, Agreed DEF Agree, WindowInv
  <2>5. ~late' =>
          ((controller'.state = "Active") <=> (controller.state = "Active"))
    BY <1>1, <2>1, <2>3, <2>4
  <2>6. QED
    BY <1>1, <1>2, <2>1, <2>2, <2>3, <2>5, AgreeAfterDetail
<1>4. CASE ClickDeactivate
  BY <1>1, <1>4, Closed, AgreeAfterReset DEF ClickDeactivate
<1>5. CASE CheckCardExpiry
  BY <1>1, <1>5, Closed, AgreeAfterReset DEF CheckCardExpiry, CloseWindow
<1>6. CASE PerformHeartbeat
  <2>1. /\ controller' = [controller EXCEPT !.beating = TRUE]
        /\ UNCHANGED <<saved, pending, window, late>>
    BY <1>6 DEF PerformHeartbeat, settings, history
  <2>2. /\ controller'.token = controller.token
        /\ controller'.state = controller.state
    BY <1>2, <2>1 DEF ClientTypes, Controller
  <2>3. QED
    BY <1>1, <1>2, <2>1, <2>2, AgreeAfterDetail
<1>7. CASE SendChatMessage
  <2>1. UNCHANGED <<saved, pending, window, controller>>
    BY <1>7 DEF SendChatMessage, settings
  <2>2. QED
    BY <1>1, <1>2, <2>1, AgreeAfterDetail
<1>8. CASE Enters
  <2>1. PICK card \in CardOrNone : window' = [window EXCEPT !.input = card]
    BY <1>8, EntersOnlyText
  <2>2. UNCHANGED <<saved, pending, controller>>
    BY <1>8, EntersOnlyText DEF settings
  <2>3. /\ window'.activated = window.activated /\ window'.token = window.token
        /\ window'.expiry = window.expiry
    BY <1>2, <2>1, WindowFields DEF ClientTypes
  <2>4. QED
    BY <1>1, <1>2, <2>2, <2>3, AgreeAfterDetail
<1>9. QED
  BY <1>3, <1>4, <1>5, <1>6, <1>7, <1>8, ContinueAgrees, TryRestoreAgrees
     DEF Handler

LEMMA OtherStepsAgree ==
  ASSUME IInv, [Next]_vars, Outside \/ Worker \/ Restart \/ UNCHANGED vars
  PROVE  ClientTypes' /\ Agree'
<1>1. Forward
  BY StepsGoForward DEF IInv
<1>2. ClientTypes /\ Agree
  BY Agreed
<1>3. ASSUME UNCHANGED <<saved, controller, window, late>>,
             pending' \subseteq Tokens, pending' \subseteq issued',
             \A t \in Tokens : alive'[t] # NoCard => t \in issued'
      PROVE  ClientTypes' /\ Agree'
  <2>1. ClientTypes'
    BY <1>2, <1>3 DEF ClientTypes
  <2>2. /\ Known(saved.token)' /\ Known(window.token)'
        /\ OnCard(saved.token, saved.card)'
        /\ OnCard(window.token, window.expiry) =>
             OnCard(window.token, window.expiry)'
    <3>1. Known(saved.token)' /\ OnCard(saved.token, saved.card)'
      BY <1>1, <1>3, Agreed, ForwardKeeps DEF Known, OnCard
    <3>2. /\ Known(window.token)'
          /\ OnCard(window.token, window.expiry) =>
               OnCard(window.token, window.expiry)'
      BY <1>1, <1>3, Agreed, ForwardKeeps DEF Known, OnCard
    <3>3. QED
      BY <3>1, <3>2
  <2>3. QED
    BY <1>2, <1>3, <2>1, <2>2 DEF Agree, IssuedInv, SavedInv, WindowInv
<1>4. \A t \in Tokens : alive'[t] # NoCard => t \in issued'
  <2>1. issued \subseteq issued' /\ IssuedInv
    BY <1>1, <1>2 DEF Forward, Agree
  <2>2. ASSUME NEW s \in Slots, ServeActivate(s)
        PROVE  \A t \in Tokens : alive'[t] # NoCard => t \in issued'
    BY <2>1, <2>2 DEF ServeActivate, IssuedInv, IInv, TypeOK
  <2>3. ASSUME \A t \in Tokens : alive'[t] \in {alive[t], NoCard}
        PROVE  \A t \in Tokens : alive'[t] # NoCard => t \in issued'
    BY <2>1, <2>3 DEF IssuedInv
  <2>4. ASSUME NEW s \in Slots, ServeDeactivate(s)
        PROVE  \A t \in Tokens : alive'[t] \in {alive[t], NoCard}
    BY <2>4 DEF ServeDeactivate, IInv, TypeOK
  <2>5. ASSUME NEW s \in Slots, Serve(s), ~ServeActivate(s), ~ServeDeactivate(s)
        PROVE  UNCHANGED alive
    BY <2>5 DEF Serve, ServeHeartbeat, ServeChat, Reject, LoseRequest, server
  <2>6. ASSUME NEW s \in Slots, LoseAnswer(s)
        PROVE  UNCHANGED alive
    BY <2>6 DEF LoseAnswer, server
  <2>7. ASSUME NEW t \in Tokens, SessionEnds(t) \/ FlushOne(t)
        PROVE  \A u \in Tokens : alive'[u] \in {alive[u], NoCard}
    BY <2>7 DEF SessionEnds, FlushOne, IInv, TypeOK
  <2>8. (\E c \in Cards : CardEnds(c)) \/ FlushEnd \/ Restart \/ UNCHANGED vars
          => UNCHANGED alive
    BY DEF CardEnds, FlushEnd, Restart, vars, server
  <2>9. QED
    BY <2>2, <2>3, <2>4, <2>5, <2>6, <2>7, <2>8 DEF Outside, Worker
<1>5. UNCHANGED pending \/ pending' = flush.keep
  BY OutsideLeavesClient DEF Worker, FlushOne, FlushEnd, Restart, vars, settings,
     client
<1>6. /\ pending \subseteq Tokens /\ pending \subseteq issued
      /\ flush.keep \subseteq pending /\ issued \subseteq issued'
  BY <1>1, <1>2 DEF Forward, Agree, IssuedInv, ClientTypes, IInv, FlushInv
<1>7. CASE Outside \/ Worker \/ UNCHANGED vars
  <2>1. UNCHANGED <<saved, controller, window, late>>
    BY <1>7, OutsideLeavesClient
       DEF Worker, FlushOne, FlushEnd, vars, settings, client, history
  <2>2. QED
    BY <1>3, <1>4, <1>5, <1>6, <2>1
<1>8. CASE Restart
  <2>1. /\ controller' = Idle /\ UNCHANGED <<saved, pending, late>>
        /\ window' = ClearWindow /\ UNCHANGED server
    BY <1>8 DEF Restart, settings
  <2>2. window' \in Window
    BY <2>1 DEF ClearWindow, Window, Token, CardOrNone
  <2>3. ~window'.activated /\ window'.token = NoToken
    BY <2>1 DEF ClearWindow
  <2>4. Idle \in Controller /\ Idle.token = NoToken /\ Idle.state = "Inactive"
    BY DEF Idle, Controller, States, Token
  <2>5. ClientTypes'
    BY <1>2, <2>1, <2>2, <2>4 DEF ClientTypes
  <2>6. IssuedInv' /\ SavedInv'
    BY <1>2, <2>1, <2>3, <2>4, NamesAssumption
       DEF Agree, IssuedInv, SavedInv, Known, OnCard, server, NamesAssumption
  <2>7. WindowInv'
    BY <2>1, <2>3, <2>4 DEF WindowInv
  <2>8. QED
    BY <2>5, <2>6, <2>7 DEF Agree
<1>9. QED
  BY <1>7, <1>8

\* What the worker has read is still to be sent, to be written, or done with.
LEMMA FlushStep ==
  ASSUME IInv, [Next]_vars
  PROVE  FlushInv' /\ flush' \in Flush
<1>1. Forward
  BY StepsGoForward DEF IInv
<1>2. /\ FlushInv /\ flush \in Flush /\ IssuedInv
      /\ alive \in [Tokens -> CardOrNone] /\ pending \subseteq Tokens
  BY DEF IInv, TypeOK
<1>3. NoFlush \in Flush /\ ~NoFlush.running
      /\ NoFlush.read = {} /\ NoFlush.todo = {} /\ NoFlush.keep = {}
  BY DEF NoFlush, Flush
<1>4. ASSUME flush' = NoFlush
      PROVE  FlushInv' /\ flush' \in Flush
  BY <1>3, <1>4 DEF FlushInv
<1>5. ASSUME UNCHANGED flush, pending \subseteq pending', restored => restored'
      PROVE  FlushInv' /\ flush' \in Flush
  <2>1. ASSUME ~spilled', NEW t \in flush.read, alive'[t] # NoCard
        PROVE  t \in flush.todo \cup flush.keep
    <3>1. ~spilled /\ t \in Tokens /\ t \in issued
      BY <1>1, <1>2, <2>1 DEF Forward, FlushInv, IssuedInv
    <3>2. alive[t] # NoCard
      BY <1>1, <2>1, <3>1 DEF Forward
    <3>3. QED
      BY <1>2, <3>1, <3>2 DEF FlushInv
  <2>2. QED
    BY <1>2, <1>5, <2>1 DEF FlushInv
<1>6. CASE TryRestoreSession
  <2>1. CASE pending = {}
    BY <1>4, <1>6, <2>1 DEF TryRestoreSession
  <2>2. CASE pending # {}
    <3>1. /\ flush' = [running |-> TRUE, read |-> pending, todo |-> pending,
                       keep |-> {}]
          /\ pending' = pending /\ restored' = TRUE
      BY <1>6, <2>2 DEF TryRestoreSession
    <3>2. flush' \in Flush
      BY <1>2, <3>1 DEF Flush
    <3>3. flush'.running /\ flush'.read = pending /\ flush'.todo = pending
          /\ flush'.keep = {}
      BY <3>1
    <3>4. QED
      BY <3>1, <3>2, <3>3 DEF FlushInv
  <2>3. QED
    BY <2>1, <2>2
<1>7. ASSUME NEW t \in Tokens, FlushOne(t)
      PROVE  FlushInv' /\ flush' \in Flush
  <2>1. t \in flush.todo /\ UNCHANGED <<pending, restored>>
    BY <1>7 DEF FlushOne, settings
  <2>2. /\ flush' \in Flush /\ flush'.running = flush.running
        /\ flush'.read = flush.read /\ flush'.todo = flush.todo \ {t}
        /\ flush'.keep \in {flush.keep, flush.keep \cup {t}}
    <3>1. CASE flush' = [flush EXCEPT !.todo = @ \ {t}]
      BY <1>2, <3>1 DEF Flush
    <3>2. CASE flush' = [flush EXCEPT !.todo = @ \ {t}, !.keep = @ \cup {t}]
      BY <1>2, <3>2 DEF Flush
    <3>3. QED
      BY <1>7, <3>1, <3>2 DEF FlushOne
  <2>3. \/ alive'[t] = NoCard
        \/ flush'.keep = flush.keep \cup {t}
        \/ spilled'
    BY <1>2, <1>7 DEF FlushOne, Flush
  <2>4. ASSUME ~spilled', NEW u \in flush.read, alive'[u] # NoCard
        PROVE  u \in flush'.todo \cup flush'.keep
    <3>1. ~spilled /\ u \in Tokens /\ u \in issued
      BY <1>1, <1>2, <2>4 DEF Forward, FlushInv, IssuedInv
    <3>2. alive[u] # NoCard
      BY <1>1, <2>4, <3>1 DEF Forward
    <3>3. u \in flush.todo \cup flush.keep
      BY <1>2, <3>1, <3>2 DEF FlushInv
    <3>4. QED
      BY <2>2, <2>3, <2>4, <3>3
  <2>5. flush.running /\ flush'.running
    BY <1>2, <1>3, <2>1, <2>2 DEF FlushInv
  <2>6. QED
    BY <1>2, <2>1, <2>2, <2>4, <2>5 DEF FlushInv
<1>8. CASE FlushEnd \/ Restart
  BY <1>4, <1>8 DEF FlushEnd, Restart
<1>9. CASE Outside \/ UNCHANGED vars
  BY <1>5, <1>9, OutsideLeavesClient DEF client, settings, vars
<1>10. CASE Handler /\ ~TryRestoreSession
  <2>1. ASSUME NEW s \in Slots, Continue(s)
        PROVE  UNCHANGED <<flush, restored>> /\ pending \subseteq pending'
    <3>1. UNCHANGED <<flush, restored>>
      BY <2>1 DEF Continue, ActivateDone, RestoreDone, HeartbeatDone, ChatDone,
         DeactivateDone
    <3>2. EndSession(s) \/ CloseWindow \/ HeartbeatFails(s) => UNCHANGED pending
      BY DEF EndSession, CloseWindow, HeartbeatFails, CountFailure, Reconnect,
         settings
    <3>3. pending \subseteq pending'
      BY <2>1, <3>2 DEF Continue, ActivateDone, RestoreDone, HeartbeatDone,
         ChatDone, DeactivateDone, settings
    <3>4. QED
      BY <3>1, <3>3
  <2>2. UNCHANGED <<flush, restored>> /\ pending \subseteq pending'
    BY <1>10, <2>1, EntersOnlyText
       DEF Handler, ClickActivate, ClickDeactivate, CheckCardExpiry,
       CloseWindow, PerformHeartbeat, SendChatMessage, settings
  <2>3. QED
    BY <1>5, <2>2
<1>11. QED
  BY <1>6, <1>7, <1>8, <1>9, <1>10, ActionKinds DEF Worker

LEMMA ServerTypes ==
  ASSUME IInv, [Next]_vars
  PROVE  /\ alive' \in [Tokens -> CardOrNone]
         /\ issued' \subseteq Tokens /\ over' \subseteq Cards
<1>1. /\ alive \in [Tokens -> CardOrNone]
      /\ issued \subseteq Tokens /\ over \subseteq Cards
  BY DEF IInv, TypeOK
<1>2. NoCard \in CardOrNone
  BY DEF CardOrNone
<1>3. ASSUME NEW s \in Slots, ServeActivate(s)
      PROVE  /\ alive' \in [Tokens -> CardOrNone]
             /\ issued' \subseteq Tokens /\ over' \subseteq Cards
  <2>1. request[s] \in Request
    BY <1>3 DEF ServeActivate, Waiting, IInv, TypeOK
  <2>2. request[s].card \in CardOrNone
    BY <2>1 DEF Request
  <2>3. QED
    BY <1>1, <1>3, <2>2 DEF ServeActivate
<1>4. ASSUME NEW s \in Slots, Serve(s) \/ LoseAnswer(s), ~ServeActivate(s)
      PROVE  /\ alive' \in [Tokens -> CardOrNone]
             /\ issued' \subseteq Tokens /\ over' \subseteq Cards
  BY <1>1, <1>2, <1>4 DEF Serve, ServeHeartbeat, ServeChat, ServeDeactivate,
     Reject, LoseRequest, LoseAnswer, server
<1>5. ASSUME NEW t \in Tokens, SessionEnds(t) \/ FlushOne(t)
      PROVE  /\ alive' \in [Tokens -> CardOrNone]
             /\ issued' \subseteq Tokens /\ over' \subseteq Cards
  BY <1>1, <1>2, <1>5 DEF SessionEnds, FlushOne
<1>6. ASSUME NEW c \in Cards, CardEnds(c)
      PROVE  /\ alive' \in [Tokens -> CardOrNone]
             /\ issued' \subseteq Tokens /\ over' \subseteq Cards
  BY <1>1, <1>6 DEF CardEnds
<1>7. CASE UNCHANGED server
  BY <1>1, <1>7 DEF server
<1>8. Handler \/ FlushEnd \/ Restart \/ UNCHANGED vars => UNCHANGED server
  BY HandlerLeavesServer DEF FlushEnd, Restart, vars
<1>9. QED
  BY <1>3, <1>4, <1>5, <1>6, <1>7, <1>8, ActionKinds DEF Outside, Worker

\* The flags.
LEMMA FlagTypes ==
  ASSUME IInv, [Next]_vars
  PROVE  late' \in BOOLEAN /\ spilled' \in BOOLEAN /\ restored' \in BOOLEAN
<1>1. late \in BOOLEAN /\ spilled \in BOOLEAN /\ restored \in BOOLEAN
  BY DEF IInv, TypeOK
<1>2. ASSUME NEW s \in Slots, Continue(s)
      PROVE  late' \in BOOLEAN /\ spilled' \in BOOLEAN /\ restored' \in BOOLEAN
  <2>1. CASE ActivateDone(s)
    <3>1. late' \in BOOLEAN
      BY <2>1, Zenon DEF ActivateDone, Observe
    <3>2. spilled' \in BOOLEAN
      BY <1>1, <2>1, Zenon DEF ActivateDone
    <3>3. restored' \in BOOLEAN
      BY <1>1, <2>1, Zenon DEF ActivateDone
    <3>4. QED
      BY <3>1, <3>2, <3>3
  <2>2. CASE RestoreDone(s)
    <3>1. late' \in BOOLEAN
      BY <2>2, Zenon DEF RestoreDone, Observe
    <3>2. spilled' \in BOOLEAN /\ restored' \in BOOLEAN
      BY <1>1, <2>2, Zenon DEF RestoreDone, EndSession
    <3>3. QED
      BY <3>1, <3>2
  <2>3. CASE HeartbeatDone(s)
    <3>1. late' \in BOOLEAN
      BY <2>3, Zenon DEF HeartbeatDone
    <3>2. restored' = restored
      BY <2>3 DEF HeartbeatDone
    <3>3. spilled' = spilled
      BY <2>3 DEF HeartbeatDone, EndSession, HeartbeatFails, CountFailure,
         Reconnect
    <3>4. QED
      BY <1>1, <3>1, <3>2, <3>3, Zenon
  <2>4. CASE ChatDone(s)
    <3>1. late' \in BOOLEAN
      BY <1>1, <2>4, Zenon DEF ChatDone, Observe, history
    <3>2. spilled' = spilled /\ restored' = restored
      BY <2>4 DEF ChatDone, CloseWindow, history
    <3>3. QED
      BY <1>1, <3>1, <3>2, Zenon
  <2>5. CASE DeactivateDone(s)
    <3>1. UNCHANGED <<late, spilled, restored>>
      BY <2>5 DEF DeactivateDone, history
    <3>2. QED
      BY <1>1, <3>1, Zenon
  <2>6. QED
    BY <1>2, <2>1, <2>2, <2>3, <2>4, <2>5 DEF Continue
<1>3. CASE UNCHANGED <<late, spilled, restored>>
  BY <1>1, <1>3, Zenon
<1>4. CASE TryRestoreSession
  <2>1. restored' = TRUE /\ UNCHANGED <<late, spilled>>
    BY <1>4 DEF TryRestoreSession, history
  <2>2. QED
    BY <1>1, <2>1, Zenon
<1>5. CASE Handler
  <2>1. ASSUME Handler, ~TryRestoreSession, \A s \in Slots : ~Continue(s)
        PROVE  UNCHANGED <<late, spilled, restored>>
    BY <2>1, EntersOnlyText
       DEF Handler, ClickActivate, ClickDeactivate, CheckCardExpiry,
       CloseWindow, PerformHeartbeat, SendChatMessage, history
  <2>2. QED
    BY <1>2, <1>3, <1>4, <1>5, <2>1, Zenon
<1>6. ASSUME NEW s \in Slots, Serve(s) \/ LoseAnswer(s)
      PROVE  late' \in BOOLEAN /\ spilled' \in BOOLEAN /\ restored' \in BOOLEAN
  <2>1. UNCHANGED <<late, restored>>
    BY <1>6, OutsideLeavesClient DEF Outside, client
  <2>2. \/ UNCHANGED spilled
        \/ spilled' = TRUE
        \/ spilled' = (spilled \/ request[s].kind = "activate")
    <3>1. Reject(s) => UNCHANGED spilled \/ spilled' = TRUE
      BY DEF Reject
    <3>2. LoseAnswer(s) => spilled' = (spilled \/ request[s].kind = "activate")
      BY Zenon DEF LoseAnswer
    <3>3. Serve(s) /\ ~Reject(s) => UNCHANGED spilled
      BY DEF Serve, ServeActivate, ServeHeartbeat, ServeChat, ServeDeactivate,
         LoseRequest
    <3>4. QED
      BY <1>6, <3>1, <3>2, <3>3, Zenon
  <2>3. QED
    BY <1>1, <2>1, <2>2, Zenon
<1>7. ASSUME NEW t \in Tokens, FlushOne(t)
      PROVE  late' \in BOOLEAN /\ spilled' \in BOOLEAN /\ restored' \in BOOLEAN
  BY <1>1, <1>7, Zenon DEF FlushOne
<1>8. CASE FlushEnd
  BY <1>1, <1>8, Zenon DEF FlushEnd
<1>9. CASE Restart
  BY <1>1, <1>9, Zenon DEF Restart
<1>10. (\E t \in Tokens : SessionEnds(t)) \/ (\E c \in Cards : CardEnds(c))
         \/ UNCHANGED vars
         => UNCHANGED <<late, spilled, restored>>
  BY DEF SessionEnds, CardEnds, vars, history, client
<1>11. QED
  BY <1>3, <1>5, <1>6, <1>7, <1>8, <1>9, <1>10, ActionKinds, Zenon
     DEF Outside, Worker

-----------------------------------------------------------------------------
(* No seat is forgotten.                                                   *)

\* The request carries the session: it has opened it, or is to end it.
Carries(r, t) == r.granted = t \/ (r.kind = "deactivate" /\ r.token = t)
Carried(t) == \E s \in Slots : request[s] # NoRequest /\ Carries(request[s], t)

LEMMA AccountedIs ==
  ASSUME NEW t
  PROVE  /\ t \in Accounted <=>
              \/ t \in {controller.token, saved.token} \cup pending
                         \cup flush.todo \cup flush.keep
              \/ Carried(t)
         /\ t \in Accounted' <=>
              \/ t \in ({controller.token, saved.token} \cup pending
                          \cup flush.todo \cup flush.keep)'
              \/ Carried(t)'
BY DEF Accounted, Carried, Carries, Free

\* The controller's session is the saved one, and what is flushed is pending.
LEMMA WhereSeatsAre ==
  ASSUME IInv, NEW t \in Tokens, alive[t] # NoCard, ~late, ~spilled
  PROVE  t = saved.token \/ t \in pending \/ Carried(t)
<1>1. t \in Accounted
  BY DEF IInv, SeatsAccounted
<1>2. /\ controller.token \in {NoToken, saved.token} /\ NoToken \notin Tokens
      /\ flush.todo \cup flush.keep \subseteq pending
  BY Agreed DEF IInv, FlushInv
<1>3. QED
  BY <1>1, <1>2, AccountedIs

LEMMA SlotCarries ==
  ASSUME RequestTypes, NEW s \in Slots, NEW r, NEW t,
         request' = [request EXCEPT ![s] = r]
  PROVE  /\ r # NoRequest /\ Carries(r, t) => Carried(t)'
         /\ Carried(t) => Carried(t)' \/ Carries(request[s], t)
<1>1. request'[s] = r /\ \A x \in Slots : x # s => request'[x] = request[x]
  BY DEF RequestTypes
<1>2. QED
  BY <1>1 DEF Carried, Carries

LEMMA SendCarries ==
  ASSUME RequestTypes, NEW r, NEW t, Send(r)
  PROVE  /\ r # NoRequest /\ Carries(r, t) => Carried(t)'
         /\ Carried(t) => Carried(t)'
<1>1. PICK s \in Slots : /\ request[s] = NoRequest
                         /\ request' = [request EXCEPT ![s] = r]
  BY SendTakesSlot
<1>2. request'[s] = r /\ \A x \in Slots : x # s => request'[x] = request[x]
  BY <1>1 DEF RequestTypes
<1>3. QED
  BY <1>1, <1>2 DEF Carried, Carries

LEMMA DeactivationCarries ==
  ASSUME NEW token \in Tokens
  PROVE  Deactivation(token) # NoRequest /\ Carries(Deactivation(token), token)
<1>1. token \in Token /\ token # NoToken
  BY NamesAssumption DEF Token, NamesAssumption
<1>2. Sent("deactivate", token, NoCard) \in Request
  BY <1>1, SentIsRequest DEF Kinds, CardOrNone
<1>3. QED
  BY <1>1, <1>2, AbsenceAssumption DEF Deactivation, Sent, Carries,
     AbsenceAssumption

\* A handler goes on with a seat.
Goes(t) == t = saved'.token \/ t \in pending' \/ Carried(t)'

\* While the window is open, the saved session is its session.
LEMMA ActiveIsSaved ==
  ASSUME IInv, ~late, controller.state = "Active" \/ window.activated
  PROVE  controller.token = saved.token /\ window.token = saved.token
         /\ saved.token \in Tokens
BY Agreed DEF Agree, WindowInv

\* The request a continuation handles carries a session only if it is an
\* activation that succeeded or a deactivation.
LEMMA CarriesNothing ==
  ASSUME IInv, NEW s \in Slots, Continue(s), NEW t \in Tokens,
         request[s].kind # "deactivate",
         request[s].kind # "activate" \/ request[s].result # "ok"
  PROVE  ~Carries(request[s], t)
<1>1. RequestHolds(request[s])
  BY Continued
<1>2. request[s].granted = NoToken
  BY <1>1 DEF RequestHolds, Holds
<1>3. QED
  BY <1>2, Agreed DEF Carries

LEMMA ContinueSeats ==
  ASSUME IInv, NEW s \in Slots, Continue(s), NEW t \in Tokens,
         alive[t] # NoCard, ~late', ~spilled'
  PROVE  Goes(t)
<1> DEFINE r == request[s]
<1>0. ~late /\ ~spilled /\ RequestTypes /\ RequestHolds(r)
  BY HandlerLeavesServer, Continued DEF Handler, IInv, TypeOK, RequestTypes
<1>1. t = saved.token \/ t \in pending \/ Carried(t)
  BY <1>0, WhereSeatsAre
<1>2. ASSUME ~Carries(r, t), UNCHANGED pending, saved'.token = saved.token,
             NEW x, request' = [request EXCEPT ![s] = x]
      PROVE  Goes(t)
  BY <1>0, <1>1, <1>2, SlotCarries DEF Goes
<1>3. ASSUME ~Carries(r, t), UNCHANGED pending, saved.token \in Tokens,
             request' = [request EXCEPT ![s] = Deactivation(saved.token)]
      PROVE  Goes(t)
  BY <1>0, <1>1, <1>3, SlotCarries, DeactivationCarries DEF Goes
<1>4. CASE ActivateDone(s)
  <2>1. /\ r.kind = "activate" /\ UNCHANGED pending
        /\ request' = [request EXCEPT ![s] = NoRequest]
    BY <1>4 DEF ActivateDone, Answered, Done
  <2>2. CASE r.result = "ok"
    <3>1. saved'.token = r.granted
      BY <1>4, <2>2 DEF ActivateDone
    <3>2. spilled' = (spilled \/ \E u \in {controller.token, saved.token} :
                                   u # NoToken /\ alive[u] # NoCard)
      BY <1>4, <2>2, Zenon DEF ActivateDone
    <3>3. t # saved.token
      BY <3>2, Agreed
    <3>4. QED
      BY <1>0, <1>1, <2>1, <3>1, <3>3, SlotCarries DEF Goes, Carries
  <2>3. CASE r.result # "ok"
    <3>1. UNCHANGED saved
      BY <1>4, <2>3 DEF ActivateDone
    <3>2. QED
      BY <1>2, <2>1, <2>3, <3>1, CarriesNothing
  <2>4. QED
    BY <2>2, <2>3
<1>5. CASE RestoreDone(s)
  <2>1. r.kind = "restore" /\ controller.state = "Inactive"
    BY <1>5, Observed DEF RestoreDone, Answered, Expects
  <2>2. ~Carries(r, t)
    BY <2>1, CarriesNothing
  <2>3. UNCHANGED <<saved, pending>>
    BY <1>5, <2>1 DEF RestoreDone, EndSession, ResetSaved, settings
  <2>4. \E x : request' = [request EXCEPT ![s] = x]
    BY <1>5 DEF RestoreDone, EndSession, Done
  <2>5. QED
    BY <1>2, <2>2, <2>3, <2>4
<1>6. CASE HeartbeatDone(s)
  <2>1. r.kind = "heartbeat"
    BY <1>6 DEF HeartbeatDone, Answered
  <2>2. ~Carries(r, t)
    BY <2>1, CarriesNothing
  <2>3. CASE Done(s) /\ UNCHANGED settings
    BY <1>2, <2>2, <2>3 DEF Done, settings
  <2>4. CASE controller.state = "Active" /\ EndSession(s)
    <3>1. request' = [request EXCEPT ![s] = Deactivation(saved.token)]
      BY <1>0, <2>4, ActiveIsSaved DEF EndSession
    <3>2. QED
      BY <1>0, <1>3, <2>2, <2>4, <3>1, ActiveIsSaved DEF EndSession
  <2>5. CASE controller.state = "Active" /\ Reconnect(s)
    <3>1. CASE saved.card \in Cards \ over
      BY <1>2, <2>2, <2>5, <3>1 DEF Reconnect, settings
    <3>2. CASE saved.card \notin Cards \ over
      <4>1. /\ request' = [request EXCEPT ![s] = Deactivation(saved.token)]
            /\ UNCHANGED pending
        BY <1>0, <2>5, <3>2, ActiveIsSaved DEF Reconnect
      <4>2. QED
        BY <1>0, <1>3, <2>2, <2>5, <4>1, ActiveIsSaved
    <3>3. QED
      BY <3>1, <3>2
  <2>6. QED
    BY <1>6, <2>3, <2>4, <2>5
       DEF HeartbeatDone, HeartbeatFails, CountFailure, settings
<1>7. CASE ChatDone(s)
  <2>1. r.kind = "chat"
    BY <1>7 DEF ChatDone, Answered
  <2>2. ~Carries(r, t)
    BY <2>1, CarriesNothing
  <2>3. CASE Done(s) /\ UNCHANGED settings
    BY <1>2, <2>2, <2>3 DEF Done, settings
  <2>4. CASE /\ request' = [request EXCEPT ![s] = Deactivation(window.token)]
             /\ CloseWindow /\ Observe(s)
    <3>1. controller.state = "Active"
      BY <2>1, <2>4, Observed DEF Expects
    <3>2. request' = [request EXCEPT ![s] = Deactivation(saved.token)]
      BY <1>0, <2>4, <3>1, ActiveIsSaved
    <3>3. QED
      BY <1>0, <1>3, <2>2, <2>4, <3>1, <3>2, ActiveIsSaved DEF CloseWindow
  <2>5. QED
    BY <1>7, <2>3, <2>4 DEF ChatDone
<1>8. CASE DeactivateDone(s)
  <2>1. /\ r.kind = "deactivate" /\ r.result # "none" /\ UNCHANGED saved
        /\ request' = [request EXCEPT ![s] = NoRequest]
        /\ pending' = IF r.result = "failed" THEN pending \cup {r.token} ELSE pending
    BY <1>8 DEF DeactivateDone, Answered, Done
  <2>2. r.granted = NoToken /\ r.result \in {"ok", "failed", "dropped"}
        /\ (r.result = "ok" => alive[r.token] = NoCard)
        /\ r.result # "dropped"
    BY <1>0, <2>1 DEF RequestHolds, Holds
  <2>3. Carries(r, t) => t \in pending'
    BY <2>1, <2>2, Agreed DEF Carries
  <2>4. QED
    BY <1>0, <1>1, <2>1, <2>3, SlotCarries DEF Goes
<1>9. QED
  BY <1>4, <1>5, <1>6, <1>7, <1>8 DEF Continue

LEMMA HandlerSeats ==
  ASSUME IInv, Handler, NEW t \in Tokens, alive[t] # NoCard, ~late', ~spilled'
  PROVE  Goes(t)
<1>0. ~late /\ ~spilled /\ RequestTypes
  BY HandlerLeavesServer DEF IInv, TypeOK, RequestTypes
<1>1. t = saved.token \/ t \in pending \/ Carried(t)
  BY <1>0, WhereSeatsAre
<1>2. ASSUME UNCHANGED <<saved, pending>>,
             UNCHANGED request \/ \E r : Send(r)
      PROVE  Goes(t)
  <2>1. Carried(t) => Carried(t)'
    BY <1>0, <1>2, SendCarries DEF Carried, Carries
  <2>2. QED
    BY <1>1, <1>2, <2>1 DEF Goes
<1>3. ASSUME UNCHANGED pending, Send(Deactivation(saved.token))
      PROVE  Goes(t)
  <2>1. t = saved.token => Carried(t)'
    BY <1>0, <1>3, SendCarries, DeactivationCarries
  <2>2. Carried(t) => Carried(t)'
    BY <1>0, <1>3, SendCarries
  <2>3. QED
    BY <1>1, <1>3, <2>1, <2>2 DEF Goes
<1>4. CASE TryRestoreSession
  <2>1. \/ UNCHANGED <<saved, request>>
        \/ Send(Deactivation(saved.token))
        \/ UNCHANGED saved /\ \E r : Send(r)
    BY <1>4 DEF TryRestoreSession
  <2>2. UNCHANGED pending
    BY <1>4 DEF TryRestoreSession
  <2>3. QED
    BY <1>2, <1>3, <2>1, <2>2
<1>5. CASE ClickActivate
  BY <1>2, <1>5 DEF ClickActivate, settings
<1>6. CASE ClickDeactivate
  <2>1. window.activated /\ Send(Deactivation(window.token)) /\ UNCHANGED pending
    BY <1>6 DEF ClickDeactivate
  <2>2. QED
    BY <1>0, <1>3, <2>1, ActiveIsSaved
<1>7. CASE CheckCardExpiry
  <2>1. window.activated /\ Send(Deactivation(window.token)) /\ UNCHANGED pending
    BY <1>7 DEF CheckCardExpiry, CloseWindow
  <2>2. QED
    BY <1>0, <1>3, <2>1, ActiveIsSaved
<1>8. CASE PerformHeartbeat \/ SendChatMessage
  BY <1>2, <1>8 DEF PerformHeartbeat, SendChatMessage, settings
<1>9. CASE Enters
  BY <1>2, <1>9, EntersOnlyText DEF settings
<1>10. QED
  BY <1>0, <1>4, <1>5, <1>6, <1>7, <1>8, <1>9, ContinueSeats DEF Handler

\* The server and the network leave what is carried, unless they spill it.
LEMMA OutsideCarries ==
  ASSUME IInv, Outside, NEW t \in Tokens, Carried(t), ~spilled'
  PROVE  Carried(t)'
<1>0. RequestTypes /\ RequestsInv
  BY DEF IInv, TypeOK, RequestTypes
<1>1. CASE UNCHANGED request
  BY <1>1 DEF Carried, Carries
<1>2. ASSUME NEW s \in Slots, Serve(s) \/ LoseAnswer(s)
      PROVE  Carried(t)'
  <2> DEFINE r == request[s]
  <2>1. r # NoRequest /\ r \in Request /\ RequestHolds(r)
    BY <1>0, <1>2 DEF Serve, ServeActivate, ServeHeartbeat, ServeChat,
       ServeDeactivate, Reject, LoseRequest, LoseAnswer, Waiting, RequestTypes,
       RequestsInv
  <2>2. ASSUME NEW result \in Results, NEW card \in CardOrNone,
               NEW granted \in Token, Reply(s, result, card, granted),
               r.granted \in {NoToken, granted}
        PROVE  Carried(t)'
    <3> DEFINE x == [kind |-> r.kind, token |-> r.token, card |-> card,
                     result |-> result, granted |-> granted]
    <3>1. request' = [request EXCEPT ![s] = x]
      BY <2>2 DEF Reply
    <3>2. x \in Request
      BY <2>1 DEF Request
    <3>3. Carries(r, t) => Carries(x, t)
      BY <2>2, Agreed DEF Carries
    <3>4. x # NoRequest
      BY <3>2, AbsenceAssumption DEF AbsenceAssumption
    <3> HIDE DEF x
    <3>5. QED
      BY <1>0, <3>1, <3>3, <3>4, SlotCarries
  <2>3. /\ r.card \in CardOrNone /\ r.granted \in Token /\ NoToken \in Token
        /\ Tokens \subseteq Token
    BY <2>1 DEF Request, Token
  <2>4. /\ "ok" \in Results /\ "refused" \in Results /\ "outdated" \in Results
        /\ "unauthorized" \in Results
        /\ "failed" \in Results /\ "dropped" \in Results
    BY DEF Results
  <2>5. ASSUME NEW result \in Results, Answer(s, result)
        PROVE  Carried(t)'
    BY <2>2, <2>3, <2>5 DEF Answer
  <2>6. CASE ServeActivate(s) /\ ~Answer(s, "refused")
    <3>1. PICK u \in Tokens : Reply(s, "ok", r.card, u)
      BY <2>6 DEF ServeActivate
    <3>2. r.granted = NoToken
      BY <2>1, <2>6 DEF ServeActivate, Waiting, RequestHolds, Holds
    <3>3. QED
      BY <2>2, <2>3, <2>4, <3>1, <3>2
  <2>7. CASE ServeHeartbeat(s) /\ ~Answer(s, "refused")
    <3>1. Reply(s, "ok", alive[r.token], NoToken) /\ r.result = "none"
          /\ r.kind \in {"heartbeat", "restore"}
      BY <2>7 DEF ServeHeartbeat, Waiting
    <3>2. r.granted = NoToken /\ r.token \in Tokens
      BY <2>1, <3>1 DEF RequestHolds, Holds
    <3>3. alive[r.token] \in CardOrNone
      BY <3>2 DEF IInv, TypeOK
    <3>4. QED
      BY <2>2, <2>3, <2>4, <3>1, <3>2, <3>3
  <2>8. CASE LoseAnswer(s)
    <3>1. Reply(s, "failed", r.card, NoToken)
      BY <2>8 DEF LoseAnswer
    <3>2. r.kind # "activate"
      <4>1. spilled' = (spilled \/ r.kind = "activate")
        BY <2>8, Zenon DEF LoseAnswer
      <4>2. QED
        BY <4>1, Zenon
    <3>3. r.granted = NoToken
      BY <2>1, <3>2 DEF RequestHolds, Holds
    <3>4. QED
      BY <2>2, <2>3, <2>4, <3>1, <3>3
  <2>9. \/ \E result \in Results : Answer(s, result)
        \/ ServeActivate(s) /\ ~Answer(s, "refused")
        \/ ServeHeartbeat(s) /\ ~Answer(s, "refused")
        \/ LoseAnswer(s)
    BY <1>2, <2>4 DEF Serve, ServeChat, ServeDeactivate, Reject, LoseRequest
  <2>10. QED
    BY <2>5, <2>6, <2>7, <2>8, <2>9
<1>3. QED
  BY <1>1, <1>2 DEF Outside, SessionEnds, CardEnds

LEMMA OtherStepsSeats ==
  ASSUME IInv, [Next]_vars, Outside \/ Worker \/ Restart \/ UNCHANGED vars,
         NEW t \in Tokens, alive'[t] # NoCard, ~late', ~spilled'
  PROVE  Goes(t)
<1>0. Forward /\ RequestTypes /\ FlushInv
  BY StepsGoForward DEF IInv, TypeOK, RequestTypes
<1>1. UNCHANGED <<late, saved>> /\ ~late /\ ~spilled
  <2>1. Outside => UNCHANGED <<late, saved>>
    BY OutsideLeavesClient DEF client, settings
  <2>2. Worker \/ Restart \/ UNCHANGED vars => UNCHANGED <<late, saved>>
    BY DEF Worker, FlushOne, FlushEnd, Restart, vars, settings, history
  <2>3. UNCHANGED <<late, saved>>
    BY <2>1, <2>2
  <2>4. ~spilled
    BY <1>0 DEF Forward
  <2>5. ~late
    BY <2>3
  <2>6. QED
    BY <2>3, <2>4, <2>5
<1>2. CASE \E s \in Slots : ServeActivate(s) /\ t \notin issued
  <2>1. PICK s \in Slots : ServeActivate(s)
    BY <1>2
  <2>2. alive[t] = NoCard
    BY <1>2 DEF IInv, IssuedInv
  <2>3. Reply(s, "ok", request[s].card, t)
    BY <2>1, <2>2 DEF ServeActivate, IInv, TypeOK
  <2> DEFINE x == [kind |-> request[s].kind, token |-> request[s].token,
                   card |-> request[s].card, result |-> "ok", granted |-> t]
  <2>4. request[s] \in Request
    BY <1>0, <2>1 DEF ServeActivate, Waiting, RequestTypes
  <2>5. x \in Request /\ Carries(x, t)
    BY <2>4 DEF Request, Results, Token, Carries
  <2>6. request' = [request EXCEPT ![s] = x]
    BY <2>3 DEF Reply
  <2> HIDE DEF x
  <2>7. QED
    BY <1>0, <2>5, <2>6, SlotCarries, AbsenceAssumption DEF Goes, AbsenceAssumption
<1>3. CASE alive[t] # NoCard
  <2>1. t = saved.token \/ t \in pending \/ Carried(t)
    BY <1>1, <1>3, WhereSeatsAre
  <2>2. CASE Outside
    <3>1. UNCHANGED pending
      BY <2>2, OutsideLeavesClient DEF client, settings
    <3>2. QED
      BY <1>1, <2>1, <2>2, <3>1, OutsideCarries DEF Goes
  <2>3. CASE (\E u \in Tokens : FlushOne(u)) \/ UNCHANGED vars
    <3>1. UNCHANGED <<pending, request>>
      BY <2>3 DEF FlushOne, vars, settings
    <3>2. QED
      BY <1>1, <2>1, <3>1 DEF Goes, Carried, Carries
  <2>4. CASE FlushEnd
    <3>1. flush.todo = {} /\ pending' = flush.keep /\ UNCHANGED request
      BY <2>4 DEF FlushEnd
    <3>2. pending = flush.read
      <4>1. spilled' = (spilled \/ pending # flush.read)
        BY <2>4, Zenon DEF FlushEnd
      <4>2. QED
        BY <4>1, Zenon
    <3>3. t \in pending => t \in pending'
      BY <1>0, <1>1, <1>3, <3>1, <3>2 DEF FlushInv
    <3>4. QED
      BY <1>1, <2>1, <3>1, <3>3 DEF Goes, Carried, Carries
  <2>5. CASE Restart
    <3>1. \A s \in Slots : request[s] = NoRequest
      <4>1. spilled' = (spilled \/ \E s \in Slots : request[s] # NoRequest)
        BY <2>5, Zenon DEF Restart
      <4>2. QED
        BY <4>1, Zenon
    <3>2. QED
      BY <1>1, <2>1, <2>5, <3>1 DEF Goes, Carried, Restart, settings
  <2>6. QED
    BY <2>2, <2>3, <2>4, <2>5 DEF Worker
<1>4. alive[t] # NoCard \/ t \notin issued
  BY <1>0 DEF Forward
<1>5. CASE alive[t] = NoCard /\ ~\E s \in Slots : ServeActivate(s)
  <2>1. alive'[t] \in {alive[t], NoCard}
    <3>1. alive \in [Tokens -> CardOrNone]
      BY DEF IInv, TypeOK
    <3>2. ASSUME NEW s \in Slots, Serve(s) \/ LoseAnswer(s)
          PROVE  alive'[t] \in {alive[t], NoCard}
      BY <1>5, <3>1, <3>2 DEF Serve, ServeHeartbeat, ServeChat, ServeDeactivate,
         Reject, LoseRequest, LoseAnswer, server
    <3>3. ASSUME NEW u \in Tokens, SessionEnds(u) \/ FlushOne(u)
          PROVE  alive'[t] \in {alive[t], NoCard}
      BY <3>1, <3>3 DEF SessionEnds, FlushOne
    <3>4. (\E c \in Cards : CardEnds(c)) \/ FlushEnd \/ Restart \/ UNCHANGED vars
            => UNCHANGED alive
      BY DEF CardEnds, FlushEnd, Restart, vars, server
    <3>5. QED
      BY <3>2, <3>3, <3>4 DEF Outside, Worker
  <2>2. QED
    BY <1>5, <2>1
<1>6. QED
  BY <1>2, <1>3, <1>4, <1>5

LEMMA SeatsStep ==
  ASSUME IInv, [Next]_vars
  PROVE  SeatsAccounted'
<1>1. ASSUME NEW t \in Tokens, alive'[t] # NoCard, ~late', ~spilled'
      PROVE  t \in Accounted'
  <2>1. CASE Handler
    <3>1. alive' = alive
      BY <2>1, HandlerLeavesServer DEF server
    <3>2. QED
      BY <1>1, <2>1, <3>1, HandlerSeats, AccountedIs DEF Goes
  <2>2. CASE Outside \/ Worker \/ Restart \/ UNCHANGED vars
    BY <1>1, <2>2, OtherStepsSeats, AccountedIs DEF Goes
  <2>3. QED
    BY <2>1, <2>2, ActionKinds
<1>2. QED
  BY <1>1 DEF SeatsAccounted

-----------------------------------------------------------------------------
(* The theorems.                                                           *)

LEMMA InitIInv ==
  Init => IInv
<1> SUFFICES ASSUME Init
             PROVE  IInv
  OBVIOUS
<1>1. /\ NoToken \in Token /\ NoCard \in CardOrNone /\ "Inactive" \in States
      /\ NoToken \notin Tokens
  BY NamesAssumption DEF Token, CardOrNone, States, NamesAssumption
<1>2. /\ saved \in SavedSession /\ saved.token = NoToken
      /\ controller \in Controller /\ controller.token = NoToken
      /\ controller.state = "Inactive"
  BY <1>1 DEF Init, NothingSaved, SavedSession, Idle, Controller
<1>3. window \in Window /\ ~window.activated /\ window.token = NoToken
  BY <1>1 DEF Init, ClearWindow, Window
<1>4. /\ flush \in Flush /\ ~flush.running /\ flush = NoFlush
      /\ flush.read = {} /\ flush.todo = {} /\ flush.keep = {}
  BY DEF Init, NoFlush, Flush
<1>5. TypeOK
  <2>1. /\ alive \in [Tokens -> CardOrNone] /\ issued \subseteq Tokens
        /\ over \subseteq Cards /\ pending \subseteq Tokens
        /\ request \in [Slots -> Request \cup {NoRequest}]
    BY <1>1 DEF Init
  <2>2. restored \in BOOLEAN /\ late \in BOOLEAN /\ spilled \in BOOLEAN
    BY Zenon DEF Init
  <2>3. QED
    BY <1>2, <1>3, <1>4, <2>1, <2>2 DEF TypeOK
<1>6. RequestsInv
  BY DEF Init, RequestsInv
<1>7. IssuedInv /\ SavedInv /\ WindowInv
  BY <1>1, <1>2, <1>3 DEF Init, IssuedInv, SavedInv, WindowInv, Known, OnCard
<1>8. FlushInv
  BY <1>4 DEF Init, FlushInv
<1>9. SeatsAccounted
  BY DEF Init, SeatsAccounted
<1>10. QED
  BY <1>5, <1>6, <1>7, <1>8, <1>9 DEF IInv

LEMMA StepIInv ==
  IInv /\ [Next]_vars => IInv'
<1> SUFFICES ASSUME IInv, [Next]_vars
             PROVE  IInv'
  OBVIOUS
<1>1. ClientTypes' /\ Agree'
  BY HandlerTypes, HandlerAgrees, OtherStepsAgree, ActionKinds
<1>2. RequestTypes' /\ RequestsInv' /\ FlushInv' /\ flush' \in Flush
  BY RequestsStep, FlushStep
<1>3. TypeOK'
  BY <1>1, <1>2, ServerTypes, FlagTypes DEF TypeOK, ClientTypes, RequestTypes
<1>4. QED
  BY <1>1, <1>2, <1>3, SeatsStep DEF Agree, IInv

LEMMA Inductive == Spec => []IInv
BY InitIInv, StepIInv, PTL DEF Spec

\* Every variable keeps its type: in particular a controller never counts a
\* third failure, and a session that is saved, queued or shown is a session.
THEOREM TypeCorrect == Spec => []TypeOK
<1>1. IInv => TypeOK
  BY DEF IInv
<1>2. QED
  BY <1>1, Inductive, PTL

\* Until a late answer has been handled, the window offers the session's
\* functions only on the session that the controller keeps alive.
THEOREM WindowFollows == Spec => []WindowFollowsController
<1>1. IInv => WindowFollowsController
  BY DEF IInv, WindowInv, WindowFollowsController
<1>2. QED
  BY <1>1, Inductive, PTL

\* The client can still deactivate or restore every session with a seat, but in
\* the cases that spilled and late record.
THEOREM SeatsKept == Spec => []SeatsAccounted
<1>1. IInv => SeatsAccounted
  BY DEF IInv
<1>2. QED
  BY <1>1, Inductive, PTL

\* What a session that is given up without cause would need: an answer by which
\* the server would not renew it, or the end of its card.
LEMMA GivenUpStep ==
  ASSUME IInv, [Next]_vars,
         controller.state = "Active", controller'.state # "Active",
         Renewable(controller.token), ~late'
  PROVE  \/ ClickDeactivate \/ Restart \/ controller.fails = 2
         \/ TurnedAway \/ OtherCardNamed
<1>1. ~late
  <2>1. Outside \/ Worker \/ Restart \/ UNCHANGED vars => UNCHANGED late
    BY OutsideLeavesClient
       DEF client, Worker, FlushOne, FlushEnd, Restart, vars, history
  <2>2. QED
    BY <2>1, HandlerLeavesServer, ActionKinds
<1>2. /\ window.activated /\ OnCard(window.token, window.expiry)
      /\ controller.token = window.token /\ controller.token \in Tokens
      /\ controller.token = saved.token /\ OnCard(saved.token, saved.card)
      /\ controller \in Controller
  BY <1>1, ActiveIsSaved, Agreed DEF Agree, WindowInv, ClientTypes
<1>3. /\ alive[controller.token] # NoCard
      /\ alive[controller.token] \notin over
      /\ window.expiry \notin over /\ saved.card \notin over
  BY <1>2 DEF Renewable, OnCard
<1>4. Handler \/ Restart
  <2>1. Outside \/ Worker \/ UNCHANGED vars => UNCHANGED controller
    BY OutsideLeavesClient DEF client, Worker, FlushOne, FlushEnd, vars
  <2>2. QED
    BY <2>1, ActionKinds
<1>5. ASSUME NEW s \in Slots, Continue(s), ~TurnedAway, ~OtherCardNamed
      PROVE  controller.fails = 2
  <2> DEFINE r == request[s]
  <2>0. RequestHolds(r)
    BY <1>5, Continued
  <2>10. r.result # "unauthorized"
    BY <1>5, Continued, AbsenceAssumption DEF TurnedAway, Free, AbsenceAssumption
  <2>1. CASE ActivateDone(s) \/ RestoreDone(s)
    <3>1. Observe(s) /\ r.kind \in {"activate", "restore"}
      BY <2>1 DEF ActivateDone, RestoreDone, Answered
    <3>2. controller.state # "Active"
      BY <3>1, Observed DEF Expects
    <3>3. QED
      BY <3>2
  <2>2. CASE HeartbeatDone(s)
    <3>1. r.kind = "heartbeat" /\ r.token = controller.token
      <4>1. r.kind = "heartbeat"
        BY <2>2 DEF HeartbeatDone, Answered
      <4>2. r.token = controller.token
        BY <2>2, Zenon DEF HeartbeatDone
      <4>3. QED
        BY <4>1, <4>2
    <3>2. ~(r.result \in Refusals \/ (r.result = "ok" /\ r.card \in over))
      BY <1>3, <2>0, <2>10, <3>1 DEF RequestHolds, Holds, Refusals
    <3>3. [controller EXCEPT !.beating = FALSE].state = "Active"
          /\ [controller EXCEPT !.fails = 0, !.beating = FALSE].state = "Active"
          /\ [controller EXCEPT !.fails = @ + 1, !.beating = FALSE].state = "Active"
      BY <1>2, ControllerFields DEF Controller
    <3>4. HeartbeatFails(s) /\ ~(controller.fails < 2)
      BY <2>2, <3>2, <3>3 DEF HeartbeatDone, HeartbeatFails, CountFailure
    <3>5. QED
      BY <1>2, <3>4 DEF Controller
  <2>3. CASE ChatDone(s)
    <3>1. r.kind = "chat" /\ (r.result \in Refusals => Observe(s))
          /\ (r.result \notin Refusals => UNCHANGED controller)
      BY <2>3 DEF ChatDone, Answered
    <3>2. r.result = "refused" => r.card \in {NoCard, alive[r.token]}
      BY <1>5, <2>3, <3>1, Continued, AbsenceAssumption
         DEF OtherCardNamed, Free, AbsenceAssumption
    <3>3. r.result \notin Refusals
      BY <1>3, <2>0, <2>10, <3>1, <3>2, Observed
         DEF RequestHolds, Holds, Refusals
    <3>4. QED
      BY <3>1, <3>3
  <2>4. CASE DeactivateDone(s)
    BY <2>4 DEF DeactivateDone
  <2>5. QED
    BY <1>5, <2>1, <2>2, <2>3, <2>4 DEF Continue
<1>6. ~TryRestoreSession
  <2>1. [controller EXCEPT !.token = saved.token].state = "Active"
    BY <1>2 DEF Controller
  <2>2. QED
    BY <1>3, <2>1 DEF TryRestoreSession
<1>7. ~CheckCardExpiry /\ ~ClickActivate /\ ~Enters
  BY <1>2, <1>3, EntersOnlyText DEF CheckCardExpiry, ClickActivate
<1>8. ~PerformHeartbeat /\ ~SendChatMessage
  <2>1. [controller EXCEPT !.beating = TRUE].state = "Active"
    BY <1>2 DEF Controller
  <2>2. QED
    BY <2>1 DEF PerformHeartbeat, SendChatMessage
<1>9. QED
  BY <1>4, <1>5, <1>6, <1>7, <1>8 DEF Handler

\* Until a late answer has been handled, a session that the server would renew
\* ends on the client only by the user, the end of the program, the third
\* failed heartbeat in a row, a request that the server turned away, or a chat
\* message that named another card than the session's.
THEOREM SessionsGivenUpForCause == Spec => GivenUpForCause
<1>1. IInv /\ [Next]_vars =>
        [controller.state = "Active" /\ controller'.state # "Active"
           /\ Renewable(controller.token) /\ ~late'
         => \/ ClickDeactivate
            \/ Restart
            \/ controller.fails = 2
            \/ TurnedAway
            \/ OtherCardNamed]_vars
  BY GivenUpStep
<1>2. QED
  BY <1>1, Inductive, PTL DEF Spec, GivenUpForCause
-----------------------------------------------------------------------------
(* Waiting.                                                                *)

Taken(s, kind) == request[s] # NoRequest /\ request[s].kind = kind

LEMMA UnderWayIs ==
  ASSUME NEW kind
  PROVE  /\ UnderWay(kind) <=> \E s \in Slots : Taken(s, kind)
         /\ UnderWay(kind)' <=> \E s \in Slots : Taken(s, kind)'
BY DEF UnderWay, Taken, Free

LEMMA SlotKeeps ==
  ASSUME RequestTypes, NEW s \in Slots, NEW r, NEW kind,
         request' = [request EXCEPT ![s] = r]
  PROVE  /\ r # NoRequest /\ r.kind = kind => UnderWay(kind)'
         /\ UnderWay(kind) => UnderWay(kind)' \/ Taken(s, kind)
<1>1. request'[s] = r /\ \A x \in Slots : x # s => request'[x] = request[x]
  BY DEF RequestTypes
<1>2. QED
  BY <1>1, UnderWayIs DEF Taken

LEMMA SendKeeps ==
  ASSUME RequestTypes, NEW r, NEW kind, Send(r)
  PROVE  /\ r # NoRequest /\ r.kind = kind => UnderWay(kind)'
         /\ UnderWay(kind) => UnderWay(kind)'
<1>1. PICK s \in Slots : /\ request[s] = NoRequest
                         /\ request' = [request EXCEPT ![s] = r]
  BY SendTakesSlot
<1>2. ~Taken(s, kind)
  BY <1>1 DEF Taken
<1>3. QED
  BY <1>1, <1>2, SlotKeeps

\* What the server and the network leave of a request.
LEMMA OutsideKeeps ==
  ASSUME IInv, Outside, NEW kind, UnderWay(kind)
  PROVE  UnderWay(kind)'
<1>0. RequestTypes /\ RequestsInv
  BY DEF IInv, TypeOK, RequestTypes
<1>1. CASE UNCHANGED request
  BY <1>1, UnderWayIs DEF Taken
<1>2. ASSUME NEW s \in Slots, Serve(s) \/ LoseAnswer(s)
      PROVE  UnderWay(kind)'
  <2> DEFINE r == request[s]
  <2>1. r # NoRequest /\ r \in Request /\ RequestHolds(r)
    BY <1>0, <1>2 DEF Serve, ServeActivate, ServeHeartbeat, ServeChat,
       ServeDeactivate, Reject, LoseRequest, LoseAnswer, Waiting, RequestTypes,
       RequestsInv
  <2>2. ASSUME NEW result \in Results, NEW card \in CardOrNone,
               NEW granted \in Token, Reply(s, result, card, granted)
        PROVE  UnderWay(kind)'
    <3> DEFINE x == [kind |-> r.kind, token |-> r.token, card |-> card,
                     result |-> result, granted |-> granted]
    <3>1. request' = [request EXCEPT ![s] = x] /\ x.kind = r.kind
      BY <2>2 DEF Reply
    <3>2. x \in Request
      BY <2>1 DEF Request
    <3>3. x # NoRequest
      BY <3>2, AbsenceAssumption DEF AbsenceAssumption
    <3> HIDE DEF x
    <3>4. UnderWay(kind)' \/ Taken(s, kind)
      BY <1>0, <3>1, SlotKeeps
    <3>5. Taken(s, kind) => x.kind = kind
      BY <3>1 DEF Taken
    <3>6. QED
      BY <1>0, <3>1, <3>3, <3>4, <3>5, SlotKeeps
  <2>3. /\ r.card \in CardOrNone /\ r.granted \in Token /\ NoToken \in Token
        /\ Tokens \subseteq Token
        /\ "ok" \in Results /\ "refused" \in Results /\ "outdated" \in Results
        /\ "unauthorized" \in Results
        /\ "failed" \in Results /\ "dropped" \in Results
    BY <2>1 DEF Request, Token, Results
  <2>4. ASSUME NEW result \in Results, Answer(s, result)
        PROVE  UnderWay(kind)'
    BY <2>2, <2>3, <2>4 DEF Answer
  <2>5. ASSUME NEW u \in Tokens, Reply(s, "ok", r.card, u)
        PROVE  UnderWay(kind)'
    BY <2>2, <2>3, <2>5
  <2>6. CASE ServeHeartbeat(s)
    <3>1. r.kind \in {"heartbeat", "restore"} => r.token \in Tokens
      BY <2>1 DEF RequestHolds, Holds
    <3>2. r.token \in Tokens => alive[r.token] \in CardOrNone
      BY DEF IInv, TypeOK
    <3>3. QED
      BY <2>2, <2>3, <2>4, <2>6, <3>1, <3>2 DEF ServeHeartbeat
  <2>7. CASE ServeActivate(s)
    BY <2>3, <2>4, <2>5, <2>7 DEF ServeActivate
  <2>8. CASE LoseAnswer(s)
    BY <2>2, <2>3, <2>8 DEF LoseAnswer
  <2>9. \/ \E result \in Results : Answer(s, result)
        \/ ServeActivate(s) \/ ServeHeartbeat(s) \/ LoseAnswer(s)
    BY <1>2, <2>3 DEF Serve, ServeChat, ServeDeactivate, Reject, LoseRequest
  <2>10. QED
    BY <2>4, <2>6, <2>7, <2>8, <2>9
<1>3. QED
  BY <1>1, <1>2 DEF Outside, SessionEnds, CardEnds

\* A window that neither offers a session nor lets the user ask for one.
Locked(w) == ~w.activated /\ ~w.button /\ ~w.blocked

LEMMA WaitsAre ==
  /\ WaitsForRequest <=>
       /\ controller.beating => UnderWay("heartbeat")
       /\ controller.state = "Activating" => UnderWay("activate")
       /\ Locked(window) => UnderWay("activate")
  /\ WaitsForRequest' <=>
       /\ controller'.beating => UnderWay("heartbeat")'
       /\ controller'.state = "Activating" => UnderWay("activate")'
       /\ Locked(window') => UnderWay("activate")'
BY DEF WaitsForRequest, Locked

\* A step after which nobody waits who did not wait before.
LEMMA NoNewWait ==
  ASSUME WaitsForRequest,
         controller'.beating => controller.beating,
         controller'.state = "Activating" => controller.state = "Activating",
         Locked(window') => Locked(window),
         UnderWay("heartbeat") => UnderWay("heartbeat")',
         UnderWay("activate") => UnderWay("activate")'
  PROVE  WaitsForRequest'
BY WaitsAre, Zenon

LEMMA LockedWindows ==
  ASSUME window \in Window
  PROVE  /\ ~Locked(ClosedWindow) /\ (Locked(ResetWindow) => Locked(window))
         /\ ~Locked([ClosedWindow EXCEPT !.blocked = FALSE])
         /\ ~Locked([window EXCEPT !.button = TRUE])
         /\ ~Locked([window EXCEPT !.blocked = TRUE])
         /\ \A token, card : ~Locked(OpenedWindow(token, card))
         /\ \A card :
              /\ Locked([window EXCEPT !.expiry = card]) => Locked(window)
              /\ Locked([window EXCEPT !.input = card]) => Locked(window)
<1>1. ~Locked(ClosedWindow)
  BY DEF Locked, ClosedWindow, Window
<1>2. ~Locked([ClosedWindow EXCEPT !.blocked = FALSE])
  BY DEF Locked, ClosedWindow, Window
<1>3. ~Locked([window EXCEPT !.button = TRUE])
  BY DEF Locked, Window
<1>4. ~Locked([window EXCEPT !.blocked = TRUE])
  BY DEF Locked, Window
<1>5. \A token, card : ~Locked(OpenedWindow(token, card))
  BY DEF Locked, OpenedWindow, Window
<1>6. \A card :
        /\ Locked([window EXCEPT !.expiry = card]) => Locked(window)
        /\ Locked([window EXCEPT !.input = card]) => Locked(window)
  BY DEF Locked, Window
<1>7. QED
  BY <1>1, <1>2, <1>3, <1>4, <1>5, <1>6 DEF ResetWindow

LEMMA WaitingControllers ==
  ASSUME controller \in Controller
  PROVE  /\ ResetController.beating => controller.beating
         /\ ResetController.state # "Activating"
         /\ ~[controller EXCEPT !.beating = FALSE].beating
         /\ ~[controller EXCEPT !.fails = 0, !.beating = FALSE].beating
         /\ ~[controller EXCEPT !.fails = @ + 1, !.beating = FALSE].beating
         /\ \A state :
              /\ [controller EXCEPT !.state = state].beating = controller.beating
              /\ [controller EXCEPT !.state = state].state = state
         /\ \A token :
              /\ [controller EXCEPT !.token = token].beating = controller.beating
              /\ [controller EXCEPT !.token = token].state = controller.state
<1>1. /\ ResetController.beating => controller.beating
      /\ ResetController.state # "Activating"
  BY DEF ResetController, Idle
<1>2. /\ ~[controller EXCEPT !.beating = FALSE].beating
      /\ ~[controller EXCEPT !.fails = 0, !.beating = FALSE].beating
      /\ ~[controller EXCEPT !.fails = @ + 1, !.beating = FALSE].beating
  BY DEF Controller
<1>3. \A state :
        /\ [controller EXCEPT !.state = state].beating = controller.beating
        /\ [controller EXCEPT !.state = state].state = state
  BY DEF Controller
<1>4. \A token :
        /\ [controller EXCEPT !.token = token].beating = controller.beating
        /\ [controller EXCEPT !.token = token].state = controller.state
  BY DEF Controller
<1>5. QED
  BY <1>1, <1>2, <1>3, <1>4

\* A continuation leaves the requests that other continuations will handle.
LEMMA ContinueWaits ==
  ASSUME IInv, WaitsForRequest, NEW s \in Slots, Continue(s)
  PROVE  WaitsForRequest'
<1> DEFINE r == request[s]
<1>0. /\ RequestTypes /\ controller \in Controller /\ window \in Window
      /\ r \in Request /\ r # NoRequest
  BY Continued, AbsenceAssumption
     DEF IInv, TypeOK, RequestTypes, AbsenceAssumption
<1>1. ASSUME NEW x, request' = [request EXCEPT ![s] = x], NEW kind, r.kind # kind
      PROVE  UnderWay(kind) => UnderWay(kind)'
  BY <1>0, <1>1, SlotKeeps DEF Taken
<1>2. ASSUME NEW x, request' = [request EXCEPT ![s] = x],
             r.kind \notin {"heartbeat", "activate"}
      PROVE  /\ UnderWay("heartbeat") => UnderWay("heartbeat")'
             /\ UnderWay("activate") => UnderWay("activate")'
  BY <1>1, <1>2
<1>3. CASE ActivateDone(s)
  <2>1. r.kind = "activate" /\ request' = [request EXCEPT ![s] = NoRequest]
    BY <1>3 DEF ActivateDone, Answered, Done
  <2>2. UnderWay("heartbeat") => UnderWay("heartbeat")'
    BY <1>1, <2>1
  <2>3. \/ /\ controller' = [controller EXCEPT !.token = r.granted,
                                               !.state = "Active"]
           /\ window' = OpenedWindow(r.granted, r.card)
        \/ /\ controller' = [controller EXCEPT !.state = "Inactive"]
           /\ window' \in {[window EXCEPT !.blocked = TRUE],
                           [window EXCEPT !.button = TRUE]}
    BY <1>3 DEF ActivateDone
  <2>4. [controller EXCEPT !.token = r.granted, !.state = "Active"].beating
          = controller.beating
        /\ [controller EXCEPT !.token = r.granted, !.state = "Active"].state
          = "Active"
    BY <1>0 DEF Controller
  <2>5. /\ controller'.beating = controller.beating
        /\ controller'.state # "Activating"
    <3>1. /\ [controller EXCEPT !.state = "Inactive"].beating = controller.beating
          /\ [controller EXCEPT !.state = "Inactive"].state = "Inactive"
      BY <1>0, WaitingControllers
    <3>2. QED
      BY <2>3, <2>4, <3>1
  <2>6. ~Locked(window')
    <3>1. /\ ~Locked(OpenedWindow(r.granted, r.card))
          /\ ~Locked([window EXCEPT !.blocked = TRUE])
          /\ ~Locked([window EXCEPT !.button = TRUE])
      BY <1>0, LockedWindows
    <3>2. QED
      BY <2>3, <3>1
  <2>7. QED
    BY <2>2, <2>5, <2>6, WaitsAre
<1>4. CASE RestoreDone(s)
  <2>1. r.kind = "restore"
    BY <1>4 DEF RestoreDone, Answered
  <2>2. \/ /\ controller' = [controller EXCEPT !.state = "Active"]
           /\ window' = OpenedWindow(controller.token, r.card)
           /\ Done(s)
        \/ EndSession(s)
    BY <1>4 DEF RestoreDone
  <2>3. \E x : request' = [request EXCEPT ![s] = x]
    BY <2>2 DEF Done, EndSession
  <2>4. /\ controller'.beating => controller.beating
        /\ controller'.state # "Activating"
    <3>1. /\ [controller EXCEPT !.state = "Active"].beating = controller.beating
          /\ [controller EXCEPT !.state = "Active"].state = "Active"
          /\ ResetController.beating => controller.beating
          /\ ResetController.state # "Activating"
      BY <1>0, WaitingControllers
    <3>2. QED
      BY <2>2, <3>1 DEF EndSession
  <2>5. Locked(window') => Locked(window)
    BY <1>0, <2>2, LockedWindows DEF EndSession
  <2>6. QED
    BY <1>2, <2>1, <2>3, <2>4, <2>5, NoNewWait
<1>5. CASE HeartbeatDone(s)
  <2>1. r.kind = "heartbeat"
    BY <1>5 DEF HeartbeatDone, Answered
  <2>2. \E x : request' = [request EXCEPT ![s] = x]
    BY <1>5 DEF HeartbeatDone, Done, EndSession, HeartbeatFails, CountFailure,
       Reconnect
  <2>3. UnderWay("activate") => UnderWay("activate")'
    BY <1>1, <2>1, <2>2
  <2>4. ASSUME ~controller'.beating,
               controller'.state = "Activating" => controller.state = "Activating",
               Locked(window') => Locked(window) \/ UnderWay("activate")'
        PROVE  WaitsForRequest'
    BY <2>3, <2>4, WaitsAre, Zenon
  <2>5. [controller EXCEPT !.beating = FALSE].state = controller.state
        /\ [controller EXCEPT !.fails = 0, !.beating = FALSE].state
             = controller.state
        /\ [controller EXCEPT !.fails = @ + 1, !.beating = FALSE].state
             = controller.state
    BY <1>0 DEF Controller
  <2>6. CASE controller.state # "Active"
    <3>1. controller' = [controller EXCEPT !.beating = FALSE] /\ window' = window
      BY <1>5, <2>6 DEF HeartbeatDone
    <3>2. QED
      BY <1>0, <2>4, <2>5, <3>1, WaitingControllers
  <2>7. CASE /\ controller' = [controller EXCEPT !.fails = 0, !.beating = FALSE]
             /\ window' = [window EXCEPT !.expiry = r.card]
    BY <1>0, <2>4, <2>5, <2>7, WaitingControllers, LockedWindows
  <2>8. CASE /\ controller' = [controller EXCEPT !.beating = FALSE]
             /\ window' = [window EXCEPT !.blocked = TRUE]
    BY <1>0, <2>4, <2>5, <2>8, WaitingControllers, LockedWindows
  <2>9. CASE EndSession(s) /\ controller.state = "Active"
    <3>1. controller' = Idle /\ window' = ClosedWindow
      BY <2>9 DEF EndSession, ResetController, ResetWindow
    <3>2. ~Idle.beating /\ Idle.state # "Activating"
      BY DEF Idle
    <3>3. QED
      BY <1>0, <2>4, <3>1, <3>2, LockedWindows
  <2>10. CASE CountFailure(s)
    <3>1. /\ controller' = [controller EXCEPT !.fails = @ + 1, !.beating = FALSE]
          /\ window' = window
      BY <2>10 DEF CountFailure
    <3>2. QED
      BY <1>0, <2>4, <2>5, <3>1, WaitingControllers
  <2>11. CASE Reconnect(s) /\ saved.card \in Cards \ over
    <3> DEFINE x == Sent("activate", controller.token, saved.card)
    <3>1. /\ request' = [request EXCEPT ![s] = x]
          /\ controller' = [controller EXCEPT !.state = "HeartbeatFailed",
                                              !.fails = 0, !.beating = FALSE]
      BY <2>11 DEF Reconnect
    <3>2. x \in Request /\ x.kind = "activate"
      BY TokensKnown, SentIsRequest DEF Kinds
    <3>3. x # NoRequest
      BY <3>2, AbsenceAssumption DEF AbsenceAssumption
    <3> HIDE DEF x
    <3>4. UnderWay("activate")'
      BY <1>0, <3>1, <3>2, <3>3, SlotKeeps
    <3>5. ~controller'.beating /\ controller'.state # "Activating"
      BY <1>0, <3>1 DEF Controller
    <3>6. QED
      BY <2>4, <3>4, <3>5
  <2>12. CASE Reconnect(s) /\ saved.card \notin Cards \ over
    <3>1. controller' = Idle /\ window' = ClosedWindow
      BY <2>12 DEF Reconnect
    <3>2. ~controller'.beating /\ controller'.state # "Activating"
      BY <3>1 DEF Idle
    <3>3. QED
      BY <1>0, <2>4, <3>1, <3>2, LockedWindows
  <2>13. QED
    BY <1>5, <2>6, <2>7, <2>8, <2>9, <2>10, <2>11, <2>12
       DEF HeartbeatDone, HeartbeatFails
<1>6. CASE ChatDone(s)
  <2>1. r.kind = "chat"
    BY <1>6 DEF ChatDone, Answered
  <2>2. \E x : request' = [request EXCEPT ![s] = x]
    BY <1>6 DEF ChatDone, Done
  <2>3. \/ controller' = ResetController /\ window' = ClosedWindow
        \/ UNCHANGED <<controller, window>>
    BY <1>6 DEF ChatDone, CloseWindow
  <2>4. QED
    BY <1>0, <1>2, <2>1, <2>2, <2>3, NoNewWait, WaitingControllers, LockedWindows
<1>7. CASE DeactivateDone(s)
  <2>1. /\ r.kind = "deactivate" /\ request' = [request EXCEPT ![s] = NoRequest]
        /\ UNCHANGED <<controller, window>>
    BY <1>7 DEF DeactivateDone, Answered, Done
  <2>2. QED
    BY <1>2, <2>1, NoNewWait
<1>8. QED
  BY <1>3, <1>4, <1>5, <1>6, <1>7 DEF Continue

\* What the user and the timers start.
LEMMA StartWaits ==
  ASSUME IInv, WaitsForRequest, Handler, \A s \in Slots : ~Continue(s)
  PROVE  WaitsForRequest'
<1>0. RequestTypes /\ controller \in Controller /\ window \in Window
  BY DEF IInv, TypeOK, RequestTypes
<1>1. ASSUME NEW x, Send(x)
      PROVE  /\ UnderWay("heartbeat") => UnderWay("heartbeat")'
             /\ UnderWay("activate") => UnderWay("activate")'
             /\ x \in Request => UnderWay(x.kind)'
  BY <1>0, <1>1, SendKeeps, AbsenceAssumption DEF AbsenceAssumption
<1>2. ASSUME NEW x, Send(x) \/ UNCHANGED request,
             controller' \in {controller, ResetController, Idle,
                              [controller EXCEPT !.token = saved.token]},
             window' \in {window, ResetWindow, ClosedWindow,
                          [ClosedWindow EXCEPT !.blocked = FALSE]}
      PROVE  WaitsForRequest'
  <2>1. /\ UnderWay("heartbeat") => UnderWay("heartbeat")'
        /\ UnderWay("activate") => UnderWay("activate")'
    BY <1>1, <1>2 DEF UnderWay, Free
  <2>2. ~Idle.beating /\ Idle.state # "Activating"
    BY DEF Idle
  <2>3. /\ controller'.beating => controller.beating
        /\ controller'.state = "Activating" => controller.state = "Activating"
    BY <1>0, <1>2, <2>2, WaitingControllers
  <2>4. Locked(window') => Locked(window)
    BY <1>0, <1>2, LockedWindows
  <2>5. QED
    BY <2>1, <2>3, <2>4, NoNewWait
<1>3. CASE TryRestoreSession
  <2>1. /\ \E x : Send(x) \/ UNCHANGED request
        /\ controller' \in {controller, Idle,
                            [controller EXCEPT !.token = saved.token]}
        /\ window' \in {window, ResetWindow}
    BY <1>3 DEF TryRestoreSession
  <2>2. QED
    BY <1>2, <2>1
<1>4. CASE ClickDeactivate
  BY <1>2, <1>4 DEF ClickDeactivate
<1>5. CASE CheckCardExpiry
  BY <1>2, <1>5 DEF CheckCardExpiry, CloseWindow
<1>6. CASE SendChatMessage
  BY <1>2, <1>6 DEF SendChatMessage
<1>7. CASE PerformHeartbeat
  <2> DEFINE x == Sent("heartbeat", controller.token, NoCard)
  <2>1. /\ Send(x) /\ window' = window
        /\ controller' = [controller EXCEPT !.beating = TRUE]
    BY <1>7 DEF PerformHeartbeat
  <2>2. x \in Request /\ x.kind = "heartbeat"
    BY TokensKnown, SentIsRequest DEF Kinds, CardOrNone
  <2> HIDE DEF x
  <2>3. UnderWay("heartbeat")' /\ (UnderWay("activate") => UnderWay("activate")')
    BY <1>1, <2>1, <2>2
  <2>4. controller'.state = controller.state
    BY <1>0, <2>1, ControllerFields
  <2>5. QED
    BY <2>1, <2>3, <2>4, WaitsAre
<1>8. CASE ClickActivate
  <2> DEFINE x == Sent("activate", controller.token, window.input)
  <2>1. CASE controller.state = "Activating"
    <3>1. UNCHANGED <<controller, request>>
      BY <1>8, <2>1 DEF ClickActivate
    <3>2. \A kind : UnderWay(kind)' <=> UnderWay(kind)
      BY <3>1 DEF UnderWay, Free
    <3>3. UnderWay("activate")
      BY <2>1, WaitsAre
    <3>4. QED
      BY <3>1, <3>2, <3>3, WaitsAre
  <2>2. CASE controller.state # "Activating"
    <3>1. Send(x) /\ controller' = [controller EXCEPT !.state = "Activating"]
      BY <1>8, <2>2 DEF ClickActivate
    <3>2. x \in Request /\ x.kind = "activate"
      BY TokensKnown, SentIsRequest DEF Kinds, CardOrNone
    <3> HIDE DEF x
    <3>3. UnderWay("activate")' /\ (UnderWay("heartbeat") => UnderWay("heartbeat")')
      BY <1>1, <3>1, <3>2
    <3>4. controller'.beating = controller.beating
      BY <1>0, <3>1, WaitingControllers
    <3>5. QED
      BY <3>3, <3>4, WaitsAre
  <2>3. QED
    BY <2>1, <2>2
<1>9. CASE Enters
  <2>1. UNCHANGED <<controller, request>> /\ (Locked(window') => Locked(window))
    BY <1>0, <1>9, EntersOnlyText, LockedWindows
  <2>2. \A kind : UnderWay(kind)' <=> UnderWay(kind)
    BY <2>1 DEF UnderWay, Free
  <2>3. QED
    BY <2>1, <2>2, NoNewWait
<1>10. QED
  BY <1>3, <1>4, <1>5, <1>6, <1>7, <1>8, <1>9 DEF Handler

LEMMA WaitsStep ==
  ASSUME IInv, WaitsForRequest, [Next]_vars
  PROVE  WaitsForRequest'
<1>1. CASE Outside
  <2>1. UNCHANGED <<controller, window>>
    BY <1>1, OutsideLeavesClient DEF client
  <2>2. QED
    BY <1>1, <2>1, OutsideKeeps, NoNewWait
<1>2. CASE Handler
  BY <1>2, ContinueWaits, StartWaits
<1>3. CASE Worker \/ UNCHANGED vars
  <2>1. UNCHANGED <<controller, window, request>>
    BY <1>3 DEF Worker, FlushOne, FlushEnd, vars
  <2>2. \A kind : UnderWay(kind)' <=> UnderWay(kind)
    BY <2>1 DEF UnderWay, Free
  <2>3. QED
    BY <2>1, <2>2, NoNewWait
<1>4. CASE Restart
  BY <1>4, WaitsAre DEF Restart, Idle, Locked, ClearWindow
<1>5. QED
  BY <1>1, <1>2, <1>3, <1>4, ActionKinds

\* Whoever waits, the timer of the heartbeat, the controller or the user, waits
\* for a request that is under way, whatever has been lost or answered late.
THEOREM WaitsHold == Spec => []WaitsForRequest
<1>1. Init => WaitsForRequest
  BY DEF Init, WaitsForRequest, Idle, ClearWindow
<1>2. IInv /\ WaitsForRequest /\ [Next]_vars => WaitsForRequest'
  BY WaitsStep
<1>3. QED
  BY <1>1, <1>2, Inductive, PTL DEF Spec
=============================================================================
