--------------------------- MODULE ClientSession ---------------------------
(***************************************************************************)
(* The session of the Windows client (client/src): SessionController, its  *)
(* calls through ApiClient, the part of MainWindow that starts them and    *)
(* acts on their results, what QSettings keeps across restarts, and the    *)
(* seats the server holds for the sessions the client opened.              *)
(*                                                                         *)
(* The window and the controller live in one thread, whose handlers are    *)
(* steps.  A request runs on a pool thread: it is sent in one step, served *)
(* or lost in a second, and its continuation runs in the window's thread   *)
(* in a third.  Continuations run in any order.                            *)
(***************************************************************************)
EXTENDS Naturals, FiniteSets

CONSTANTS
  Cards,            \* cards the user may enter
  Tokens,           \* session tokens
  Slots,            \* bound: requests in flight at once
  Seats,            \* max_sessions of every card
  NoCard,           \* no card
  NoToken,          \* the empty token
  NoRequest         \* an empty slot

ASSUME NamesAssumption ==
  /\ NoCard \notin Cards /\ NoToken \notin Tokens
  /\ Seats \in Nat \ {0}
  /\ IsFiniteSet(Tokens)

VARIABLES
  \* the server
  alive,            \* card of each session the server has a row for, or NoCard
  issued,           \* tokens given out so far
  over,             \* cards whose period has ended
  \* QSettings
  saved,            \* session_token and card_code
  pending,          \* pending_deactivate_tokens
  \* the running program
  restored,         \* the 500 ms timer that calls tryRestoreSession has fired
  controller,       \* the members of SessionController
  window,           \* the members of MainWindow
  request,          \* the requests in flight
  flush,            \* the worker of flushPendingDeactivations
  \* history, read by the properties only
  late,             \* an answer was handled after its session was replaced
  spilled           \* a seat may have been left behind, see SeatsAccounted

server == <<alive, issued, over>>
settings == <<saved, pending>>
history == <<late, spilled>>
vars == <<server, settings, restored, controller, window, request, flush,
          history>>
-----------------------------------------------------------------------------
(* The records.                                                            *)

Token == Tokens \cup {NoToken}
CardOrNone == Cards \cup {NoCard}

SavedSession == [token : Token, card : CardOrNone]
NothingSaved == [token |-> NoToken, card |-> NoCard]

States == {"Inactive", "Activating", "Active", "HeartbeatFailed"}
Controller == [state : States, token : Token, fails : 0..2, beating : BOOLEAN]
Idle == [state |-> "Inactive", token |-> NoToken, fails |-> 0,
         beating |-> FALSE]

\* activated: m_activated.  expiry: m_cardExpiresAt, as the card whose end it
\* is.  button: m_activateBtn and m_cardInput are enabled.  blocked:
\* m_forceUpdateBlocked.  input: the text of m_cardInput; one that is no card
\* at all is a card of Cards in this model, which the server refuses like one
\* whose period has ended.
Window == [activated : BOOLEAN, token : Token, expiry : CardOrNone,
           button : BOOLEAN, blocked : BOOLEAN, input : CardOrNone]
ClearWindow == [activated |-> FALSE, token |-> NoToken, expiry |-> NoCard,
                button |-> TRUE, blocked |-> FALSE, input |-> NoCard]

Kinds == {"activate", "restore", "heartbeat", "chat", "deactivate"}
\* What parseError and the callers tell apart: a 2xx answer, a refusal
\* (Business), a version that is too low, a failure that may pass (Network,
\* 5xx), and for deactivations also a 4xx that is not repeated.  A refusal for
\* want of a valid signature is told from the others by the properties only.
Results == {"none", "ok", "refused", "unauthorized", "outdated", "failed",
            "dropped"}
Refusals == {"refused", "unauthorized"}
\* token: the controller's session when the request was sent.
\* granted: the session an activation opened.
Request == [kind : Kinds, token : Token, card : CardOrNone,
            result : Results, granted : Token]
Sent(kind, token, card) ==
  [kind |-> kind, token |-> token, card |-> card, result |-> "none",
   granted |-> NoToken]

\* read: the lists as read.  todo: still to be sent.  keep: to be written.
Flush == [running : BOOLEAN, read : SUBSET Tokens, todo : SUBSET Tokens,
          keep : SUBSET Tokens]
NoFlush == [running |-> FALSE, read |-> {}, todo |-> {}, keep |-> {}]

ASSUME AbsenceAssumption == NoRequest \notin Request
-----------------------------------------------------------------------------
Init ==
  /\ alive = [t \in Tokens |-> NoCard]
  /\ issued = {}
  /\ over \in SUBSET Cards
  /\ saved = NothingSaved
  /\ pending = {}
  /\ restored = FALSE
  /\ controller = Idle
  /\ window = ClearWindow
  /\ request = [s \in Slots |-> NoRequest]
  /\ flush = NoFlush
  /\ late = FALSE
  /\ spilled = FALSE
-----------------------------------------------------------------------------
(* The server, as far as the client's requests reach it.                   *)

\* The sessions that occupy a seat of card c.
Seated(c) == {t \in Tokens : alive[t] = c}

\* A heartbeat on t would be answered with ok.
Renewable(t) == t # NoToken /\ alive[t] # NoCard /\ alive[t] \notin over

Waiting(s) == request[s] # NoRequest /\ request[s].result = "none"

\* The answer to request s, and what it carries.
Reply(s, result, card, granted) ==
  request' = [request EXCEPT ![s] =
    [kind |-> request[s].kind, token |-> request[s].token, card |-> card,
     result |-> result, granted |-> granted]]

Answer(s, result) == Reply(s, result, request[s].card, request[s].granted)

client == <<settings, restored, controller, window, flush, late>>

ServeActivate(s) ==
  /\ Waiting(s) /\ request[s].kind = "activate"
  /\ LET c == request[s].card IN
       \/ /\ c \notin over /\ Cardinality(Seated(c)) < Seats
          /\ \E t \in Tokens \ issued :
               /\ alive' = [alive EXCEPT ![t] = c]
               /\ issued' = issued \cup {t}
               /\ Reply(s, "ok", c, t)
       \/ /\ c \in over \/ Cardinality(Seated(c)) >= Seats
          /\ Answer(s, "refused")
          /\ UNCHANGED <<alive, issued>>
  /\ UNCHANGED <<over, spilled, client>>

\* Heartbeats, and the heartbeat by which a saved session is restored.  The
\* answer carries the end of the session's card.
ServeHeartbeat(s) ==
  /\ Waiting(s) /\ request[s].kind \in {"heartbeat", "restore"}
  /\ IF Renewable(request[s].token)
       THEN Reply(s, "ok", alive[request[s].token], NoToken)
       ELSE Answer(s, "refused")
  /\ UNCHANGED <<server, spilled, client>>

\* ValidateBound: a message is let in with the card of its session, or none.
Bound(t, card) == Renewable(t) /\ card \in {NoCard, alive[t]}

ServeChat(s) ==
  /\ Waiting(s) /\ request[s].kind = "chat"
  /\ Answer(s, IF Bound(request[s].token, request[s].card)
               THEN "ok" ELSE "refused")
  /\ UNCHANGED <<server, spilled, client>>

\* The server answers ok whether or not it has the session.
ServeDeactivate(s) ==
  /\ Waiting(s) /\ request[s].kind = "deactivate"
  /\ alive' = [alive EXCEPT ![request[s].token] = NoCard]
  /\ Answer(s, "ok")
  /\ UNCHANGED <<issued, over, spilled, client>>

\* ReadSignedRequest or the version check stops the request: the signature is
\* not accepted or the machine is on the blacklist, the version is too low, or
\* a deactivation is answered with a status below 500.
Reject(s) ==
  /\ Waiting(s)
  /\ \/ /\ request[s].kind # "deactivate"
        /\ Answer(s, "unauthorized")
        /\ UNCHANGED spilled
     \/ /\ request[s].kind \in {"activate", "heartbeat", "restore"}
        /\ Answer(s, "outdated")
        /\ UNCHANGED spilled
     \/ /\ request[s].kind = "deactivate"
        /\ Answer(s, "dropped")
        /\ spilled' = TRUE
  /\ UNCHANGED <<server, client>>

\* The request does not arrive, or the server answers with 5xx or another
\* status that counts as a failure.
LoseRequest(s) ==
  /\ Waiting(s)
  /\ Answer(s, "failed")
  /\ UNCHANGED <<server, spilled, client>>

\* The server has done its part and the answer does not arrive.
LoseAnswer(s) ==
  /\ request[s] # NoRequest /\ request[s].result = "ok"
  /\ Reply(s, "failed", request[s].card, NoToken)
  /\ spilled' = (spilled \/ request[s].kind = "activate")
  /\ UNCHANGED <<server, client>>

\* A session ends on the server: its TTL, an administrator, the cleanup.
SessionEnds(t) ==
  /\ alive[t] # NoCard
  /\ alive' = [alive EXCEPT ![t] = NoCard]
  /\ UNCHANGED <<issued, over, request, spilled, client>>

CardEnds(c) ==
  /\ c \notin over
  /\ over' = over \cup {c}
  /\ UNCHANGED <<alive, issued, request, spilled, client>>
-----------------------------------------------------------------------------
(* Handlers of the window's thread: parts they share.                      *)

Free == {s \in Slots : request[s] = NoRequest}
FirstFree == CHOOSE s \in Slots : request[s] = NoRequest

\* A new request takes the first free slot.
Send(r) == /\ Free # {}
           /\ request' = [request EXCEPT ![FirstFree] = r]

\* deactivateSpecificSessionOnServer does nothing without a token.
Deactivation(token) == IF token = NoToken THEN NoRequest
                       ELSE Sent("deactivate", token, NoCard)

\* SessionController::resetToInactive returns at once when inactive.
ResetController == IF controller.state = "Inactive" THEN controller ELSE Idle
ResetSaved == IF controller.state = "Inactive" THEN saved ELSE NothingSaved

\* Mutant of ClosedWindow: the button stays as onActivated has left it.
ClosedWindowUnusable ==
  [window EXCEPT !.activated = FALSE, !.token = NoToken, !.expiry = NoCard,
                 !.input = NoCard]

\* MainWindow::resetToInactiveState; it ends with setUiLocked(true).
ClosedWindow ==
  [window EXCEPT !.activated = FALSE, !.token = NoToken, !.expiry = NoCard,
                 !.button = TRUE, !.input = NoCard]

\* Mutant of ResetWindow: nothing is connected to onSessionExpired.
ResetWindowUnheard == window

\* resetToInactive emits onSessionExpired unless it has returned at once.
ResetWindow == IF controller.state = "Inactive" THEN window ELSE ClosedWindow

\* onActivated: setUiLocked(false) disables the button.
OpenedWindow(token, card) ==
  [window EXCEPT !.activated = TRUE, !.token = token, !.expiry = card,
                 !.button = FALSE]

\* deactivateSessionOnServer and resetToInactive, in the continuation of s.
EndSession(s) ==
  /\ request' = [request EXCEPT ![s] = Deactivation(controller.token)]
  /\ controller' = ResetController
  /\ saved' = ResetSaved
  /\ window' = ResetWindow
  /\ UNCHANGED <<pending, spilled>>

\* resetToInactiveState with notifyServer, of the window's own token.
CloseWindow ==
  /\ controller' = ResetController
  /\ saved' = ResetSaved
  /\ window' = ClosedWindow
  /\ UNCHANGED <<pending, spilled>>
-----------------------------------------------------------------------------
(* Timers and the user.                                                    *)

\* flushPendingDeactivations, then the saved session: given up if its card
\* has ended, else tried by a heartbeat.  The state stays Inactive meanwhile.
TryRestoreSession ==
  /\ ~restored
  /\ restored' = TRUE
  /\ flush' = IF pending = {} THEN NoFlush
              ELSE [running |-> TRUE, read |-> pending, todo |-> pending,
                    keep |-> {}]
  /\ \/ /\ saved.token = NoToken
        /\ UNCHANGED <<controller, saved, window, request>>
     \/ /\ saved.token # NoToken /\ saved.card \in over
        /\ Send(Deactivation(saved.token))
        /\ controller' = IF controller.state = "Inactive"
                         THEN [controller EXCEPT !.token = saved.token]
                         ELSE Idle
        /\ saved' = ResetSaved
        /\ window' = ResetWindow
     \/ /\ saved.token # NoToken /\ saved.card \notin over
        /\ Send(Sent("restore", saved.token, saved.card))
        /\ controller' = [controller EXCEPT !.token = saved.token]
        /\ UNCHANGED <<saved, window>>
  /\ UNCHANGED <<server, pending, history>>

\* The user edits the text of the input.
EnterCard(card) ==
  /\ window.button
  /\ window' = [window EXCEPT !.input = card]
  /\ UNCHANGED <<server, settings, restored, controller, request, flush,
                 history>>

\* The 2 s timer fills a card from the clipboard into an empty input.
FillFromClipboard(c) ==
  /\ ~window.activated /\ window.input = NoCard
  /\ window' = [window EXCEPT !.input = c]
  /\ UNCHANGED <<server, settings, restored, controller, request, flush,
                 history>>

\* onActivate with the window not activated.  activate() returns at once when
\* an activation runs already.
ClickActivate ==
  /\ window.button /\ ~window.activated /\ window.input # NoCard
  /\ window' = [window EXCEPT !.button = FALSE]
  /\ IF controller.state = "Activating"
       THEN UNCHANGED <<controller, request>>
       ELSE /\ Send(Sent("activate", controller.token, window.input))
            /\ controller' = [controller EXCEPT !.state = "Activating"]
  /\ UNCHANGED <<server, settings, restored, flush, history>>

\* onActivate with the window activated, confirmed.
ClickDeactivate ==
  /\ window.button /\ window.activated
  /\ Send(Deactivation(window.token))
  /\ controller' = ResetController
  /\ saved' = ResetSaved
  /\ window' = [ClosedWindow EXCEPT !.blocked = FALSE]
  /\ UNCHANGED <<server, pending, restored, flush, history>>

\* The 55 s timer and performHeartbeat.
PerformHeartbeat ==
  /\ window.activated /\ window.token # NoToken
  /\ controller.state = "Active" /\ controller.token # NoToken
  /\ ~controller.beating
  /\ Send(Sent("heartbeat", controller.token, NoCard))
  /\ controller' = [controller EXCEPT !.beating = TRUE]
  /\ UNCHANGED <<server, settings, restored, window, flush, history>>

\* checkCardExpiry, the 30 s timer.
CheckCardExpiry ==
  /\ window.activated /\ window.expiry \in over
  /\ Send(Deactivation(window.token))
  /\ CloseWindow
  /\ UNCHANGED <<server, restored, flush, late>>

\* buildChatAuthRequest: the session and what the input shows.
SendChatMessage ==
  /\ window.activated /\ window.token # NoToken
  /\ Send(Sent("chat", window.token, window.input))
  /\ UNCHANGED <<server, settings, restored, controller, window, flush,
                 history>>
-----------------------------------------------------------------------------
(* Continuations of requests.                                              *)

Answered(s, kind) == /\ request[s] # NoRequest
                     /\ request[s].kind = kind
                     /\ request[s].result # "none"

\* The states in which the answer to a request of the kind is expected.
Expects(kind) == CASE kind = "activate" -> {"Activating", "HeartbeatFailed"}
                   [] kind = "restore" -> {"Inactive"}
                   [] OTHER -> {"Active"}

\* History: the controller has moved on since the request was sent.
Observe(s) ==
  late' = (late \/ request[s].token # controller.token
                \/ controller.state \notin Expects(request[s].kind))

Done(s) == request' = [request EXCEPT ![s] = NoRequest]

ActivateDone(s) ==
  /\ Answered(s, "activate")
  /\ Observe(s)
  /\ LET r == request[s] IN
       \/ /\ r.result = "ok"
          /\ controller' = [controller EXCEPT !.token = r.granted,
                                              !.state = "Active"]
          /\ saved' = [token |-> r.granted, card |-> r.card]
          /\ window' = OpenedWindow(r.granted, r.card)
          /\ spilled' = (spilled \/ \E t \in {controller.token, saved.token} :
                                      t # NoToken /\ alive[t] # NoCard)
       \/ /\ r.result # "ok"
          /\ controller' = [controller EXCEPT !.state = "Inactive"]
          /\ window' = IF r.result = "outdated"
                       THEN [window EXCEPT !.blocked = TRUE]
                       ELSE [window EXCEPT !.button = TRUE]
          /\ UNCHANGED <<saved, spilled>>
  /\ Done(s)
  /\ UNCHANGED <<server, pending, restored, flush>>

RestoreDone(s) ==
  /\ Answered(s, "restore")
  /\ Observe(s)
  /\ LET r == request[s] IN
       \/ /\ r.result = "ok" /\ r.card \notin over
          /\ controller' = [controller EXCEPT !.state = "Active"]
          /\ window' = OpenedWindow(controller.token, r.card)
          /\ Done(s)
          /\ UNCHANGED <<settings, spilled>>
       \/ /\ r.result # "ok" \/ r.card \in over
          /\ EndSession(s)
  /\ UNCHANGED <<server, restored, flush>>

\* After the third failure in a row: the window reacts first, then the
\* controller sets its own state, unless the window gave the session up, which
\* zeroes the count of failures.  It does so if the saved card has ended or
\* there is none.
Reconnect(s) ==
  IF saved.card \in Cards \ over
    THEN /\ request' = [request EXCEPT ![s] =
                          Sent("activate", controller.token, saved.card)]
         /\ window' = [window EXCEPT !.activated = FALSE, !.token = NoToken,
                                     !.expiry = NoCard, !.button = FALSE,
                                     !.input = saved.card]
         /\ controller' = [controller EXCEPT !.state = "HeartbeatFailed",
                                             !.fails = 0, !.beating = FALSE]
         /\ UNCHANGED <<settings, spilled>>
    ELSE /\ request' = [request EXCEPT ![s] = Deactivation(window.token)]
         /\ window' = ClosedWindow
         /\ controller' = Idle
         /\ saved' = NothingSaved
         /\ UNCHANGED <<pending, spilled>>

\* Mutant of CountFailure: m_heartbeatInProgress is not cleared.
CountFailureBeating(s) ==
  /\ controller' = [controller EXCEPT !.fails = @ + 1]
  /\ Done(s)
  /\ UNCHANGED <<settings, window, spilled>>

CountFailure(s) ==
  /\ controller' = [controller EXCEPT !.fails = @ + 1, !.beating = FALSE]
  /\ Done(s)
  /\ UNCHANGED <<settings, window, spilled>>

\* Mutant of HeartbeatFails: the first failure ends the session.
HeartbeatFailsOnce(s) == Reconnect(s)

\* Mutant of HeartbeatFails: one failure too many is let pass.
HeartbeatFailsFourTimes(s) ==
  IF controller.fails < 3 THEN CountFailure(s) ELSE Reconnect(s)

HeartbeatFails(s) ==
  IF controller.fails < 2 THEN CountFailure(s) ELSE Reconnect(s)

HeartbeatDone(s) ==
  /\ Answered(s, "heartbeat")
  /\ late' = (late \/ request[s].token # controller.token)
  /\ LET r == request[s] IN
       \/ /\ controller.state # "Active"
          /\ controller' = [controller EXCEPT !.beating = FALSE]
          /\ Done(s)
          /\ UNCHANGED <<settings, window, spilled>>
       \/ /\ controller.state = "Active"
          /\ r.result = "ok" /\ r.card \notin over
          /\ controller' = [controller EXCEPT !.fails = 0, !.beating = FALSE]
          /\ window' = [window EXCEPT !.expiry = r.card]
          /\ Done(s)
          /\ UNCHANGED <<settings, spilled>>
       \/ /\ controller.state = "Active"
          /\ r.result = "outdated"
          /\ controller' = [controller EXCEPT !.beating = FALSE]
          /\ window' = [window EXCEPT !.blocked = TRUE]
          /\ Done(s)
          /\ UNCHANGED <<settings, spilled>>
       \/ /\ controller.state = "Active"
          /\ r.result \in Refusals \/ (r.result = "ok" /\ r.card \in over)
          /\ EndSession(s)
       \/ /\ controller.state = "Active"
          /\ r.result = "failed"
          /\ HeartbeatFails(s)
  /\ UNCHANGED <<server, restored, flush>>

\* The answer of 401 closes the window and deactivates its token.
ChatDone(s) ==
  /\ Answered(s, "chat")
  /\ IF request[s].result \in Refusals
       THEN /\ request' = [request EXCEPT ![s] = Deactivation(window.token)]
            /\ CloseWindow
            /\ Observe(s)
       ELSE /\ Done(s)
            /\ UNCHANGED <<settings, controller, window, history>>
  /\ UNCHANGED <<server, restored, flush>>

\* Mutant of DeactivateDone: a failed deactivation is not repeated.
DeactivateDoneUnqueued(s) ==
  /\ Answered(s, "deactivate")
  /\ Done(s)
  /\ UNCHANGED <<server, settings, restored, controller, window, flush, history>>

\* Only what may pass is queued for the next start.
DeactivateDone(s) ==
  /\ Answered(s, "deactivate")
  /\ pending' = IF request[s].result = "failed"
                THEN pending \cup {request[s].token} ELSE pending
  /\ Done(s)
  /\ UNCHANGED <<server, saved, restored, controller, window, flush, history>>
-----------------------------------------------------------------------------
(* The worker of flushPendingDeactivations.                                *)

\* One deactivation: with or without effect, repeated at the next start or not.
FlushOne(t) ==
  /\ t \in flush.todo
  /\ \/ /\ alive' = [alive EXCEPT ![t] = NoCard]
        /\ flush' = [flush EXCEPT !.todo = @ \ {t}]
        /\ UNCHANGED spilled
     \/ /\ flush' = [flush EXCEPT !.todo = @ \ {t}, !.keep = @ \cup {t}]
        /\ UNCHANGED <<alive, spilled>>
     \/ /\ flush' = [flush EXCEPT !.todo = @ \ {t}]
        /\ spilled' = TRUE
        /\ UNCHANGED alive
  /\ UNCHANGED <<issued, over, settings, restored, controller, window,
                 request, late>>

\* The lists are overwritten with what the worker kept of what it had read.
FlushEnd ==
  /\ flush.running /\ flush.todo = {}
  /\ pending' = flush.keep
  /\ spilled' = (spilled \/ pending # flush.read)
  /\ flush' = NoFlush
  /\ UNCHANGED <<server, saved, restored, controller, window, request, late>>
-----------------------------------------------------------------------------
\* The program ends, at any time, and starts again.  What runs on the pool
\* threads ends with it; QSettings and the server remain.
Restart ==
  /\ restored' = FALSE
  /\ controller' = Idle
  /\ window' = ClearWindow
  /\ request' = [s \in Slots |-> NoRequest]
  /\ flush' = NoFlush
  /\ spilled' = (spilled \/ \E s \in Slots : request[s] # NoRequest)
  /\ UNCHANGED <<server, settings, late>>

Serve(s) ==
  \/ ServeActivate(s) \/ ServeHeartbeat(s) \/ ServeChat(s)
  \/ ServeDeactivate(s) \/ Reject(s) \/ LoseRequest(s)

Continue(s) ==
  \/ ActivateDone(s) \/ RestoreDone(s) \/ HeartbeatDone(s) \/ ChatDone(s)
  \/ DeactivateDone(s)

Next ==
  \/ \E s \in Slots : Serve(s) \/ LoseAnswer(s) \/ Continue(s)
  \/ \E t \in Tokens : SessionEnds(t) \/ FlushOne(t)
  \/ \E c \in Cards : CardEnds(c) \/ FillFromClipboard(c)
  \/ \E card \in CardOrNone : EnterCard(card)
  \/ TryRestoreSession \/ ClickActivate \/ ClickDeactivate \/ PerformHeartbeat
  \/ CheckCardExpiry \/ SendChatMessage \/ FlushEnd \/ Restart

Spec == Init /\ [][Next]_vars

\* Every request ends, be it by its timeout; its continuation runs; and the
\* heartbeat timer fires again and again.  Strong fairness of the latter
\* offsets the bound on Slots, which other requests may use up meanwhile.
FairSpec ==
  /\ Spec
  /\ \A s \in Slots : WF_vars(Serve(s)) /\ WF_vars(Continue(s))
  /\ SF_vars(PerformHeartbeat)
-----------------------------------------------------------------------------
(* What must hold.                                                         *)

\* Every variable has its type.
TypeOK ==
  /\ alive \in [Tokens -> CardOrNone]
  /\ issued \subseteq Tokens
  /\ over \subseteq Cards
  /\ saved \in SavedSession
  /\ pending \subseteq Tokens
  /\ restored \in BOOLEAN
  /\ controller \in Controller
  /\ window \in Window
  /\ request \in [Slots -> Request \cup {NoRequest}]
  /\ flush \in Flush
  /\ late \in BOOLEAN
  /\ spilled \in BOOLEAN

\* A window that offers the session's functions belongs to a controller that
\* keeps that very session alive.  The two copies of the state are changed by
\* different handlers and may disagree once a late answer has been handled.
WindowFollowsController ==
  window.activated /\ ~late
    => controller.state = "Active" /\ controller.token = window.token

UnderWay(kind) == \E s \in Slots \ Free : request[s].kind = kind

\* Whoever waits, waits for a request that is under way: m_heartbeatInProgress,
\* which keeps heartbeats from being sent, the state Activating, which keeps
\* activate() from starting, and the disabled button of a window that is not
\* usable.  Continuations that find the state changed by others, late answers
\* among them, must not leave any of them behind, or only a restart would help;
\* the button of a program that is too old alone is left so (blocked).
WaitsForRequest ==
  /\ controller.beating => UnderWay("heartbeat")
  /\ controller.state = "Activating" => UnderWay("activate")
  /\ ~window.activated /\ ~window.button /\ ~window.blocked
       => UnderWay("activate")

\* The sessions the client can still deactivate or restore.
Accounted ==
  {controller.token, saved.token} \cup pending \cup flush.todo \cup flush.keep
    \cup {request[s].granted : s \in Slots \ Free}
    \cup {request[s].token : s \in {r \in Slots \ Free :
                                      request[r].kind = "deactivate"}}

\* The client forgets no session that occupies a seat, whatever fails, is
\* retried or restarted, but in these cases (spilled, late): the answer to an
\* activation is lost; a deactivation is answered with a status between 400
\* and 499; the program ends during a request; an activation replaces the
\* controller's or the saved session while that has a seat; a deactivation is
\* queued while the queue is flushed; or a late answer is handled.
SeatsAccounted ==
  ~late /\ ~spilled
    => \A t \in Tokens : alive[t] # NoCard => t \in Accounted

\* The window handles the answer to a request that was not let in.
TurnedAway ==
  \E s \in Slots \ Free : request[s].result = "unauthorized" /\ Continue(s)

\* The window handles the refusal of a chat message that named another card
\* than the session's: the input keeps what was entered or filled in while the
\* saved session was being restored.
OtherCardNamed ==
  \E s \in Slots \ Free :
    /\ request[s].kind = "chat" /\ request[s].result = "refused"
    /\ request[s].card \notin {NoCard, alive[request[s].token]}
    /\ ChatDone(s)

\* A session the server would renew is given up only on the user's word, when
\* the program ends, on the third failure in a row, when the server turned the
\* request itself away, or when a chat message named another card, unless a
\* late answer has been handled.
GivenUpForCause ==
  [][controller.state = "Active" /\ controller'.state # "Active"
       /\ Renewable(controller.token) /\ ~late'
     => \/ ClickDeactivate
        \/ Restart
        \/ controller.fails = 2
        \/ TurnedAway
        \/ OtherCardNamed]_vars

\* A window does not stay usable on a session that the server would no longer
\* renew, although requests and answers are lost, unless a late answer has
\* been handled.  A program that the server finds too old (blocked) is left out:
\* it shows the session on, with the functions that need an update disabled.
DeadSessionNoticed ==
  \A t \in Tokens :
    window.activated /\ window.token = t /\ ~Renewable(t)
      ~> \/ ~window.activated \/ window.token # t
         \/ window.blocked \/ late
-----------------------------------------------------------------------------
(* What the design of the controller says, and the code does not do.       *)

\* "On failure, controller clears saved session and emits onSessionExpired."
FailedRestoreClears ==
  [][\A s \in Slots :
       RestoreDone(s) /\ request[s].result # "ok" => saved' = NothingSaved]_vars
=============================================================================
