---------------------------- MODULE SocketEvents ----------------------------
(***************************************************************************)
(* DomainSocketNotifier and DomainSocketObserver: notifications over       *)
(* AF_UNIX stream sockets.  A notifier object has three threads: its       *)
(* owner's (main), one that accepts connections (subT) and one that reads  *)
(* requests (reqT).  A connection carries requests up and cells down: a    *)
(* response is one cell, a notification NotificationSize of them, and a    *)
(* read takes as many as it asks for or as there are.                      *)
(* Nothing ever sets _subscription_paused, so the branches for TRUE have   *)
(* no counterpart here.  Connections are numbered in the order they are    *)
(* made; a second subscribe() leaves the old one open.                     *)
(***************************************************************************)
EXTENDS Integers, Sequences, FiniteSets

CONSTANTS
  Observers,
  NotificationSize,  \* cells of a notification
  ErrorSize,         \* cells of a SubscriptionError
  Capacity,          \* cells a socket buffer holds
  MaxConns,          \* bound: connections made
  MaxNotifications,  \* bound: notifications sent
  MaxRequests,       \* bound: requests that observers send
  MaxCalls,          \* bound: reject, shutdown and move calls
  None

ASSUME SizesAssumption ==
  /\ NotificationSize \in Nat \ {0} /\ ErrorSize \in Nat \ {0} /\ Capacity \in Nat
  /\ MaxConns \in Nat /\ MaxNotifications \in Nat /\ MaxRequests \in Nat /\ MaxCalls \in Nat
ASSUME NoneAssumption == None \notin Observers /\ None \notin Nat

Conns == 1 .. MaxConns
Fds == 1 .. MaxConns
Requests == {"cancel", "pause", "resume"}

VARIABLES
  up, down,    \* what is under way on a connection
  peer,        \* the observer that has its end open, or None
  server,      \* the notifier's end: unused, backlog, open or closed
  fds,         \* descriptors of the notifier's process
  observers, paused,            \* _observer_sockets, _paused_observer_sockets
  subscriptions, cancellations, \* _subscription_enabled, _cancellation_enabled
  subT, reqT, main,             \* the notifier's threads
  obs,         \* the observer objects
  requests,    \* requests sent so far
  overtaken,   \* history: connections whose response came after a notification
  garbled,     \* history: connections where a read for a reply took a notification
  lost,        \* history: descriptors that a move of the notifier forgot
  crashed      \* history: has an observer's process crashed?

conns == <<up, down, peer, server, fds>>
notifier == <<observers, paused, subscriptions, cancellations, subT, reqT, main>>
history == <<overtaken, garbled, lost, crashed>>
vars == <<conns, notifier, obs, requests, history>>

OK == [n |-> 0, part |-> 0]
Cells(n) == [i \in 1 .. NotificationSize |-> [n |-> n, part |-> i]]
Least(S) == CHOOSE x \in S : \A y \in S : x <= y

\* An observer object without a socket.
Closed == [pc |-> "idle", sock |-> None, subscribed |-> FALSE, timed |-> FALSE, last |-> 0]

Init ==
  /\ up = [c \in Conns |-> <<>>] /\ down = [c \in Conns |-> <<>>]
  /\ peer = [c \in Conns |-> None] /\ server = [c \in Conns |-> "unused"]
  /\ fds = [f \in Fds |-> None]
  /\ observers = {} /\ paused = {}
  /\ subscriptions = FALSE /\ cancellations = FALSE
  /\ subT = [pc |-> "off", fd |-> None]
  /\ reqT = "off"
  /\ main = [pc |-> "idle", todo |-> {}, n |-> 0, calls |-> 0]
  /\ obs = [o \in Observers |-> Closed] /\ requests = 0
  /\ overtaken = {} /\ garbled = {} /\ lost = {} /\ crashed = FALSE

Listening == main.pc \notin {"shutdown", "gone", "killed"}

\* The write lock of _observer_sockets is held throughout a notification.
Unlocked == main.pc # "notify"

-----------------------------------------------------------------------------
(* The observer                                                            *)

To(o, next) == obs' = [obs EXCEPT ![o].pc = next]

\* The observer's ends of the connections in C are closed, with what is
\* unread there.
CloseEnds(C) ==
  /\ peer' = [c \in Conns |-> IF c \in C THEN None ELSE peer[c]]
  /\ down' = [c \in Conns |-> IF c \in C THEN <<>> ELSE down[c]]

\* The process of the observer ends, with all its descriptors; another one
\* may take its place.
EndProcess(o) ==
  /\ obs' = [obs EXCEPT ![o] = Closed]
  /\ CloseEnds({c \in Conns : peer[c] = o})

Crash(o) ==
  /\ obs[o] # Closed /\ ~crashed /\ EndProcess(o) /\ crashed' = TRUE
  /\ UNCHANGED <<up, server, fds, notifier, overtaken, garbled, lost, requests>>

\* subscribe up to its recv: _m_setup_socket makes a new connection, or fails
\* if nobody listens.
Subscribe(o) ==
  LET fresh == {c \in Conns : server[c] = "unused"}
      c == Least(fresh)
  IN  /\ obs[o].pc = "idle" /\ fresh # {}
      /\ IF Listening
           THEN /\ peer' = [peer EXCEPT ![c] = o] /\ server' = [server EXCEPT ![c] = "backlog"]
                /\ obs' = [obs EXCEPT ![o] = [@ EXCEPT !.pc = "response", !.sock = c,
                                                       !.timed = FALSE, !.last = 0]]
           ELSE /\ obs' = [obs EXCEPT ![o].sock = None]
                /\ UNCHANGED <<peer, server>>
      /\ UNCHANGED <<up, down, fds, notifier, history, requests>>

\* A read of up to k cells from connection c, once there are any.
Take(c, k) ==
  /\ down[c] # <<>>
  /\ down' = [down EXCEPT ![c] = SubSeq(@, k + 1, Len(@))]

EndOfStream(c) == down[c] = <<>> /\ server[c] = "closed"

\* Mutant: subscribe does not wait for the response.
ResponseNotRead(o) ==
  /\ obs[o].pc = "response"
  /\ obs' = [obs EXCEPT ![o].pc = "idle", ![o].subscribed = TRUE]
  /\ UNCHANGED <<conns, notifier, history, requests>>

\* subscribe, its recv: any byte is taken for the response.  At the end of
\* the stream response is read uninitialized.
Response(o) ==
  LET c == obs[o].sock
      told == {TRUE} \cup IF EndOfStream(c) \/ Head(down[c]) # OK THEN {FALSE} ELSE {}
  IN  /\ obs[o].pc = "response"
      /\ \/ Take(c, 1) \/ (EndOfStream(c) /\ UNCHANGED down)
      /\ \E yes \in told :
           obs' = [obs EXCEPT ![o].pc = "idle", ![o].subscribed = yes \/ @]
      /\ garbled' = garbled \cup IF down[c] # <<>> /\ Head(down[c]) # OK THEN {c} ELSE {}
      /\ UNCHANGED <<up, peer, server, fds, notifier, overtaken, lost, crashed, requests>>

\* send() of a request, without MSG_NOSIGNAL: SIGPIPE ends a process that
\* writes to a connection which the notifier has closed.
Send(o, r, next) ==
  LET c == obs[o].sock
  IN  /\ IF server[c] = "closed"
           THEN EndProcess(o) /\ UNCHANGED <<up, requests>>
           ELSE /\ requests < MaxRequests /\ requests' = requests + 1
                /\ up' = [up EXCEPT ![c] = Append(@, r)]
                /\ To(o, next) /\ UNCHANGED <<peer, down>>
      /\ UNCHANGED <<server, fds, notifier, history>>

Connected(o) == obs[o].pc = "idle" /\ obs[o].subscribed /\ obs[o].sock # None

\* pause_subscription and resume_subscription.
PauseOrResume(o) ==
  Connected(o) /\ \E r \in {"pause", "resume"} : Send(o, r, "idle")

\* cancel_subscription up to its recv, and the destructor, which calls it.
Cancel(o, next) == Connected(o) /\ Send(o, "cancel", next)

\* shutdown and close of the socket; after the destructor there is no
\* object, and another one may take its place.
CloseSocket(o) ==
  /\ obs' = [obs EXCEPT ![o] = IF @.pc = "cancel" THEN [@ EXCEPT !.pc = "idle", !.sock = None]
                               ELSE Closed]
  /\ CloseEnds({obs[o].sock})

\* ~DomainSocketObserver.
Destroy(o) ==
  \/ Cancel(o, "destroy")
  \/ /\ obs[o].pc = "idle" /\ obs[o] # Closed /\ ~Connected(o) /\ CloseSocket(o)
     /\ UNCHANGED <<up, server, fds, notifier, history, requests>>

Cancelling(o) == obs[o].pc \in {"cancel", "destroy"}

\* cancel_subscription, its recv: the notifier answers by closing, which is
\* the error UNKNOWN; pending notifications are taken for the answer, whose
\* bytes may say NO_ERROR.  A timeout that an earlier receive() left on the
\* socket ends the wait.  Only NO_ERROR, and the destructor, close the socket.
CancelReply(o) ==
  LET c == obs[o].sock
  IN  /\ Cancelling(o)
      /\ \/ down[c] # <<>> /\ garbled' = garbled \cup {c}
         \/ EndOfStream(c) /\ UNCHANGED garbled
         \/ obs[o].timed /\ down[c] = <<>> /\ UNCHANGED garbled
      /\ \/ (obs[o].pc = "destroy" \/ down[c] # <<>>) /\ CloseSocket(o)
         \/ /\ obs[o].pc = "cancel" /\ To(o, "idle")
            /\ down' = [down EXCEPT ![c] = SubSeq(@, ErrorSize + 1, Len(@))] /\ UNCHANGED peer
      /\ UNCHANGED <<up, server, fds, notifier, overtaken, lost, crashed, requests>>

\* receive: a notification for the callback, or a timeout, after which the
\* socket keeps that timeout.
Receive(o) ==
  LET c == obs[o].sock
  IN  /\ Connected(o)
      /\ \/ /\ Take(c, NotificationSize)
            /\ obs' = [obs EXCEPT ![o].last = Head(down[c]).n]
         \/ /\ down[c] = <<>> /\ ~EndOfStream(c)
            /\ obs' = [obs EXCEPT ![o].timed = TRUE]
            /\ UNCHANGED down
      /\ UNCHANGED <<up, peer, server, fds, notifier, history, requests>>

Calls(o) == Response(o) \/ CancelReply(o)

-----------------------------------------------------------------------------
(* The notifier: accepting connections, reading requests                   *)

\* close() of descriptors.
Close(F) ==
  /\ server' = [c \in Conns |-> IF \E f \in F : fds[f] = c THEN "closed" ELSE server[c]]
  /\ fds' = [f \in Fds |-> IF f \in F THEN None ELSE fds[f]]

\* process_subscriptions: accept returns the lowest free descriptor.  The
\* flag has been looked at before, and may have been cleared meanwhile.
SubAccept ==
  LET waiting == {c \in Conns : server[c] = "backlog"}
      f == Least({g \in Fds : fds[g] = None})
  IN  /\ subT.pc = "accept" /\ waiting # {}
      /\ server' = [server EXCEPT ![Least(waiting)] = "open"]
      /\ fds' = [fds EXCEPT ![f] = Least(waiting)]
      /\ subT' = [pc |-> "insert", fd |-> f]
      /\ UNCHANGED <<up, down, peer, observers, paused, subscriptions, cancellations,
                     reqT, main, obs, requests, history>>

SubInsert ==
  /\ subT.pc = "insert" /\ Unlocked
  /\ observers' = observers \cup {subT.fd} /\ subT' = [subT EXCEPT !.pc = "respond"]
  /\ UNCHANGED <<conns, paused, subscriptions, cancellations, reqT, main, obs, requests, history>>

\* The response, sent without MSG_NOSIGNAL: if the observer has gone, SIGPIPE
\* ends the notifier's process and the kernel closes its descriptors.
SubRespond ==
  LET c == fds[subT.fd]
  IN  /\ subT.pc = "respond"
      /\ IF c # None /\ peer[c] = None
           THEN /\ main' = [main EXCEPT !.pc = "killed"]
                /\ subT' = [pc |-> "off", fd |-> None] /\ reqT' = "off"
                /\ server' = [d \in Conns |-> IF server[d] = "unused" THEN server[d] ELSE "closed"]
                /\ fds' = [f \in Fds |-> None] /\ observers' = {} /\ paused' = {}
                /\ lost' = {} /\ UNCHANGED down
           ELSE /\ c # None => Len(down[c]) < Capacity
                /\ down' = IF c = None THEN down ELSE [down EXCEPT ![c] = Append(@, OK)]
                /\ subT' = [pc |-> IF subscriptions THEN "accept" ELSE "off", fd |-> None]
                /\ UNCHANGED <<main, reqT, server, fds, observers, paused, lost>>
      /\ UNCHANGED <<up, peer, subscriptions, cancellations, obs, requests, overtaken, garbled, crashed>>

\* accept has timed out.
SubEnd ==
  /\ subT.pc = "accept" /\ ~subscriptions /\ subT' = [subT EXCEPT !.pc = "off"]
  /\ UNCHANGED <<conns, observers, paused, subscriptions, cancellations, reqT, main,
                 obs, requests, history>>

ReqEnd ==
  /\ reqT = "on" /\ ~cancellations /\ reqT' = "off"
  /\ UNCHANGED <<conns, observers, paused, subscriptions, cancellations, subT, main,
                 obs, requests, history>>

\* Mutant: a cancelled observer's descriptor is closed and stays in the set.
ForgetOnly(set, f) == set' = set /\ Close({f})

\* The descriptor leaves its set and is closed.
Forget(set, f) == set' = set \ {f} /\ Close({f})

\* Mutant: an observer that pauses is taken out and kept nowhere.
PauseForgotten(f) ==
  observers' = observers \ {f} /\ UNCHANGED paused

Pause(f) == observers' = observers \ {f} /\ paused' = paused \cup {f}
Resume(f) == observers' = observers \cup {f} /\ paused' = paused \ {f}

\* process_observer_requests, one recv.  The thread goes over the observers
\* under their lock and then over the paused ones, again and again; as only
\* notifications and insertions use the lock besides, a pass is its recvs one
\* by one, each while nobody notifies.
ReqRecv(f) ==
  LET c == fds[f]
      r == Head(up[c])
      leave == IF f \in observers THEN Forget(observers, f) /\ UNCHANGED paused
                                  ELSE Forget(paused, f) /\ UNCHANGED observers
      stay == UNCHANGED <<observers, paused, server, fds>>
  IN  /\ reqT = "on" /\ f \in observers \cup paused /\ (f \in observers => Unlocked)
      /\ \/ /\ up[c] # <<>> /\ up' = [up EXCEPT ![c] = Tail(@)]
            /\ CASE r = "cancel" -> leave
                 [] r = "pause" /\ f \in observers -> Pause(f) /\ UNCHANGED <<server, fds>>
                 [] r = "resume" /\ f \in paused -> Unlocked /\ Resume(f) /\ UNCHANGED <<server, fds>>
                 [] OTHER -> stay
         \/ up[c] = <<>> /\ peer[c] = None /\ leave /\ UNCHANGED up
      /\ UNCHANGED <<down, peer, subscriptions, cancellations, subT, reqT, main, obs, requests, history>>

-----------------------------------------------------------------------------
(* The notifier: the owner's thread                                        *)

\* notify_observers takes the lock; num_observers only reads.
Notify ==
  /\ main.pc = "idle" /\ main.n < MaxNotifications /\ Unlocked
  /\ main' = [main EXCEPT !.pc = "notify", !.todo = observers, !.n = @ + 1]
  /\ UNCHANGED <<conns, observers, paused, subscriptions, cancellations, subT, reqT,
                 obs, requests, history>>

\* Mutant: the notification, too, is sent without MSG_NOSIGNAL.
NotifySignals ==
  LET f == Least(main.todo)
      c == fds[f]
  IN  /\ main.pc = "notify" /\ main.todo # {}
      /\ IF peer[c] = None
           THEN main' = [main EXCEPT !.pc = "killed"] /\ UNCHANGED <<down, overtaken>>
           ELSE /\ Len(down[c]) + NotificationSize <= Capacity
                /\ down' = [down EXCEPT ![c] = @ \o Cells(main.n)]
                /\ main' = [main EXCEPT !.todo = @ \ {f}] /\ UNCHANGED overtaken
      /\ UNCHANGED <<up, peer, server, fds, observers, paused, subscriptions,
                     cancellations, subT, reqT, obs, requests, garbled, lost, crashed>>

\* One send of notify_observers; it blocks, with the lock, on a full buffer.
NotifySend ==
  LET f == Least(main.todo)
      c == fds[f]
  IN  /\ main.pc = "notify" /\ main.todo # {}
      /\ main' = [main EXCEPT !.todo = @ \ {f}]
      /\ IF peer[c] = None
           THEN Forget(observers, f) /\ UNCHANGED <<down, overtaken>>
           ELSE /\ Len(down[c]) + NotificationSize <= Capacity
                /\ down' = [down EXCEPT ![c] = @ \o Cells(main.n)]
                /\ overtaken' = overtaken \cup IF subT = [pc |-> "respond", fd |-> f]
                                                 THEN {c} ELSE {}
                /\ UNCHANGED <<observers, server, fds>>
      /\ UNCHANGED <<up, peer, paused, subscriptions, cancellations, subT, reqT, obs,
                     requests, garbled, lost, crashed>>

Owner == main.pc = "idle" /\ main.calls < MaxCalls
StartSub == subscriptions' = TRUE /\ subT' = [pc |-> "accept", fd |-> None]
StartReq == cancellations' = TRUE /\ reqT' = "on"

\* accept_subscriptions.
AcceptSubscriptions ==
  /\ main.pc = "idle" /\ ~subscriptions /\ StartSub
  /\ IF cancellations THEN UNCHANGED <<cancellations, reqT>> ELSE StartReq
  /\ UNCHANGED <<conns, observers, paused, main, obs, requests, history>>

\* reject_subscriptions stops one thread, and the other one if there are no
\* observers; it does not look at the paused ones.
RejectSubscriptions ==
  /\ Owner /\ subscriptions
  /\ subscriptions' = FALSE /\ main' = [main EXCEPT !.pc = "reject", !.calls = @ + 1]
  /\ UNCHANGED <<conns, observers, paused, cancellations, subT, reqT, obs, requests, history>>

RejectJoined ==
  /\ main.pc = "reject" /\ subT.pc = "off" /\ Unlocked
  /\ cancellations' = (observers # {})
  /\ main' = [main EXCEPT !.pc = IF observers = {} THEN "join" ELSE "idle"]
  /\ UNCHANGED <<conns, observers, paused, subscriptions, subT, reqT, obs, requests, history>>

\* shutdown, from the destructor, up to the joins: connections not accepted
\* are reset; those of observers stay open.
Shutdown ==
  /\ Owner /\ main' = [main EXCEPT !.pc = "shutdown", !.calls = @ + 1]
  /\ subscriptions' = FALSE /\ cancellations' = FALSE
  /\ server' = [c \in Conns |-> IF server[c] = "backlog" THEN "closed" ELSE server[c]]
  /\ UNCHANGED <<up, down, peer, fds, observers, paused, subT, reqT, obs, requests, history>>

Moves == {"move_both", "move_requests", "move_none"}

\* The move constructor stops the threads of the object it moves from ...
Move ==
  /\ Owner
  /\ main' = [main EXCEPT !.pc = IF subscriptions THEN "move_both" ELSE
                                 IF cancellations THEN "move_requests" ELSE "move_none",
                          !.calls = @ + 1]
  /\ subscriptions' = FALSE /\ cancellations' = FALSE
  /\ UNCHANGED <<conns, observers, paused, subT, reqT, obs, requests, history>>

\* The end of a call that joins threads; the new object of a move takes over
\* the observers, not the paused ones, and has the threads that the old one
\* had.
Joined ==
  /\ \/ main.pc = "notify" /\ main.todo = {}
     \/ main.pc = "join" /\ reqT = "off"
     \/ main.pc \in Moves \cup {"shutdown"} /\ subT.pc = "off" /\ reqT = "off"
  /\ main' = [main EXCEPT !.pc = IF @ = "shutdown" THEN "gone" ELSE "idle"]
  /\ IF main.pc \in Moves THEN paused' = {} /\ lost' = lost \cup paused
                           ELSE UNCHANGED <<paused, lost>>
  /\ IF main.pc = "move_both" THEN StartSub ELSE UNCHANGED <<subscriptions, subT>>
  /\ IF main.pc \in {"move_both", "move_requests"} THEN StartReq
                                                   ELSE UNCHANGED <<cancellations, reqT>>
  /\ UNCHANGED <<conns, observers, obs, requests, overtaken, garbled, crashed>>

-----------------------------------------------------------------------------
(* The specification                                                       *)

SubThread == SubAccept \/ SubInsert \/ SubRespond \/ SubEnd
ReqThread == ReqEnd \/ \E f \in Fds : ReqRecv(f)
MainCall == NotifySend \/ RejectJoined \/ Joined

Next ==
  \/ SubThread \/ ReqThread \/ MainCall
  \/ Notify \/ AcceptSubscriptions \/ RejectSubscriptions \/ Shutdown \/ Move
  \/ \E o \in Observers :
       \/ Calls(o) \/ Crash(o) \/ Subscribe(o) \/ PauseOrResume(o)
       \/ Cancel(o, "cancel") \/ Destroy(o) \/ Receive(o)

Spec == Init /\ [][Next]_vars

\* The notifier's threads run, and calls that have begun go on; nobody has to
\* call anything.
FairSpec ==
  /\ Spec /\ WF_vars(SubThread) /\ WF_vars(ReqEnd) /\ WF_vars(MainCall)
  /\ \A f \in Fds : WF_vars(ReqRecv(f))
  /\ \A o \in Observers : WF_vars(Calls(o))

-----------------------------------------------------------------------------
(* Properties                                                              *)

\* The descriptors of connections that are open are the observers', the
\* paused observers', those a move forgot, and the one just accepted: none is
\* in two places, none is used after close, when accept may hand its number
\* out again, and none is leaked, whoever cancels, pauses, resumes, leaves or
\* is notified at the same time.
DescriptorsAccounted ==
  LET fresh == IF subT.pc = "insert" THEN {subT.fd} ELSE {}
      places == <<observers, paused, lost, fresh>>
  IN  /\ {f \in Fds : fds[f] # None} = observers \cup paused \cup lost \cup fresh
      /\ \A i, j \in 1 .. 4 : i # j => places[i] \cap places[j] = {}
      /\ \A f, g \in Fds : fds[f] = fds[g] /\ fds[f] # None => f = g

Delivers(o) == Receive(o) /\ down' # down

\* What the next read for a notification takes is one, whole and newer than
\* the last.
WholeAndNewer(o) ==
  LET c == obs[o].sock
  IN  /\ Len(down[c]) >= NotificationSize
      /\ \E n \in obs[o].last + 1 .. main.n :
           SubSeq(down[c], 1, NotificationSize) = Cells(n)

\* receive() hands one whole notification to the callback, newer than the last
\* one, whoever pauses, resumes, notifies or moves the notifier meanwhile - as
\* long as no read for a reply took notifications.
InOrder ==
  [][\A o \in Observers :
       Delivers(o) /\ obs[o].sock \notin garbled => WholeAndNewer(o)]_vars

\* Observers that come and go do not kill the notifier by SIGPIPE: that takes
\* one that crashed, or one that took a notification for its response, between
\* being accepted and being answered.
NotifierSurvives ==
  main.pc = "killed" => overtaken # {} \/ crashed

\* The notifier can get at the requests of observer o: it reads requests, does
\* not wait for space in the buffer of an observer that does not read, and has
\* not forgotten o in a move.
Serving(o) ==
  /\ reqT # "off"
  /\ main.pc = "notify" /\ main.todo # {} => ENABLED NotifySend
  /\ subT.pc = "respond" => ENABLED SubRespond
  /\ \A f \in lost : fds[f] # obs[o].sock

\* cancel_subscription, and with it the destructor, returns: an observer waits
\* for ever only if the notifier is again and again unable to serve it.
CancelReturns ==
  \A o \in Observers : <>[]Cancelling(o) => []<>~Serving(o)
=============================================================================
