------------------------- MODULE SocketEventsProofs -------------------------
(***************************************************************************)
(* Domain socket events for any number of observers, connections and       *)
(* requests and any buffer size: the notifier's descriptors are all        *)
(* accounted for, observers do not kill it by coming and going, and what   *)
(* they receive are whole notifications in order.                          *)
(***************************************************************************)
EXTENDS SocketEvents, FiniteSetTheorems, SequenceTheorems, TLAPS

Cell == [n : Nat, part : Nat]
Main == [pc : {"idle", "notify", "reject", "join", "shutdown", "gone", "killed",
               "move_both", "move_requests", "move_none"},
         todo : SUBSET Fds, n : Nat, calls : Nat]
Object == [pc : {"idle", "response", "cancel", "destroy"}, sock : Conns \cup {None},
           subscribed : BOOLEAN, timed : BOOLEAN, last : Nat]

TypeOK ==
  /\ up \in [Conns -> Seq(Requests)] /\ down \in [Conns -> Seq(Cell)]
  /\ peer \in [Conns -> Observers \cup {None}]
  /\ server \in [Conns -> {"unused", "backlog", "open", "closed"}]
  /\ fds \in [Fds -> Conns \cup {None}]
  /\ observers \subseteq Fds /\ paused \subseteq Fds /\ lost \subseteq Fds
  /\ subscriptions \in BOOLEAN /\ cancellations \in BOOLEAN
  /\ subT \in [pc : {"off", "accept", "insert", "respond"}, fd : Fds \cup {None}]
  /\ subT.pc \in {"insert", "respond"} => subT.fd \in Fds
  /\ reqT \in {"on", "off"}
  /\ main \in Main
  /\ obs \in [Observers -> Object]
  /\ requests \in Nat /\ crashed \in BOOLEAN
  /\ overtaken \subseteq Conns /\ garbled \subseteq Conns

\* A connection nobody made has nothing in it, the notifier's end of a
\* connection with a descriptor is open, and an observer has its end of the
\* connection it uses.
Sockets ==
  /\ \A c \in Conns : server[c] = "unused" => peer[c] = None /\ up[c] = <<>> /\ down[c] = <<>>
  /\ \A f \in Fds : fds[f] # None => server[fds[f]] = "open"
  /\ \A o \in Observers : /\ obs[o].sock # None => peer[obs[o].sock] = o
                          /\ obs[o].pc # "idle" => obs[o].sock # None

\* The thread that accepts is started only when the last one has ended, and
\* a notification goes to observers that cannot leave meanwhile.
Threads ==
  /\ ~subscriptions /\ main.pc \notin {"reject", "shutdown", "move_both"} => subT.pc = "off"
  /\ main.pc = "notify" => main.todo \subseteq observers

\* DescriptorsAccounted, descriptor by descriptor.
Fresh == IF subT.pc = "insert" THEN {subT.fd} ELSE {}
Accounted ==
  /\ \A f \in Fds : fds[f] # None <=> f \in observers \cup paused \cup lost \cup Fresh
  /\ observers \cap paused = {} /\ observers \cap lost = {} /\ observers \cap Fresh = {}
  /\ paused \cap lost = {} /\ paused \cap Fresh = {} /\ lost \cap Fresh = {}
  /\ \A f, g \in Fds : fds[f] = fds[g] /\ fds[f] # None => f = g

\* Until it is answered, an observer waits on its new connection and nothing
\* has passed there - unless it crashed or was notified first.
Unanswered(c) ==
  server[c] = "backlog" \/ (subT.pc \in {"insert", "respond"} /\ fds[subT.fd] = c)
Waiting ==
  overtaken = {} /\ ~crashed => \A c \in Conns : Unanswered(c) =>
    /\ peer[c] # None /\ down[c] = <<>> /\ up[c] = <<>>
    /\ obs[peer[c]].pc = "response" /\ obs[peer[c]].sock = c

IndInv == TypeOK /\ Sockets /\ Threads /\ Accounted /\ Waiting /\ NotifierSurvives

-----------------------------------------------------------------------------
(* Facts about numbers and sequences                                       *)

LEMMA LessThanWellFounded ==
  \E R : IsWellFoundedOn(R, Nat) /\ \A x, y \in Nat : x < y => <<x, y>> \in R
<1>1. \A x, y \in Nat : x < y => <<x, y>> \in OpToRel(<, Nat)
  BY DEF OpToRel
<1> QED
  BY <1>1, NatLessThanWellFounded, Zenon

\* A set of numbers that is not empty has a least member.
LEMMA LeastIn ==
  ASSUME NEW S \in SUBSET Nat, S # {}
  PROVE  Least(S) \in S
<1>1. PICK R : IsWellFoundedOn(R, Nat) /\ \A x, y \in Nat : x < y => <<x, y>> \in R
  BY LessThanWellFounded
<1>2. IsWellFoundedOn(R, Nat) /\ S \subseteq Nat
  BY <1>1
<1>3. \E x \in S : \A y \in S : ~(<<y, x>> \in R)
  BY <1>2, WFMin
<1>4. PICK x \in S : \A y \in S : ~(<<y, x>> \in R)
  BY <1>3
<1>5. \A y \in S : ~(y < x)
  BY <1>1, <1>2, <1>4, Zenon
<1>6. \A y \in S : x <= y
  BY <1>2, <1>5, SMT
<1> QED
  BY <1>6, Zenon DEF Least

\* Connections and descriptors are numbers, and None is none of them.
LEMMA Numbers == Conns \subseteq Nat /\ Fds \subseteq Nat /\ None \notin Conns /\ None \notin Fds
BY SizesAssumption, NoneAssumption DEF Conns, Fds

\* What a read leaves in the buffer are cells.
LEMMA RestType ==
  ASSUME NEW s \in Seq(Cell), NEW k \in Nat
  PROVE  SubSeq(s, k + 1, Len(s)) \in Seq(Cell)
<1>1. \A i \in k + 1 .. Len(s) : s[i] \in Cell
  OBVIOUS
<1> QED
  BY <1>1, SubSeqProperties

LEMMA CellsType == \A m \in Nat : Cells(m) \in Seq(Cell)
<1> SUFFICES ASSUME NEW m \in Nat PROVE Cells(m) \in Seq(Cell)
  OBVIOUS
<1>1. Cells(m) \in [1 .. NotificationSize -> Cell]
  BY SizesAssumption DEF Cells, Cell
<1> QED
  BY <1>1, SizesAssumption, SeqDef

-----------------------------------------------------------------------------
(* The initial state                                                       *)

\* The records that the owner's calls make of its state.
LEMMA CallRecord ==
  ASSUME NEW m \in Main, NEW r, NEW q,
         q \in {"reject", "shutdown", "move_both", "move_requests", "move_none"},
         r = [m EXCEPT !.pc = q, !.calls = @ + 1]
  PROVE  r \in Main /\ r.pc = q
<1>1. m.calls + 1 \in Nat
  BY DEF Main
<1>2. r = [pc |-> q, todo |-> m.todo, n |-> m.n, calls |-> m.calls + 1]
  BY DEF Main
<1> QED
  BY <1>1, <1>2 DEF Main

LEMMA InitHolds == Init => IndInv
<1> SUFFICES ASSUME Init PROVE IndInv
  OBVIOUS
<1>1. TypeOK
  BY EmptySeq DEF Init, TypeOK, Object, Closed, Main
<1>2. Sockets /\ Threads
  BY DEF Init, Sockets, Threads, Closed
<1>3. Accounted /\ Waiting /\ NotifierSurvives
  BY DEF Init, Accounted, Fresh, Waiting, Unanswered, NotifierSurvives
<1> QED
  BY <1>1, <1>2, <1>3 DEF IndInv

-----------------------------------------------------------------------------
(* Steps of the observers                                                  *)

ObserverStep(o) ==
  \/ Calls(o) \/ Crash(o) \/ Subscribe(o) \/ PauseOrResume(o)
  \/ Cancel(o, "cancel") \/ Destroy(o) \/ Receive(o)

\* What an observer does to connections: it ends, makes one, reads or writes
\* on the one it uses, or closes that one.
Ends(o) == EndProcess(o) /\ UNCHANGED <<up, server, requests, garbled>>
Writes(o) ==
  /\ obs[o].pc = "idle" /\ obs[o].sock # None
  /\ \E r \in Requests : up' = [up EXCEPT ![obs[o].sock] = Append(@, r)]
  /\ \E next \in {"idle", "cancel", "destroy"} : To(o, next)
  /\ requests' = requests + 1 /\ UNCHANGED <<down, peer, server, garbled>>
Reads(o) ==
  /\ obs[o].sock # None
  /\ down[obs[o].sock] # <<>> \/ EndOfStream(obs[o].sock) \/ obs[o].pc # "response"
  /\ \/ UNCHANGED down
     \/ \E k \in Nat : down' = [down EXCEPT ![obs[o].sock] = SubSeq(@, k + 1, Len(@))]
  /\ obs' \in [Observers -> Object] /\ \A p \in Observers \ {o} : obs'[p] = obs[p]
  /\ obs'[o].sock = obs[o].sock /\ obs'[o].pc \in {"idle", obs[o].pc}
  /\ garbled' \in {garbled, garbled \cup {obs[o].sock}}
  /\ UNCHANGED <<up, peer, server, requests>>
Closes(o) ==
  /\ obs[o].pc # "response" /\ CloseSocket(o)
  /\ garbled' = garbled \/ (obs[o].sock # None /\ garbled' = garbled \cup {obs[o].sock})
  /\ UNCHANGED <<up, server, requests>>

LEMMA SendCases ==
  ASSUME TypeOK, NEW o \in Observers, NEW r \in Requests,
         NEW next \in {"idle", "cancel", "destroy"}, Connected(o), Send(o, r, next)
  PROVE  Ends(o) \/ Writes(o)
<1>1. CASE server[obs[o].sock] = "closed"
  BY <1>1 DEF Send, Ends, history
<1>2. CASE server[obs[o].sock] # "closed"
  BY <1>2 DEF Send, Writes, Connected, history
<1> QED
  BY <1>1, <1>2

LEMMA ObserverCases ==
  ASSUME TypeOK, Sockets, NEW o \in Observers, ObserverStep(o)
  PROVE  /\ UNCHANGED <<fds, notifier, overtaken, lost>>
         /\ \/ Subscribe(o)
            \/ Ends(o) /\ crashed'
            \/ Ends(o) /\ obs[o].pc = "idle" /\ crashed' = crashed
            \/ (Writes(o) \/ Reads(o) \/ Closes(o)) /\ crashed' = crashed
<1> DEFINE c == obs[o].sock
<1>0. obs[o].pc # "idle" => c \in Conns
  BY DEF TypeOK, Object, Sockets
<1> USE DEF history
<1>1. CASE Response(o)
  <2>1. c \in Conns /\ obs[o].pc = "response"
    BY <1>0, <1>1 DEF Response
  <2>2. down[c] # <<>> \/ EndOfStream(c)
    BY <1>1 DEF Response, Take
  <2>3. down' = down \/ down' = [down EXCEPT ![c] = SubSeq(@, 1 + 1, Len(@))]
    BY <1>1 DEF Response, Take
  <2>4. PICK yes \in {TRUE, FALSE} :
          obs' = [obs EXCEPT ![o].pc = "idle", ![o].subscribed = yes \/ @]
    BY <1>1 DEF Response
  <2>5. obs' \in [Observers -> Object] /\ (\A p \in Observers \ {o} : obs'[p] = obs[p])
          /\ obs'[o].sock = c /\ obs'[o].pc = "idle"
    BY <2>4, ZenonT(40) DEF TypeOK, Object
  <2>7. garbled' \in {garbled, garbled \cup {c}}
    BY <1>1 DEF Response
  <2>8. Reads(o)
    BY <1>1, <2>1, <2>2, <2>3, <2>5, <2>7, Numbers DEF Reads, Response
  <2> QED
    BY <1>1, <2>8 DEF Response
<1>2. CASE CancelReply(o)
  <2>1. c \in Conns /\ obs[o].pc \in {"cancel", "destroy"} /\ garbled' \in {garbled, garbled \cup {c}}
    BY <1>0, <1>2 DEF CancelReply, Cancelling
  <2>2. CASE CloseSocket(o)
    BY <1>2, <2>1, <2>2, Numbers DEF CancelReply, Closes
  <2>3. CASE To(o, "idle") /\ down' = [down EXCEPT ![c] = SubSeq(@, ErrorSize + 1, Len(@))]
             /\ UNCHANGED peer
    <3>1. obs' \in [Observers -> Object] /\ (\A p \in Observers \ {o} : obs'[p] = obs[p])
          /\ obs'[o].sock = c /\ obs'[o].pc = "idle"
      BY <2>3 DEF To, TypeOK, Object
    <3>2. ErrorSize \in Nat
      BY SizesAssumption
    <3>3. Reads(o)
      BY <1>2, <2>1, <2>3, <3>1, <3>2, Numbers DEF Reads, CancelReply
    <3> QED
      BY <1>2, <3>3 DEF CancelReply
  <2> QED
    BY <1>2, <2>2, <2>3 DEF CancelReply
<1>3. CASE Crash(o)
  BY <1>3 DEF Crash, Ends
<1>4. CASE Subscribe(o)
  BY <1>4 DEF Subscribe
<1>5. CASE PauseOrResume(o)
  BY <1>5, SendCases DEF PauseOrResume, Requests, Send, Connected
<1>6. CASE Cancel(o, "cancel")
  BY <1>6, SendCases DEF Cancel, Requests, Send, Connected
<1>7. CASE Destroy(o)
  <2>1. CASE Cancel(o, "destroy")
    BY <2>1, SendCases DEF Cancel, Requests, Send, Connected
  <2>2. CASE ~Cancel(o, "destroy")
    BY <1>7, <2>2 DEF Destroy, Closes
  <2> QED
    BY <2>1, <2>2
<1>8. CASE Receive(o)
  <2>1. c \in Conns /\ obs[o].pc = "idle"
    BY <1>8 DEF Receive, Connected, TypeOK, Object
  <2>2. CASE Take(c, NotificationSize) /\ obs' = [obs EXCEPT ![o].last = Head(down[c]).n]
    <3>0. down[c] # <<>> /\ down[c] \in Seq(Cell)
      BY <2>1, <2>2 DEF Take, TypeOK
    <3>a. Head(down[c]) \in Cell
      BY <3>0, HeadTailProperties
    <3>1. Head(down[c]).n \in Nat
      BY <3>a DEF Cell
    <3>2. obs' \in [Observers -> Object] /\ (\A p \in Observers \ {o} : obs'[p] = obs[p])
          /\ obs'[o].sock = c /\ obs'[o].pc = "idle"
      BY <2>1, <2>2, <3>1 DEF TypeOK, Object
    <3>3. \E k \in Nat : down' = [down EXCEPT ![c] = SubSeq(@, k + 1, Len(@))]
      BY <2>2, SizesAssumption DEF Take
    <3>4. Reads(o)
      BY <1>8, <2>1, <3>2, <3>3, Numbers DEF Reads, Receive
    <3> QED
      BY <1>8, <3>4 DEF Receive
  <2>3. CASE UNCHANGED down /\ obs' = [obs EXCEPT ![o].timed = TRUE]
    <3>1. obs' \in [Observers -> Object] /\ (\A p \in Observers \ {o} : obs'[p] = obs[p])
          /\ obs'[o].sock = c /\ obs'[o].pc = "idle"
      BY <2>1, <2>3 DEF TypeOK, Object
    <3>2. Reads(o)
      BY <1>8, <2>1, <2>3, <3>1, Numbers DEF Reads, Receive
    <3> QED
      BY <1>8, <3>2 DEF Receive
  <2> QED
    BY <1>8, <2>2, <2>3 DEF Receive
<1> QED
  BY <1>1, <1>2, <1>3, <1>4, <1>5, <1>6, <1>7, <1>8 DEF ObserverStep, Calls

LEMMA SubscribeKeeps ==
  ASSUME IndInv, NEW o \in Observers, Subscribe(o)
  PROVE  TypeOK' /\ Sockets' /\ Waiting'
<1> DEFINE fresh == {d \in Conns : server[d] = "unused"}
           c == Least(fresh)
<1>1. TypeOK /\ Sockets /\ Waiting
  BY DEF IndInv
<1>2. c \in fresh
  <2>1. fresh \in SUBSET Nat /\ fresh # {}
    BY Numbers DEF Subscribe
  <2> QED
    BY <2>1, LeastIn
<1>3. c \in Conns /\ server[c] = "unused"
  BY <1>2
<1>4. UNCHANGED <<up, down, fds, notifier, history, requests>> /\ obs[o].pc = "idle"
  BY DEF Subscribe
<1>5. CASE Listening
  <2>1. /\ peer' = [peer EXCEPT ![c] = o] /\ server' = [server EXCEPT ![c] = "backlog"]
        /\ obs' = [obs EXCEPT ![o] = [@ EXCEPT !.pc = "response", !.sock = c,
                                                !.timed = FALSE, !.last = 0]]
    BY <1>5 DEF Subscribe
  <2> HIDE DEF c
  <2>2. /\ obs' \in [Observers -> Object] /\ \A p \in Observers \ {o} : obs'[p] = obs[p]
        /\ obs'[o].sock = c /\ obs'[o].pc = "response"
    BY <1>1, <1>3, <2>1, ZenonT(40) DEF TypeOK, Object
  <2>3. TypeOK'
    BY <1>1, <1>3, <1>4, <2>1, <2>2 DEF TypeOK, notifier, history
  <2>4. Sockets'
    BY <1>1, <1>3, <1>4, <2>1, <2>2, Numbers, NoneAssumption DEF Sockets, TypeOK
  <2>5. Waiting'
    <3> SUFFICES ASSUME overtaken = {}, ~crashed, NEW d \in Conns, Unanswered(d)'
                 PROVE  /\ peer'[d] # None /\ down'[d] = <<>> /\ up'[d] = <<>>
                        /\ obs'[peer'[d]].pc = "response" /\ obs'[peer'[d]].sock = d
      BY <1>4 DEF Waiting, history
    <3>1. CASE d = c
      BY <1>1, <1>3, <1>4, <2>1, <2>2, <3>1, NoneAssumption DEF Sockets, TypeOK
    <3>2. CASE d # c
      <4>1. Unanswered(d)
        BY <1>1, <1>3, <1>4, <2>1, <3>2 DEF Unanswered, notifier, TypeOK
      <4>2. /\ peer[d] # None /\ down[d] = <<>> /\ up[d] = <<>>
            /\ obs[peer[d]].pc = "response" /\ obs[peer[d]].sock = d
        BY <1>1, <4>1 DEF Waiting
      <4> QED
        BY <1>1, <1>3, <1>4, <2>1, <2>2, <3>2, <4>2 DEF TypeOK
    <3> QED
      BY <3>1, <3>2
  <2> QED
    BY <2>3, <2>4, <2>5
<1>6. CASE ~Listening
  <2>1. obs' = [obs EXCEPT ![o].sock = None] /\ UNCHANGED <<peer, server>>
    BY <1>6 DEF Subscribe
  <2>2. /\ obs' \in [Observers -> Object] /\ \A p \in Observers \ {o} : obs'[p] = obs[p]
        /\ obs'[o].sock = None /\ obs'[o].pc = "idle"
    BY <1>1, <1>4, <2>1 DEF TypeOK, Object
  <2>3. TypeOK'
    BY <1>1, <1>4, <2>1, <2>2 DEF TypeOK, notifier, history
  <2>4. Sockets'
    BY <1>1, <1>4, <2>1, <2>2 DEF Sockets
  <2>5. Waiting'
    BY <1>1, <1>4, <2>1, <2>2 DEF Waiting, Unanswered, notifier, history, TypeOK
  <2> QED
    BY <2>3, <2>4, <2>5
<1> QED
  BY <1>5, <1>6

LEMMA EndsKeeps ==
  ASSUME IndInv, NEW o \in Observers, Ends(o), UNCHANGED <<fds, notifier, overtaken, lost>>,
         crashed' = TRUE \/ (obs[o].pc = "idle" /\ crashed' = crashed)
  PROVE  TypeOK' /\ Sockets' /\ Waiting'
<1>1. TypeOK /\ Sockets /\ Waiting
  BY DEF IndInv
<1>2. /\ obs' \in [Observers -> Object] /\ \A p \in Observers \ {o} : obs'[p] = obs[p]
      /\ obs'[o].sock = None /\ obs'[o].pc = "idle"
  BY <1>1 DEF Ends, EndProcess, Closed, TypeOK, Object
<1>3. /\ peer' \in [Conns -> Observers \cup {None}] /\ down' \in [Conns -> Seq(Cell)]
      /\ \A d \in Conns : IF peer[d] = o THEN peer'[d] = None /\ down'[d] = <<>>
                                         ELSE peer'[d] = peer[d] /\ down'[d] = down[d]
  BY <1>1, EmptySeq DEF Ends, EndProcess, CloseEnds, TypeOK
<1>4. UNCHANGED <<up, server, requests, garbled>>
  BY DEF Ends
<1>5. TypeOK'
  BY <1>1, <1>2, <1>3, <1>4 DEF TypeOK, notifier
<1>6. Sockets'
  <2>1. \A d \in Conns : server'[d] = "unused" => peer'[d] = None /\ up'[d] = <<>> /\ down'[d] = <<>>
    BY <1>1, <1>3, <1>4 DEF Sockets
  <2>2. \A p \in Observers : /\ obs'[p].sock # None => peer'[obs'[p].sock] = p
                             /\ obs'[p].pc # "idle" => obs'[p].sock # None
    <3> SUFFICES ASSUME NEW p \in Observers \ {o}
                 PROVE  /\ obs'[p].sock # None => peer'[obs'[p].sock] = p
                        /\ obs'[p].pc # "idle" => obs'[p].sock # None
      BY <1>2
    <3>1. obs'[p] = obs[p] /\ obs[p].sock \in Conns \cup {None}
      BY <1>1, <1>2 DEF TypeOK, Object
    <3> QED
      BY <1>1, <1>3, <3>1 DEF Sockets
  <2>3. \A f \in Fds : fds'[f] # None => server'[fds'[f]] = "open"
    BY <1>1, <1>4 DEF Sockets
  <2> QED
    BY <2>1, <2>2, <2>3, Zenon DEF Sockets
<1>7. Waiting'
  BY <1>1, <1>2, <1>3, <1>4 DEF Waiting, Unanswered, TypeOK, notifier
<1> QED
  BY <1>5, <1>6, <1>7

LEMMA WritesKeeps ==
  ASSUME IndInv, NEW o \in Observers, Writes(o),
         UNCHANGED <<fds, notifier, overtaken, lost, crashed>>
  PROVE  TypeOK' /\ Sockets' /\ Waiting'
<1> DEFINE c == obs[o].sock
<1>1. TypeOK /\ Sockets /\ Waiting
  BY DEF IndInv
<1>2. c \in Conns /\ peer[c] = o /\ obs[o].pc = "idle"
  BY <1>1 DEF Writes, TypeOK, Object, Sockets
<1>a. PICK next \in {"idle", "cancel", "destroy"} : obs' = [obs EXCEPT ![o].pc = next]
  BY DEF Writes, To
<1>3. /\ obs' \in [Observers -> Object] /\ \A p \in Observers \ {o} : obs'[p] = obs[p]
      /\ obs'[o].sock = c
  BY <1>1, <1>2, <1>a, ZenonT(40) DEF TypeOK, Object
<1>4. /\ up' \in [Conns -> Seq(Requests)] /\ \A d \in Conns \ {c} : up'[d] = up[d]
  BY <1>1, <1>2, AppendProperties DEF Writes, TypeOK
<1>5. requests' \in Nat /\ UNCHANGED <<down, peer, server, garbled>>
  BY <1>1 DEF Writes, TypeOK
<1>6. TypeOK'
  BY <1>1, <1>3, <1>4, <1>5 DEF TypeOK, notifier
<1>7. Sockets'
  BY <1>1, <1>2, <1>3, <1>4, <1>5, NoneAssumption, Numbers, ZenonT(40) DEF Sockets
<1>8. Waiting'
  BY <1>1, <1>2, <1>3, <1>4, <1>5 DEF Waiting, Unanswered, TypeOK, notifier
<1> QED
  BY <1>6, <1>7, <1>8

LEMMA ReadsKeeps ==
  ASSUME IndInv, NEW o \in Observers, Reads(o),
         UNCHANGED <<fds, notifier, overtaken, lost, crashed>>
  PROVE  TypeOK' /\ Sockets' /\ Waiting'
<1> DEFINE c == obs[o].sock
<1>1. TypeOK /\ Sockets /\ Waiting
  BY DEF IndInv
<1>2. c \in Conns /\ peer[c] = o
  BY <1>1 DEF Reads, TypeOK, Object, Sockets
<1>3. /\ obs' \in [Observers -> Object] /\ \A p \in Observers \ {o} : obs'[p] = obs[p]
      /\ obs'[o].sock = c
  BY DEF Reads
<1>4. /\ down' \in [Conns -> Seq(Cell)] /\ \A d \in Conns \ {c} : down'[d] = down[d]
  <2>1. CASE UNCHANGED down
    BY <1>1, <2>1 DEF TypeOK
  <2>2. CASE \E k \in Nat : down' = [down EXCEPT ![c] = SubSeq(@, k + 1, Len(@))]
    <3>1. PICK k \in Nat : down' = [down EXCEPT ![c] = SubSeq(@, k + 1, Len(@))]
      BY <2>2
    <3>2. SubSeq(down[c], k + 1, Len(down[c])) \in Seq(Cell)
      BY <1>1, <1>2, RestType DEF TypeOK
    <3> QED
      BY <1>1, <1>2, <3>1, <3>2 DEF TypeOK
  <2> QED
    BY <2>1, <2>2 DEF Reads
<1>5. /\ UNCHANGED <<up, peer, server, requests>> /\ garbled' \subseteq Conns
  BY <1>1, <1>2 DEF Reads, TypeOK
<1>6. TypeOK'
  BY <1>1, <1>3, <1>4, <1>5 DEF TypeOK, notifier
<1>7. Sockets'
  <2>1. server[c] # "unused"
    BY <1>1, <1>2, NoneAssumption DEF Sockets
  <2>2. \A d \in Conns : server[d] = "unused" => peer[d] = None /\ up[d] = <<>> /\ down'[d] = <<>>
    BY <1>1, <1>4, <2>1 DEF Sockets
  <2>3. ASSUME NEW p \in Observers
        PROVE  /\ obs'[p].sock # None => peer[obs'[p].sock] = p
               /\ obs'[p].pc # "idle" => obs'[p].sock # None
    <3>1. CASE p = o
      <4>1. c # None
        BY DEF Reads
      <4> QED
        BY <1>2, <1>3, <3>1, <4>1
    <3>2. CASE p # o
      <4>1. obs'[p] = obs[p]
        BY <1>3, <3>2
      <4> QED
        BY <1>1, <4>1 DEF Sockets
    <3> QED
      BY <3>1, <3>2
  <2>4. \A f \in Fds : fds[f] # None => server[fds[f]] = "open"
    BY <1>1 DEF Sockets
  <2> QED
    BY <1>5, <2>2, <2>3, <2>4 DEF Sockets
<1>8. Waiting'
  <2> SUFFICES ASSUME overtaken = {}, ~crashed, NEW d \in Conns, Unanswered(d)
               PROVE  /\ peer[d] # None /\ down'[d] = <<>> /\ up[d] = <<>>
                      /\ obs'[peer[d]].pc = "response" /\ obs'[peer[d]].sock = d
    BY <1>5 DEF Waiting, Unanswered, notifier
  <2>1. /\ peer[d] # None /\ down[d] = <<>> /\ up[d] = <<>>
        /\ obs[peer[d]].pc = "response" /\ obs[peer[d]].sock = d
    BY <1>1 DEF Waiting
  <2>2. server[d] # "closed"
    BY <1>1, Numbers DEF Unanswered, Sockets, TypeOK
  <2>3. d # c
    BY <1>2, <2>1, <2>2 DEF Reads, EndOfStream
  <2> QED
    BY <1>1, <1>2, <1>3, <1>4, <2>1, <2>3 DEF TypeOK
<1> QED
  BY <1>6, <1>7, <1>8

LEMMA ClosesKeeps ==
  ASSUME IndInv, NEW o \in Observers, Closes(o),
         UNCHANGED <<fds, notifier, overtaken, lost, crashed>>
  PROVE  TypeOK' /\ Sockets' /\ Waiting'
<1> DEFINE c == obs[o].sock
<1>1. TypeOK /\ Sockets /\ Waiting
  BY DEF IndInv
<1>2. c # None => c \in Conns /\ peer[c] = o
  BY <1>1 DEF TypeOK, Object, Sockets
<1>3. /\ obs' \in [Observers -> Object] /\ \A p \in Observers \ {o} : obs'[p] = obs[p]
      /\ obs'[o].sock = None /\ obs'[o].pc = "idle"
  <2>1. CASE obs[o].pc = "cancel"
    BY <1>1, <2>1, ZenonT(40) DEF Closes, CloseSocket, TypeOK, Object
  <2>2. CASE obs[o].pc # "cancel"
    BY <1>1, <2>2 DEF Closes, CloseSocket, Closed, TypeOK, Object
  <2> QED
    BY <2>1, <2>2
<1>4. /\ peer' \in [Conns -> Observers \cup {None}] /\ down' \in [Conns -> Seq(Cell)]
      /\ \A d \in Conns : IF d = c THEN peer'[d] = None /\ down'[d] = <<>>
                                   ELSE peer'[d] = peer[d] /\ down'[d] = down[d]
  BY <1>1, EmptySeq DEF Closes, CloseSocket, CloseEnds, TypeOK
<1>5. UNCHANGED <<up, server, requests>> /\ garbled' \subseteq Conns
  BY <1>1, <1>2 DEF Closes, TypeOK
<1>6. TypeOK'
  BY <1>1, <1>3, <1>4, <1>5 DEF TypeOK, notifier
<1>7. Sockets'
  <2>1. \A d \in Conns : server'[d] = "unused" => peer'[d] = None /\ up'[d] = <<>> /\ down'[d] = <<>>
    BY <1>1, <1>4, <1>5 DEF Sockets
  <2>2. \A p \in Observers : /\ obs'[p].sock # None => peer'[obs'[p].sock] = p
                             /\ obs'[p].pc # "idle" => obs'[p].sock # None
    <3> SUFFICES ASSUME NEW p \in Observers \ {o}
                 PROVE  /\ obs'[p].sock # None => peer'[obs'[p].sock] = p
                        /\ obs'[p].pc # "idle" => obs'[p].sock # None
      BY <1>3
    <3>1. obs'[p] = obs[p] /\ obs[p].sock \in Conns \cup {None}
      BY <1>1, <1>3 DEF TypeOK, Object
    <3>2. obs[p].sock # None => obs[p].sock # c
      BY <1>1, <1>2 DEF Sockets
    <3> QED
      BY <1>1, <1>4, <3>1, <3>2 DEF Sockets
  <2>3. \A f \in Fds : fds'[f] # None => server'[fds'[f]] = "open"
    BY <1>1, <1>5 DEF Sockets
  <2> QED
    BY <2>1, <2>2, <2>3, Zenon DEF Sockets
<1>8. Waiting'
  <2>1. obs[o].pc # "response"
    BY DEF Closes
  <2> QED
    BY <1>1, <1>2, <1>3, <1>4, <1>5, <2>1, Numbers DEF Waiting, Unanswered, TypeOK, notifier
<1> QED
  BY <1>6, <1>7, <1>8

LEMMA ObserverKeeps ==
  ASSUME IndInv, NEW o \in Observers, ObserverStep(o)
  PROVE  IndInv'
<1>1. TypeOK /\ Sockets
  BY DEF IndInv
<1>2. UNCHANGED <<fds, notifier, overtaken, lost>>
  BY <1>1, ObserverCases
<1>3. (crashed => crashed') /\ TypeOK' /\ Sockets' /\ Waiting'
  <2>1. CASE Subscribe(o)
    BY <2>1, SubscribeKeeps DEF Subscribe, history
  <2>2. CASE Ends(o) /\ crashed'
    BY <1>1, <1>2, <2>2, EndsKeeps DEF TypeOK
  <2>3. CASE Ends(o) /\ obs[o].pc = "idle" /\ crashed' = crashed
    BY <1>2, <2>3, EndsKeeps
  <2>4. CASE (Writes(o) \/ Reads(o) \/ Closes(o)) /\ crashed' = crashed
    BY <1>2, <2>4, WritesKeeps, ReadsKeeps, ClosesKeeps
  <2> QED
    BY <1>1, <2>1, <2>2, <2>3, <2>4, ObserverCases
<1>4. Threads' /\ Accounted' /\ NotifierSurvives'
  BY <1>2, <1>3 DEF IndInv, Threads, Accounted, Fresh, NotifierSurvives, notifier
<1> QED
  BY <1>3, <1>4 DEF IndInv

-----------------------------------------------------------------------------
(* Steps of the notifier                                                   *)

\* While a connection waits in the backlog there is a free descriptor.
LEMMA FreeDescriptor ==
  ASSUME TypeOK, Sockets, Accounted, NEW w \in Conns, server[w] = "backlog"
  PROVE  \E f \in Fds : fds[f] = None
<1> SUFFICES ASSUME \A f \in Fds : fds[f] # None PROVE FALSE
  OBVIOUS
<1> DEFINE T == Conns \ {w}
<1>1. fds \in [Fds -> T]
  BY DEF TypeOK, Sockets
<1>2. \A f, g \in Fds : f # g => fds[f] # fds[g]
  BY DEF Accounted
<1>3. MaxConns \in Nat /\ Conns = 1 .. MaxConns /\ Fds = 1 .. MaxConns /\ 1 \in Int /\ MaxConns \in Int
  BY SizesAssumption DEF Conns, Fds
<1>4. MaxConns >= 1
  BY <1>3
<1>5. /\ IsFiniteSet(Conns) /\ IsFiniteSet(Fds)
      /\ Cardinality(Conns) = MaxConns /\ Cardinality(Fds) = MaxConns
  BY <1>3, <1>4, FS_Interval
<1>6. IsFiniteSet(T) /\ Cardinality(T) = MaxConns - 1
  BY <1>5, FS_RemoveElement
<1>7. Cardinality(T) < Cardinality(Fds)
  BY <1>3, <1>5, <1>6
<1> HIDE DEF T
<1> QED
  BY <1>1, <1>2, <1>5, <1>6, <1>7, FS_PigeonHole

\* What closing a descriptor in use does.
LEMMA CloseEffect ==
  ASSUME TypeOK, NEW f \in Fds, fds[f] # None, Close({f})
  PROVE  /\ fds' \in [Fds -> Conns \cup {None}] /\ fds'[f] = None
         /\ \A g \in Fds \ {f} : fds'[g] = fds[g]
         /\ server' \in [Conns -> {"unused", "backlog", "open", "closed"}]
         /\ server'[fds[f]] = "closed" /\ \A d \in Conns \ {fds[f]} : server'[d] = server[d]
BY DEF Close, TypeOK

LEMMA SubAcceptKeeps ==
  ASSUME IndInv, SubAccept
  PROVE  IndInv'
<1> DEFINE waiting == {c \in Conns : server[c] = "backlog"}
           free == {g \in Fds : fds[g] = None}
           w == Least(waiting)
           f == Least(free)
<1>1. TypeOK /\ Sockets /\ Threads /\ Accounted /\ Waiting /\ NotifierSurvives
  BY DEF IndInv
<1>2. w \in waiting
  <2>1. waiting \in SUBSET Nat /\ waiting # {}
    BY Numbers DEF SubAccept
  <2> QED
    BY <2>1, LeastIn
<1>3. w \in Conns /\ server[w] = "backlog"
  BY <1>2
<1>4. f \in free
  <2>1. free \in SUBSET Nat /\ free # {}
    BY <1>1, <1>3, Numbers, FreeDescriptor
  <2> QED
    BY <2>1, LeastIn
<1>5. f \in Fds /\ fds[f] = None
  BY <1>4
<1>6. /\ subT.pc = "accept"
      /\ server' = [server EXCEPT ![w] = "open"] /\ fds' = [fds EXCEPT ![f] = w]
      /\ subT' = [pc |-> "insert", fd |-> f]
      /\ UNCHANGED <<up, down, peer, observers, paused, subscriptions, cancellations,
                     reqT, main, obs, requests, history>>
  BY DEF SubAccept
<1> HIDE DEF w, f
<1>7. TypeOK'
  BY <1>1, <1>3, <1>5, <1>6 DEF TypeOK, history
<1>8. Sockets'
  BY <1>1, <1>3, <1>5, <1>6 DEF Sockets, TypeOK
<1>9. Threads' /\ NotifierSurvives'
  BY <1>1, <1>6 DEF Threads, NotifierSurvives, history
<1>10. Accounted'
  <2>1. \A g \in Fds : g # f => fds'[g] = fds[g] /\ fds'[g] # w
    BY <1>1, <1>3, <1>5, <1>6, Numbers DEF TypeOK, Sockets
  <2>2. fds'[f] = w /\ w # None
    BY <1>1, <1>3, <1>5, <1>6, Numbers DEF TypeOK
  <2>3. Fresh = {} /\ Fresh' = {f} /\ UNCHANGED <<observers, paused, lost>>
    BY <1>6 DEF Fresh, history
  <2>4. f \notin observers \cup paused \cup lost
    BY <1>1, <1>5 DEF Accounted
  <2> QED
    BY <1>1, <1>5, <2>1, <2>2, <2>3, <2>4 DEF Accounted
<1>11. Waiting'
  <2>1. \A d \in Conns : Unanswered(d)' => Unanswered(d)
    BY <1>1, <1>3, <1>5, <1>6 DEF Unanswered, TypeOK
  <2> QED
    BY <1>1, <1>6, <2>1 DEF Waiting, history
<1> QED
  BY <1>7, <1>8, <1>9, <1>10, <1>11 DEF IndInv

LEMMA SubInsertKeeps ==
  ASSUME IndInv, SubInsert
  PROVE  IndInv'
<1>1. TypeOK /\ Sockets /\ Threads /\ Accounted /\ Waiting /\ NotifierSurvives
  BY DEF IndInv
<1>2. subT.fd \in Fds /\ subT.pc = "insert" /\ subT'.pc = "respond" /\ subT'.fd = subT.fd
      /\ subT' \in [pc : {"off", "accept", "insert", "respond"}, fd : Fds \cup {None}]
  BY <1>1 DEF SubInsert, TypeOK
<1>3. /\ main.pc # "notify" /\ observers' = observers \cup {subT.fd}
      /\ UNCHANGED <<conns, paused, subscriptions, cancellations, reqT, main, obs, requests, history>>
  BY DEF SubInsert, Unlocked
<1>4. TypeOK'
  BY <1>1, <1>2, <1>3 DEF TypeOK, conns, history
<1>5. Sockets' /\ Threads' /\ NotifierSurvives'
  BY <1>1, <1>2, <1>3 DEF Sockets, Threads, NotifierSurvives, conns, history
<1>6. Accounted'
  <2>1. Fresh = {subT.fd} /\ Fresh' = {}
    BY <1>2 DEF Fresh
  <2> QED
    BY <1>1, <1>2, <1>3, <2>1 DEF Accounted, conns, history
<1>7. Waiting'
  BY <1>1, <1>2, <1>3 DEF Waiting, Unanswered, conns, history
<1> QED
  BY <1>4, <1>5, <1>6, <1>7 DEF IndInv

LEMMA SubRespondKeeps ==
  ASSUME IndInv, SubRespond
  PROVE  IndInv'
<1> DEFINE c == fds[subT.fd]
<1>1. TypeOK /\ Sockets /\ Threads /\ Accounted /\ Waiting /\ NotifierSurvives
  BY DEF IndInv
<1>2. subT.fd \in Fds /\ subT.pc = "respond" /\ c \in Conns \cup {None}
  BY <1>1 DEF SubRespond, TypeOK
<1>3. UNCHANGED <<up, peer, subscriptions, cancellations, obs, requests, overtaken, garbled, crashed>>
  BY DEF SubRespond
<1>4. CASE c # None /\ peer[c] = None
  <2>1. /\ main' = [main EXCEPT !.pc = "killed"]
        /\ subT' = [pc |-> "off", fd |-> None] /\ reqT' = "off"
        /\ server' = [d \in Conns |-> IF server[d] = "unused" THEN server[d] ELSE "closed"]
        /\ fds' = [f \in Fds |-> None] /\ observers' = {} /\ paused' = {}
        /\ lost' = {} /\ UNCHANGED down
    BY <1>4 DEF SubRespond
  <2>2. TypeOK' /\ main'.pc = "killed"
    BY <1>1, <1>3, <2>1 DEF TypeOK, Main
  <2>3. Sockets' /\ Threads'
    BY <1>1, <1>3, <2>1, <2>2 DEF Sockets, Threads, TypeOK
  <2>4. Accounted' /\ Waiting'
    BY <1>1, <2>1 DEF Accounted, Fresh, Waiting, Unanswered
  <2>5. NotifierSurvives'
    BY <1>1, <1>2, <1>3, <1>4 DEF NotifierSurvives, Waiting, Unanswered
  <2> QED
    BY <2>2, <2>3, <2>4, <2>5 DEF IndInv
<1>5. CASE ~(c # None /\ peer[c] = None)
  <2>1. /\ down' = IF c = None THEN down ELSE [down EXCEPT ![c] = Append(@, OK)]
        /\ subT' = [pc |-> IF subscriptions THEN "accept" ELSE "off", fd |-> None]
        /\ UNCHANGED <<main, reqT, server, fds, observers, paused, lost>>
    BY <1>5 DEF SubRespond
  <2>a. /\ subT' \in [pc : {"off", "accept", "insert", "respond"}, fd : Fds \cup {None}]
        /\ subT'.pc \in {"accept", "off"} /\ (~subscriptions => subT'.pc = "off")
    <3>1. CASE subscriptions
      BY <2>1, <3>1
    <3>2. CASE ~subscriptions
      BY <2>1, <3>2
    <3> QED
      BY <3>1, <3>2
  <2>2. down' \in [Conns -> Seq(Cell)] /\ \A d \in Conns : d # c => down'[d] = down[d]
    <3>1. OK \in Cell
      BY DEF OK, Cell
    <3>2. c # None => Append(down[c], OK) \in Seq(Cell)
      BY <1>1, <1>2, <3>1, AppendProperties DEF TypeOK
    <3> QED
      BY <1>1, <1>2, <2>1, <3>2 DEF TypeOK
  <2>3. TypeOK'
    BY <1>1, <1>3, <2>1, <2>a, <2>2 DEF TypeOK
  <2>4. c # None => server[c] = "open"
    BY <1>1, <1>2 DEF Sockets
  <2>5. Sockets'
    BY <1>1, <1>2, <1>3, <2>1, <2>2, <2>4, Numbers DEF Sockets
  <2>6. Threads' /\ NotifierSurvives'
    BY <1>1, <1>2, <1>3, <2>1, <2>a DEF Threads, NotifierSurvives
  <2>7. Accounted'
    <3>1. Fresh = {} /\ Fresh' = {}
      BY <1>2, <2>a DEF Fresh
    <3> QED
      BY <1>1, <2>1, <3>1 DEF Accounted
  <2>8. Waiting'
    BY <1>1, <1>2, <1>3, <2>1, <2>a, <2>2, <2>4, Numbers DEF Waiting, Unanswered
  <2> QED
    BY <2>3, <2>5, <2>6, <2>7, <2>8 DEF IndInv
<1> QED
  BY <1>4, <1>5

\* A step that closes descriptor f of observers or paused ones, takes it out
\* of there and touches the requests of that connection only.
LEMMA LeaveKeeps ==
  ASSUME IndInv, NEW f \in Fds, f \in observers \cup paused, Close({f}),
         up' \in [Conns -> Seq(Requests)],
         \A d \in Conns : d # fds[f] => up'[d] = up[d],
         observers' = observers \ {f}, paused' = paused \ {f},
         UNCHANGED <<down, peer, subscriptions, subT, obs, requests, history>>
  PROVE  Sockets' /\ Accounted' /\ Waiting'
<1> DEFINE c == fds[f]
<1>1. TypeOK /\ Sockets /\ Accounted /\ Waiting
  BY DEF IndInv
<1>2. c # None /\ c \in Conns /\ server[c] = "open"
  BY <1>1 DEF Accounted, TypeOK, Sockets
<1>3. /\ fds' \in [Fds -> Conns \cup {None}] /\ fds'[f] = None
      /\ \A g \in Fds \ {f} : fds'[g] = fds[g]
      /\ server'[c] = "closed" /\ \A d \in Conns \ {c} : server'[d] = server[d]
  BY <1>1, <1>2, CloseEffect
<1>4. \A g \in Fds \ {f} : fds[g] # c
  BY <1>1, <1>2 DEF Accounted
<1>5. Sockets'
  <2>1. ASSUME NEW g \in Fds, fds'[g] # None PROVE server'[fds'[g]] = "open"
    <3>1. g # f /\ fds'[g] = fds[g] /\ fds[g] \in Conns \ {c}
      BY <1>1, <1>3, <1>4, <2>1 DEF TypeOK
    <3> QED
      BY <1>1, <1>3, <2>1, <3>1 DEF Sockets
  <2>2. \A d \in Conns : server'[d] = "unused" => peer[d] = None /\ up'[d] = <<>> /\ down[d] = <<>>
    BY <1>1, <1>2, <1>3 DEF Sockets
  <2> QED
    BY <1>1, <2>1, <2>2 DEF Sockets
<1>6. Accounted'
  <2>1. Fresh' = Fresh /\ lost' = lost
    BY DEF Fresh, history
  <2> QED
    BY <1>1, <1>3, <2>1 DEF Accounted
<1>7. Waiting'
  <2>1. ASSUME NEW d \in Conns, Unanswered(d)' PROVE Unanswered(d) /\ d # c
    <3>1. CASE server'[d] = "backlog"
      BY <1>3, <3>1 DEF Unanswered
    <3>2. CASE subT.pc \in {"insert", "respond"} /\ fds'[subT.fd] = d
      <4>1. subT.fd \in Fds /\ d # None
        BY <1>1, <3>2, Numbers DEF TypeOK
      <4>2. subT.fd # f
        BY <1>3, <3>2, <4>1
      <4> QED
        BY <1>3, <1>4, <3>2, <4>1, <4>2, SMTT(30) DEF Unanswered
    <3> QED
      BY <2>1, <3>1, <3>2 DEF Unanswered
  <2> QED
    BY <1>1, <2>1 DEF Waiting, history
<1> QED
  BY <1>5, <1>6, <1>7

LEMMA ReqRecvKeeps ==
  ASSUME IndInv, NEW f \in Fds, ReqRecv(f)
  PROVE  IndInv'
<1> DEFINE c == fds[f]
           stays == UNCHANGED <<server, fds>>
<1>1. TypeOK /\ Sockets /\ Threads /\ Accounted /\ Waiting /\ NotifierSurvives
  BY DEF IndInv
<1>2. /\ f \in observers \cup paused /\ (f \in observers => main.pc # "notify")
      /\ UNCHANGED <<down, peer, subscriptions, cancellations, subT, reqT, main, obs, requests, history>>
  BY DEF ReqRecv, Unlocked
<1>3. c # None /\ c \in Conns /\ server[c] = "open" /\ ~(f \in observers /\ f \in paused)
  BY <1>1, <1>2 DEF Accounted, TypeOK, Sockets
<1>4. /\ up' \in [Conns -> Seq(Requests)] /\ \A d \in Conns : d # c => up'[d] = up[d]
  <2>1. CASE up[c] # <<>> /\ up' = [up EXCEPT ![c] = Tail(@)]
    <3>1. Tail(up[c]) \in Seq(Requests)
      BY <1>1, <1>3, <2>1, HeadTailProperties DEF TypeOK
    <3> QED
      BY <1>1, <1>3, <2>1, <3>1 DEF TypeOK
  <2>2. CASE up' = up
    BY <1>1, <2>2 DEF TypeOK
  <2> QED
    BY <2>1, <2>2 DEF ReqRecv
<1>5. \/ Close({f}) /\ observers' = observers \ {f} /\ paused' = paused \ {f}
      \/ stays /\ UNCHANGED <<observers, paused>> /\ up[c] # <<>>
      \/ stays /\ f \in observers /\ Pause(f) /\ up[c] # <<>>
      \/ stays /\ f \in paused /\ main.pc # "notify" /\ Resume(f) /\ up[c] # <<>>
  <2> DEFINE leave == IF f \in observers THEN Forget(observers, f) /\ UNCHANGED paused
                                         ELSE Forget(paused, f) /\ UNCHANGED observers
  <2>1. CASE leave
    BY <1>2, <1>3, <2>1 DEF Forget
  <2>2. CASE up[c] = <<>>
    BY <2>1, <2>2 DEF ReqRecv
  <2>3. CASE up[c] # <<>>
    <3> DEFINE r == Head(up[c])
    <3>1. (CASE r = "cancel" -> leave
             [] r = "pause" /\ f \in observers -> Pause(f) /\ UNCHANGED <<server, fds>>
             [] r = "resume" /\ f \in paused -> Unlocked /\ Resume(f) /\ UNCHANGED <<server, fds>>
             [] OTHER -> UNCHANGED <<observers, paused, server, fds>>)
      BY <2>3, Zenon DEF ReqRecv
    <3> HIDE DEF leave
    <3>2. CASE r = "cancel"
      BY <2>1, <3>1, <3>2, Zenon
    <3>3. CASE r = "pause" /\ f \in observers
      BY <2>3, <3>1, <3>3, Zenon
    <3>4. CASE r = "resume" /\ f \in paused
      BY <2>3, <3>1, <3>4, Zenon DEF Unlocked
    <3>5. CASE r # "cancel" /\ ~(r = "pause" /\ f \in observers) /\ ~(r = "resume" /\ f \in paused)
      BY <2>3, <3>1, <3>5, Zenon
    <3> QED
      BY <3>2, <3>3, <3>4, <3>5
  <2> QED
    BY <2>2, <2>3
<1>6. CASE Close({f}) /\ observers' = observers \ {f} /\ paused' = paused \ {f}
  <2>1. Sockets' /\ Accounted' /\ Waiting'
    BY <1>2, <1>4, <1>6, LeaveKeeps
  <2>2. TypeOK'
    BY <1>1, <1>2, <1>3, <1>4, <1>6, CloseEffect DEF TypeOK, history
  <2>3. Threads' /\ NotifierSurvives'
    BY <1>1, <1>2, <1>6 DEF Threads, NotifierSurvives, history
  <2> QED
    BY <2>1, <2>2, <2>3 DEF IndInv
<1>7. CASE /\ stays /\ up[c] # <<>>
           /\ \/ UNCHANGED <<observers, paused>>
              \/ f \in observers /\ Pause(f)
              \/ f \in paused /\ main.pc # "notify" /\ Resume(f)
  <2>1. TypeOK'
    BY <1>1, <1>2, <1>4, <1>7 DEF TypeOK, history, Pause, Resume
  <2>2. Sockets'
    BY <1>1, <1>2, <1>3, <1>4, <1>7 DEF Sockets
  <2>3. Threads' /\ NotifierSurvives'
    BY <1>1, <1>2, <1>7 DEF Threads, NotifierSurvives, history, Pause, Resume
  <2>4. Accounted'
    <3>1. Fresh' = Fresh /\ UNCHANGED <<lost, fds>>
      BY <1>2, <1>7 DEF Fresh, history
    <3>2. CASE UNCHANGED <<observers, paused>>
      BY <1>1, <3>1, <3>2 DEF Accounted
    <3>3. CASE f \in observers /\ Pause(f)
      BY <1>1, <3>1, <3>3 DEF Accounted, Pause
    <3>4. CASE f \in paused /\ Resume(f)
      BY <1>1, <3>1, <3>4 DEF Accounted, Resume
    <3> QED
      BY <1>7, <3>2, <3>3, <3>4
  <2>5. Waiting'
    BY <1>1, <1>2, <1>3, <1>4, <1>7 DEF Waiting, Unanswered, history
  <2> QED
    BY <2>1, <2>2, <2>3, <2>4, <2>5 DEF IndInv
<1> QED
  BY <1>5, <1>6, <1>7

LEMMA NotifySendKeeps ==
  ASSUME IndInv, NotifySend
  PROVE  IndInv'
<1> DEFINE f == Least(main.todo)
           c == fds[f]
<1>1. TypeOK /\ Sockets /\ Threads /\ Accounted /\ Waiting /\ NotifierSurvives
  BY DEF IndInv
<1>2. f \in main.todo
  <2>1. main.todo \in SUBSET Nat /\ main.todo # {}
    BY <1>1, Numbers DEF NotifySend, TypeOK, Main
  <2> QED
    BY <2>1, LeastIn
<1>3. /\ main.pc = "notify" /\ main' = [main EXCEPT !.todo = @ \ {f}]
      /\ IF peer[c] = None
           THEN Forget(observers, f) /\ UNCHANGED <<down, overtaken>>
           ELSE /\ down' = [down EXCEPT ![c] = @ \o Cells(main.n)]
                /\ overtaken' = overtaken \cup IF subT = [pc |-> "respond", fd |-> f]
                                                 THEN {c} ELSE {}
                /\ UNCHANGED <<observers, server, fds>>
      /\ UNCHANGED <<up, peer, paused, subscriptions, cancellations, subT, reqT, obs,
                     requests, garbled, lost, crashed>>
  BY DEF NotifySend
<1> HIDE DEF f
<1>4. f \in Fds /\ f \in observers /\ f \notin paused /\ main.todo \subseteq observers
  BY <1>1, <1>2, <1>3 DEF Threads, TypeOK, Accounted, Main
<1>5. c # None /\ c \in Conns /\ server[c] = "open"
  BY <1>1, <1>4 DEF Accounted, TypeOK, Sockets
<1>6. /\ main' \in Main
      /\ main'.pc = "notify" /\ main'.todo = main.todo \ {f}
  BY <1>1, <1>3 DEF TypeOK, Main
<1>7. CASE peer[c] = None
  <2>1. /\ Close({f}) /\ observers' = observers \ {f} /\ paused' = paused \ {f}
        /\ UNCHANGED <<down, overtaken>>
    BY <1>3, <1>4, <1>7 DEF Forget
  <2>2. Sockets' /\ Accounted' /\ Waiting'
    BY <1>1, <1>3, <1>4, <2>1, LeaveKeeps DEF TypeOK, history
  <2>3. TypeOK'
    BY <1>1, <1>3, <1>4, <1>5, <1>6, <2>1, CloseEffect DEF TypeOK
  <2>4. Threads' /\ NotifierSurvives'
    BY <1>1, <1>3, <1>4, <1>6, <2>1 DEF Threads, NotifierSurvives
  <2> QED
    BY <2>2, <2>3, <2>4 DEF IndInv
<1>8. CASE peer[c] # None
  <2>1. /\ down' = [down EXCEPT ![c] = @ \o Cells(main.n)]
        /\ overtaken' = overtaken \cup IF subT = [pc |-> "respond", fd |-> f] THEN {c} ELSE {}
        /\ UNCHANGED <<observers, server, fds>>
    BY <1>3, <1>8
  <2>2. /\ down' \in [Conns -> Seq(Cell)] /\ \A d \in Conns : d # c => down'[d] = down[d]
    <3>1. down[c] \in Seq(Cell) /\ Cells(main.n) \in Seq(Cell)
      BY <1>1, <1>5, CellsType DEF TypeOK, Main
    <3>2. down[c] \o Cells(main.n) \in Seq(Cell)
      BY <3>1, ConcatProperties
    <3> QED
      BY <1>1, <1>5, <2>1, <3>2 DEF TypeOK
  <2>3. TypeOK'
    BY <1>1, <1>3, <1>5, <1>6, <2>1, <2>2 DEF TypeOK
  <2>4. Sockets'
    BY <1>1, <1>3, <1>5, <2>1, <2>2 DEF Sockets
  <2>5. Threads' /\ NotifierSurvives'
    BY <1>1, <1>3, <1>4, <1>6, <2>1 DEF Threads, NotifierSurvives
  <2>6. Accounted'
    BY <1>1, <1>3, <2>1 DEF Accounted, Fresh
  <2>7. Waiting'
    <3> SUFFICES ASSUME overtaken' = {}, ~crashed, NEW d \in Conns, Unanswered(d)
                 PROVE  /\ peer[d] # None /\ down'[d] = <<>> /\ up[d] = <<>>
                        /\ obs[peer[d]].pc = "response" /\ obs[peer[d]].sock = d
      BY <1>3, <2>1 DEF Waiting, Unanswered
    <3>1. overtaken = {} /\ subT # [pc |-> "respond", fd |-> f]
      BY <2>1
    <3>2. ~(subT.pc = "respond" /\ subT.fd = f)
      BY <1>1, <3>1 DEF TypeOK
    <3>3. ~(subT.pc = "insert" /\ subT.fd = f)
      BY <1>1, <1>4 DEF Accounted, Fresh
    <3>4. d # c
      BY <1>1, <1>4, <1>5, <3>2, <3>3 DEF Unanswered, Accounted, TypeOK
    <3> QED
      BY <1>1, <2>2, <3>1, <3>4 DEF Waiting
  <2> QED
    BY <2>3, <2>4, <2>5, <2>6, <2>7 DEF IndInv
<1> QED
  BY <1>7, <1>8

\* The owner's calls, which leave connections and descriptors alone.
LEMMA OwnerKeeps ==
  ASSUME IndInv,
         SubEnd \/ ReqEnd \/ Notify \/ AcceptSubscriptions \/ RejectSubscriptions \/ RejectJoined
  PROVE  IndInv'
<1>1. TypeOK /\ Sockets /\ Threads /\ Accounted /\ Waiting /\ NotifierSurvives
  BY DEF IndInv
<1> USE DEF conns, history
<1>2. CASE SubEnd
  <2>1. /\ subT.pc = "accept" /\ subT'.pc = "off"
        /\ subT' \in [pc : {"off", "accept", "insert", "respond"}, fd : Fds \cup {None}]
    BY <1>1, <1>2 DEF SubEnd, TypeOK
  <2>2. TypeOK'
    BY <1>1, <1>2, <2>1 DEF SubEnd, TypeOK
  <2>3. Sockets' /\ Threads' /\ NotifierSurvives'
    BY <1>1, <1>2, <2>1 DEF SubEnd, Sockets, Threads, NotifierSurvives
  <2>4. Accounted' /\ Waiting'
    BY <1>1, <1>2, <2>1 DEF SubEnd, Accounted, Fresh, Waiting, Unanswered
  <2> QED
    BY <2>2, <2>3, <2>4 DEF IndInv
<1>3. CASE ReqEnd
  <2>1. TypeOK' /\ Sockets' /\ Threads' /\ NotifierSurvives'
    BY <1>1, <1>3 DEF ReqEnd, TypeOK, Sockets, Threads, NotifierSurvives
  <2>2. Accounted' /\ Waiting'
    BY <1>1, <1>3 DEF ReqEnd, Accounted, Fresh, Waiting, Unanswered
  <2> QED
    BY <2>1, <2>2 DEF IndInv
<1>4. CASE Notify
  <2>1. /\ main.pc = "idle" /\ main'.pc = "notify" /\ main'.todo = observers
        /\ main' \in Main
    <3>1. /\ main.pc = "idle" /\ main \in Main /\ observers \in SUBSET Fds
          /\ main' = [main EXCEPT !.pc = "notify", !.todo = observers, !.n = @ + 1]
      BY <1>1, <1>4 DEF Notify, TypeOK
    <3>2. main.n + 1 \in Nat
      BY <3>1 DEF Main
    <3>3. main' = [pc |-> "notify", todo |-> observers, n |-> main.n + 1, calls |-> main.calls]
      BY <3>1 DEF Main
    <3> QED
      BY <3>1, <3>2, <3>3 DEF Main
  <2>2. TypeOK'
    BY <1>1, <1>4, <2>1 DEF Notify, TypeOK
  <2>3. Sockets' /\ Threads' /\ NotifierSurvives'
    BY <1>1, <1>4, <2>1 DEF Notify, Sockets, Threads, NotifierSurvives
  <2>4. Accounted' /\ Waiting'
    BY <1>1, <1>4 DEF Notify, Accounted, Fresh, Waiting, Unanswered
  <2> QED
    BY <2>2, <2>3, <2>4 DEF IndInv
<1>5. CASE AcceptSubscriptions
  <2>1. main.pc = "idle" /\ subT.pc = "off" /\ subT' = [pc |-> "accept", fd |-> None] /\ subscriptions'
    BY <1>1, <1>5 DEF AcceptSubscriptions, StartSub, Threads
  <2>2. cancellations' \in BOOLEAN /\ reqT' \in {"on", "off"}
    BY <1>1, <1>5 DEF AcceptSubscriptions, StartReq, TypeOK
  <2>2a. subscriptions' \in BOOLEAN /\ subT'.pc = "accept"
        /\ subT' \in [pc : {"off", "accept", "insert", "respond"}, fd : Fds \cup {None}]
    BY <1>5, <2>1 DEF AcceptSubscriptions, StartSub
  <2>2b. TypeOK'
    BY <1>1, <1>5, <2>2, <2>2a DEF AcceptSubscriptions, TypeOK
  <2>3. Sockets' /\ Threads' /\ NotifierSurvives'
    BY <1>1, <1>5, <2>1 DEF AcceptSubscriptions, Sockets, Threads, NotifierSurvives
  <2>4. Accounted' /\ Waiting'
    BY <1>1, <1>5, <2>1 DEF AcceptSubscriptions, Accounted, Fresh, Waiting, Unanswered
  <2> QED
    BY <2>2b, <2>3, <2>4 DEF IndInv
<1>6. CASE RejectSubscriptions
  <2>1. /\ main'.pc = "reject"
        /\ main' \in Main
    BY <1>1, <1>6, CallRecord DEF RejectSubscriptions, TypeOK
  <2>2. TypeOK'
    BY <1>1, <1>6, <2>1 DEF RejectSubscriptions, TypeOK
  <2>3. Sockets' /\ Threads' /\ NotifierSurvives'
    BY <1>1, <1>6, <2>1 DEF RejectSubscriptions, Sockets, Threads, NotifierSurvives
  <2>4. Accounted' /\ Waiting'
    BY <1>1, <1>6 DEF RejectSubscriptions, Accounted, Fresh, Waiting, Unanswered
  <2> QED
    BY <2>2, <2>3, <2>4 DEF IndInv
<1>7. CASE RejectJoined
  <2>1. /\ main'.pc \in {"join", "idle"} /\ subT.pc = "off"
        /\ main' \in Main
    BY <1>1, <1>7 DEF RejectJoined, TypeOK, Main
  <2>2. TypeOK'
    BY <1>1, <1>7, <2>1 DEF RejectJoined, TypeOK
  <2>3. Sockets' /\ Threads' /\ NotifierSurvives'
    BY <1>1, <1>7, <2>1 DEF RejectJoined, Sockets, Threads, NotifierSurvives
  <2>4. Accounted' /\ Waiting'
    BY <1>1, <1>7 DEF RejectJoined, Accounted, Fresh, Waiting, Unanswered
  <2> QED
    BY <2>2, <2>3, <2>4 DEF IndInv
<1> QED
  BY <1>2, <1>3, <1>4, <1>5, <1>6, <1>7

LEMMA ShutdownKeeps ==
  ASSUME IndInv, Shutdown
  PROVE  IndInv'
<1>1. TypeOK /\ Sockets /\ Threads /\ Accounted /\ Waiting /\ NotifierSurvives
  BY DEF IndInv
<1>2. /\ main'.pc = "shutdown"
      /\ main' \in Main
  BY <1>1, CallRecord DEF Shutdown, TypeOK
<1>3. /\ server' \in [Conns -> {"unused", "backlog", "open", "closed"}]
      /\ \A d \in Conns : server'[d] = IF server[d] = "backlog" THEN "closed" ELSE server[d]
  BY <1>1 DEF Shutdown, TypeOK
<1>4. /\ ~subscriptions' /\ ~cancellations'
      /\ UNCHANGED <<up, down, peer, fds, observers, paused, subT, reqT, obs, requests, history>>
  BY DEF Shutdown
<1>5. TypeOK'
  BY <1>1, <1>2, <1>3, <1>4 DEF Shutdown, TypeOK, history
<1>6. Sockets' /\ Threads' /\ NotifierSurvives'
  BY <1>1, <1>2, <1>3, <1>4 DEF Sockets, Threads, NotifierSurvives, TypeOK
<1>7. Accounted' /\ Waiting'
  BY <1>1, <1>3, <1>4 DEF Accounted, Fresh, Waiting, Unanswered, history
<1> QED
  BY <1>5, <1>6, <1>7 DEF IndInv

LEMMA MoveKeeps ==
  ASSUME IndInv, Move
  PROVE  IndInv'
<1>1. TypeOK /\ Sockets /\ Threads /\ Accounted /\ Waiting /\ NotifierSurvives
  BY DEF IndInv
<1>2. /\ main.pc = "idle" /\ main'.pc \in Moves
      /\ subscriptions => main'.pc = "move_both"
      /\ main' \in Main
  <2>1. main.pc = "idle" /\ main \in Main
    BY <1>1 DEF Move, Owner, TypeOK
  <2>2. CASE subscriptions
    <3>1. main' = [main EXCEPT !.pc = "move_both", !.calls = @ + 1]
      BY <2>2 DEF Move
    <3>2. main' \in Main /\ main'.pc = "move_both"
      BY <2>1, <3>1, CallRecord
    <3> QED
      BY <2>1, <2>2, <3>2 DEF Moves
  <2>3. CASE ~subscriptions /\ cancellations
    <3>1. main' = [main EXCEPT !.pc = "move_requests", !.calls = @ + 1]
      BY <2>3 DEF Move
    <3>2. main' \in Main /\ main'.pc = "move_requests"
      BY <2>1, <3>1, CallRecord
    <3> QED
      BY <2>1, <2>3, <3>2 DEF Moves
  <2>4. CASE ~subscriptions /\ ~cancellations
    <3>1. main' = [main EXCEPT !.pc = "move_none", !.calls = @ + 1]
      BY <2>4 DEF Move
    <3>2. main' \in Main /\ main'.pc = "move_none"
      BY <2>1, <3>1, CallRecord
    <3> QED
      BY <2>1, <2>4, <3>2 DEF Moves
  <2> QED
    BY <2>1, <2>2, <2>3, <2>4
<1>3. /\ subscriptions' = FALSE /\ cancellations' = FALSE
      /\ UNCHANGED <<conns, observers, paused, subT, reqT, obs, requests, history>>
  BY DEF Move
<1>4. TypeOK'
  BY <1>1, <1>2, <1>3 DEF TypeOK, conns, history
<1>5. Sockets' /\ Threads' /\ NotifierSurvives'
  BY <1>1, <1>2, <1>3 DEF Sockets, Threads, NotifierSurvives, Moves, conns
<1>6. Accounted' /\ Waiting'
  BY <1>1, <1>3 DEF Accounted, Fresh, Waiting, Unanswered, conns, history
<1> QED
  BY <1>4, <1>5, <1>6 DEF IndInv

LEMMA JoinedKeeps ==
  ASSUME IndInv, Joined
  PROVE  IndInv'
<1>1. TypeOK /\ Sockets /\ Threads /\ Accounted /\ Waiting /\ NotifierSurvives
  BY DEF IndInv
<1>2. /\ main'.pc = (IF main.pc = "shutdown" THEN "gone" ELSE "idle")
      /\ main' \in Main
  BY <1>1 DEF Joined, TypeOK, Main
<1>3. /\ main.pc \in {"notify", "join", "shutdown"} \cup Moves
      /\ main.pc \in {"shutdown"} \cup Moves => subT.pc = "off"
      /\ UNCHANGED <<conns, observers, obs, requests, overtaken, garbled, crashed>>
  BY DEF Joined, Moves
<1>4. CASE main.pc \in Moves
  <2>1. /\ paused' = {} /\ lost' = lost \cup paused
        /\ \/ main.pc = "move_both" /\ subscriptions' = TRUE /\ subT' = [pc |-> "accept", fd |-> None]
           \/ main.pc # "move_both" /\ UNCHANGED <<subscriptions, subT>>
        /\ \/ cancellations' = TRUE /\ reqT' = "on"
           \/ UNCHANGED <<cancellations, reqT>>
    BY <1>4 DEF Joined, StartReq, StartSub
  <2>2. subT.pc = "off" /\ subT'.pc \in {"accept", "off"}
    BY <1>3, <1>4, <2>1
  <2>3. TypeOK'
    <3>1. /\ subT' \in [pc : {"off", "accept", "insert", "respond"}, fd : Fds \cup {None}]
          /\ subscriptions' \in BOOLEAN
      <4>1. CASE main.pc = "move_both" /\ subscriptions' = TRUE /\ subT' = [pc |-> "accept", fd |-> None]
        BY <2>1, <4>1
      <4>2. CASE UNCHANGED <<subscriptions, subT>>
        BY <1>1, <2>1, <4>2 DEF TypeOK
      <4> QED
        BY <2>1, <4>1, <4>2
    <3>2. cancellations' \in BOOLEAN /\ reqT' \in {"on", "off"}
      <4>1. CASE cancellations' = TRUE /\ reqT' = "on"
        BY <4>1
      <4>2. CASE UNCHANGED <<cancellations, reqT>>
        BY <1>1, <4>2 DEF TypeOK
      <4> QED
        BY <2>1, <4>1, <4>2
    <3> QED
      BY <1>1, <1>2, <1>3, <2>1, <2>2, <3>1, <3>2 DEF TypeOK, conns
  <2>4. Sockets' /\ Threads' /\ NotifierSurvives'
    BY <1>1, <1>2, <1>3, <1>4, <2>1, <2>2 DEF Sockets, Threads, NotifierSurvives, Moves, conns
  <2>5. Accounted'
    <3>1. Fresh = {} /\ Fresh' = {}
      BY <2>2 DEF Fresh
    <3> QED
      BY <1>1, <1>3, <2>1, <3>1 DEF Accounted, conns
  <2>6. Waiting'
    BY <1>1, <1>3, <2>2 DEF Waiting, Unanswered, conns
  <2> QED
    BY <2>3, <2>4, <2>5, <2>6 DEF IndInv
<1>5. CASE main.pc \notin Moves
  <2>1. UNCHANGED <<paused, lost, subscriptions, cancellations, subT, reqT>>
    BY <1>5 DEF Joined, Moves
  <2>2. TypeOK'
    BY <1>1, <1>2, <1>3, <2>1 DEF TypeOK, conns
  <2>3. Sockets' /\ Threads' /\ NotifierSurvives'
    BY <1>1, <1>2, <1>3, <1>5, <2>1 DEF Sockets, Threads, NotifierSurvives, Moves, conns
  <2>4. Accounted' /\ Waiting'
    BY <1>1, <1>3, <2>1 DEF Accounted, Fresh, Waiting, Unanswered, conns
  <2> QED
    BY <2>2, <2>3, <2>4 DEF IndInv
<1> QED
  BY <1>4, <1>5

-----------------------------------------------------------------------------
(* The theorems                                                            *)

LEMMA NextHolds == IndInv /\ [Next]_vars => IndInv'
<1> SUFFICES ASSUME IndInv, [Next]_vars PROVE IndInv'
  OBVIOUS
<1>1. CASE UNCHANGED vars
  <2>1. TypeOK' /\ Sockets' /\ Threads'
    BY <1>1 DEF IndInv, TypeOK, Sockets, Threads, vars, conns, notifier, history
  <2>2. Accounted' /\ Waiting' /\ NotifierSurvives'
    BY <1>1 DEF IndInv, Accounted, Fresh, Waiting, Unanswered, NotifierSurvives,
                vars, conns, notifier, history
  <2> QED
    BY <2>1, <2>2 DEF IndInv
<1>2. ASSUME NEW o \in Observers,
             \/ Calls(o) \/ Crash(o) \/ Subscribe(o) \/ PauseOrResume(o)
             \/ Cancel(o, "cancel") \/ Destroy(o) \/ Receive(o)
      PROVE  IndInv'
  BY <1>2, ObserverKeeps DEF ObserverStep
<1>3. CASE SubThread
  BY <1>3, SubAcceptKeeps, SubInsertKeeps, SubRespondKeeps, OwnerKeeps DEF SubThread
<1>4. CASE ReqThread
  BY <1>4, OwnerKeeps, ReqRecvKeeps DEF ReqThread
<1>5. CASE MainCall
  BY <1>5, NotifySendKeeps, OwnerKeeps, JoinedKeeps DEF MainCall
<1>6. CASE Notify \/ AcceptSubscriptions \/ RejectSubscriptions \/ Shutdown \/ Move
  BY <1>6, OwnerKeeps, ShutdownKeeps, MoveKeeps
<1> QED
  BY <1>1, <1>2, <1>3, <1>4, <1>5, <1>6 DEF Next

\* What the other theorems rest on: connections, descriptors, threads and
\* observers' objects stay in step through every interleaving.
THEOREM Invariance == Spec => []IndInv
<1>1. IndInv /\ [Next]_vars => IndInv'
  BY NextHolds
<1> QED
  BY InitHolds, <1>1, PTL DEF Spec

\* However many observers come, cancel, pause, resume, leave or crash while
\* others are notified and the notifier is moved, every open descriptor of
\* _observer_sockets, _paused_observer_sockets, those a move forgot and the one
\* just accepted is in one place only and belongs to one connection.
THEOREM DescriptorsAccountedHolds == Spec => []DescriptorsAccounted
<1>1. IndInv => DescriptorsAccounted
  <2> SUFFICES ASSUME IndInv PROVE DescriptorsAccounted
    OBVIOUS
  <2> DEFINE places == <<observers, paused, lost, Fresh>>
  <2>1. TypeOK /\ Accounted /\ Fresh \subseteq Fds
    BY DEF IndInv, TypeOK, Fresh
  <2>2. {f \in Fds : fds[f] # None} = observers \cup paused \cup lost \cup Fresh
    BY <2>1 DEF Accounted, TypeOK
  <2>3. ASSUME NEW i \in 1 .. 4, NEW j \in 1 .. 4, i # j PROVE places[i] \cap places[j] = {}
    <3>1. (i = 1 \/ i = 2 \/ i = 3 \/ i = 4) /\ (j = 1 \/ j = 2 \/ j = 3 \/ j = 4)
      OBVIOUS
    <3>2. places[1] = observers /\ places[2] = paused /\ places[3] = lost /\ places[4] = Fresh
      OBVIOUS
    <3> HIDE DEF places
    <3> QED
      BY <2>1, <2>3, <3>1, <3>2 DEF Accounted
  <2>4. \A f, g \in Fds : fds[f] = fds[g] /\ fds[f] # None => f = g
    BY <2>1 DEF Accounted
  <2> QED
    BY <2>2, <2>3, <2>4 DEF DescriptorsAccounted, Fresh
<1> QED
  BY Invariance, <1>1, PTL

\* The response that process_subscriptions sends without MSG_NOSIGNAL does not
\* kill the notifier's process unless an observer crashed or a notification
\* overtook a response.
THEOREM NotifierSurvivesHolds == Spec => []NotifierSurvives
<1>1. IndInv => NotifierSurvives
  BY DEF IndInv
<1> QED
  BY Invariance, <1>1, PTL

-----------------------------------------------------------------------------
(* What is under way to an observer                                        *)

\* The cells of s after the first k are notifications later than lo and up to
\* hi, each of them whole and later than the one before it.
Whole(s, k, lo, hi) ==
  /\ \A i \in k + 1 .. Len(s) : lo < s[i].n /\ s[i].n <= hi
  /\ \A i, j \in k + 1 .. Len(s) : i <= j => s[i].n <= s[j].n
  /\ k < Len(s) => s[k + 1].part = 1
  /\ \A i \in k + 1 .. Len(s) : s[i].part = 1 =>
       /\ i + NotificationSize - 1 <= Len(s)
       /\ \A p \in 1 .. NotificationSize : s[i + p - 1].n = s[i].n /\ s[i + p - 1].part = p
  /\ \A i \in k + 1 .. Len(s) - 1 : s[i].part = NotificationSize =>
       s[i + 1].part = 1 /\ s[i].n < s[i + 1].n

\* The latest notification that connection c can carry: the current one only
\* once it has been sent there.
Due(c) == main.pc = "notify" /\ \E f \in main.todo : fds[f] = c
Bound(c) == IF Due(c) THEN main.n - 1 ELSE main.n

\* On a connection where no notification was taken for a reply there are whole
\* notifications, in order and later than the one received last, after the
\* response if that is still to be read.
Stream(o) ==
  LET c == obs[o].sock
  IN  c # None /\ c \notin garbled =>
      /\ obs[o].last <= Bound(c)
      /\ IF obs[o].pc = "response"
         THEN down[c] # <<>> /\ down[c][1] = OK =>
                ~Unanswered(c) /\ Whole(down[c], 1, obs[o].last, Bound(c))
         ELSE ~Unanswered(c) /\ Whole(down[c], 0, obs[o].last, Bound(c))
Streams == \A o \in Observers : Stream(o)

LEMMA CellParts ==
  ASSUME NEW s \in Seq(Cell), NEW i \in 1 .. Len(s)
  PROVE  s[i] \in Cell /\ s[i].n \in Nat /\ s[i].part \in Nat
<1>1. s[i] \in Cell
  BY ElementOfSeq
<1> QED
  BY <1>1 DEF Cell

\* Nothing is made wrong by more notifications to come.
LEMMA WholeMonotone ==
  ASSUME NEW s \in Seq(Cell), NEW k \in Nat, NEW lo \in Nat, NEW hi \in Int, NEW high \in Int,
         hi <= high, Whole(s, k, lo, hi)
  PROVE  Whole(s, k, lo, high)
<1>1. \A i \in k + 1 .. Len(s) : s[i].n \in Nat
  <2>1. \A i \in k + 1 .. Len(s) : i \in 1 .. Len(s)
    BY LenProperties
  <2> QED
    BY <2>1, CellParts
<1>2. \A i \in k + 1 .. Len(s) : lo < s[i].n /\ s[i].n <= high
  BY <1>1 DEF Whole
<1> QED
  BY <1>2 DEF Whole

\* One more notification, later than all before, keeps the stream whole.
LEMMA WholeAppend ==
  ASSUME NEW s \in Seq(Cell), NEW k \in Nat, k <= Len(s), NEW lo \in Nat, NEW m \in Nat, lo < m,
         Whole(s, k, lo, m - 1)
  PROVE  Whole(s \o Cells(m), k, lo, m)
<1> DEFINE K == NotificationSize
           t == s \o Cells(m)
           L == Len(s)
<1>1. K \in Nat \ {0} /\ L \in Nat
  BY SizesAssumption, LenProperties
<1>2. Cells(m) \in Seq(Cell) /\ Len(Cells(m)) = K
      /\ \A p \in 1 .. K : Cells(m)[p].n = m /\ Cells(m)[p].part = p
  BY <1>1, CellsType DEF Cells
<1>a. /\ Len(t) = L + K
      /\ \A i \in 1 .. L + K : t[i] = IF i <= L THEN s[i] ELSE Cells(m)[i - L]
  BY <1>2, ConcatProperties
<1>4. \A i \in 1 .. L : s[i].n \in Nat /\ s[i].part \in Nat
  BY CellParts
<1> HIDE DEF t, K, L
<1>3. Len(t) = L + K /\ \A i \in 1 .. L : t[i] = s[i]
  BY <1>1, <1>a
<1>5. ASSUME NEW i \in L + 1 .. L + K PROVE t[i].n = m /\ t[i].part = i - L
  <2>1. i \in 1 .. L + K /\ ~(i <= L) /\ i - L \in 1 .. K
    BY <1>1
  <2>2. t[i] = Cells(m)[i - L]
    BY <1>a, <2>1
  <2> QED
    BY <1>2, <2>1, <2>2
<1>b. ASSUME NEW p \in 1 .. K PROVE t[L + p].n = m /\ t[L + p].part = p
  <2> DEFINE i == L + p
  <2>1. i \in 1 .. L + K /\ ~(i <= L) /\ i - L = p
    BY <1>1
  <2> HIDE DEF i
  <2>a. t[i] = Cells(m)[i - L]
    BY <1>a, <2>1
  <2>2. t[L + p] = Cells(m)[p]
    BY <2>1, <2>a, Zenon DEF i
  <2> QED
    BY <1>2, <2>2
<1>6. /\ \A i \in k + 1 .. L : lo < s[i].n /\ s[i].n <= m - 1
      /\ \A i, j \in k + 1 .. L : i <= j => s[i].n <= s[j].n
      /\ k < L => s[k + 1].part = 1
      /\ \A i \in k + 1 .. L : s[i].part = 1 =>
           /\ i + K - 1 <= L
           /\ \A p \in 1 .. K : s[i + p - 1].n = s[i].n /\ s[i + p - 1].part = p
      /\ \A i \in k + 1 .. L - 1 : s[i].part = K => s[i + 1].part = 1 /\ s[i].n < s[i + 1].n
  BY DEF Whole, K, L
<1>7. \A i \in k + 1 .. L + K : lo < t[i].n /\ t[i].n <= m
  BY <1>1, <1>3, <1>4, <1>5, <1>6
<1>8. ASSUME NEW i \in k + 1 .. L + K, NEW j \in k + 1 .. L + K, i <= j PROVE t[i].n <= t[j].n
  <2>1. CASE j <= L
    <3>1. i \in k + 1 .. L /\ j \in k + 1 .. L /\ i \in 1 .. L /\ j \in 1 .. L
      BY <1>1, <1>8, <2>1
    <3> QED
      BY <1>3, <1>6, <1>8, <3>1
  <2>2. CASE j > L
    <3>1. t[j].n = m
      BY <1>1, <1>5, <2>2
    <3> QED
      BY <1>7, <3>1
  <2> QED
    BY <1>1, <2>1, <2>2
<1>9. k < L + K => t[k + 1].part = 1
  <2>1. CASE k < L
    <3>1. k + 1 \in 1 .. L
      BY <1>1, <2>1
    <3>2. t[k + 1] = s[k + 1] /\ s[k + 1].part = 1
      BY <1>3, <1>6, <2>1, <3>1
    <3> QED
      BY <3>2
  <2>2. CASE k = L
    <3>1. 1 \in 1 .. K
      BY <1>1
    <3> QED
      BY <1>b, <2>2, <3>1
  <2> QED
    BY <1>1, <2>1, <2>2 DEF L
<1>10. ASSUME NEW i \in k + 1 .. L + K, t[i].part = 1
       PROVE  /\ i + K - 1 <= L + K
              /\ \A p \in 1 .. K : t[i + p - 1].n = t[i].n /\ t[i + p - 1].part = p
  <2>1. CASE i <= L
    <3>1. i \in k + 1 .. L /\ i \in 1 .. L /\ t[i] = s[i]
      BY <1>1, <1>3, <2>1
    <3>2. /\ i + K - 1 <= L
          /\ \A p \in 1 .. K : s[i + p - 1].n = s[i].n /\ s[i + p - 1].part = p
      BY <1>6, <1>10, <3>1
    <3>3. ASSUME NEW p \in 1 .. K PROVE i + p - 1 \in 1 .. L
      <4>1. i \in Int /\ 1 <= i /\ i + K - 1 <= L
        BY <1>1, <3>1, <3>2
      <4> QED
        BY <1>1, <4>1
    <3>4. \A p \in 1 .. K : t[i + p - 1] = s[i + p - 1]
      BY <1>3, <3>3
    <3>5. i + K - 1 <= L + K
      BY <1>1, <3>1
    <3> QED
      BY <3>1, <3>2, <3>4, <3>5
  <2>2. CASE i > L
    <3>1. i = L + 1
      BY <1>1, <1>5, <1>10, <2>2
    <3>2. ASSUME NEW p \in 1 .. K PROVE i + p - 1 = L + p
      BY <1>1, <3>1
    <3>3. t[i].n = m
      BY <1>1, <1>b, <3>1
    <3>4. \A p \in 1 .. K : t[i + p - 1].n = m /\ t[i + p - 1].part = p
      BY <1>b, <3>2
    <3> QED
      BY <1>1, <3>1, <3>3, <3>4
  <2> QED
    BY <1>1, <2>1, <2>2
<1>11. ASSUME NEW i \in k + 1 .. L + K - 1, t[i].part = K
       PROVE  t[i + 1].part = 1 /\ t[i].n < t[i + 1].n
  <2>1. CASE i < L
    <3>1. i \in k + 1 .. L - 1 /\ i \in 1 .. L /\ i + 1 \in 1 .. L
      BY <1>1, <2>1
    <3>2. t[i] = s[i] /\ t[i + 1] = s[i + 1]
      BY <1>3, <3>1
    <3> QED
      BY <1>6, <1>11, <3>1, <3>2
  <2>2. CASE i = L
    <3>a. 1 \in 1 .. K /\ i \in 1 .. L
      BY <1>1, <2>2
    <3>1. t[i + 1].part = 1 /\ t[i + 1].n = m /\ t[i] = s[i]
      BY <1>3, <1>b, <2>2, <3>a
    <3>2. s[i].n <= m - 1 /\ s[i].n \in Nat
      BY <1>1, <1>4, <1>6, <2>2
    <3> QED
      BY <3>1, <3>2
  <2>3. CASE i > L
    <3>1. i \in L + 1 .. L + K /\ i - L # K
      BY <1>1, <2>3
    <3> QED
      BY <1>5, <1>11, <3>1
  <2> QED
    BY <1>1, <2>1, <2>2, <2>3
<1>12. Whole(t, k, lo, m)
  <2>1. Len(t) = L + K
    BY <1>3
  <2>2. \A i \in k + 1 .. Len(t) : lo < t[i].n /\ t[i].n <= m
    BY <1>7, <2>1
  <2>3. \A i, j \in k + 1 .. Len(t) : i <= j => t[i].n <= t[j].n
    BY <1>8, <2>1
  <2>4. k < Len(t) => t[k + 1].part = 1
    BY <1>9, <2>1
  <2>5. \A i \in k + 1 .. Len(t) : t[i].part = 1 =>
          /\ i + K - 1 <= Len(t)
          /\ \A p \in 1 .. K : t[i + p - 1].n = t[i].n /\ t[i + p - 1].part = p
    BY <1>10, <2>1
  <2>6. \A i \in k + 1 .. Len(t) - 1 : t[i].part = K => t[i + 1].part = 1 /\ t[i].n < t[i + 1].n
    <3>1. Len(t) - 1 = L + K - 1
      BY <1>1, <2>1
    <3> QED
      BY <1>11, <3>1, Zenon
  <2> QED
    BY <2>1, <2>2, <2>3, <2>4, <2>5, <2>6, Zenon DEF Whole, K
<1> QED
  BY <1>12 DEF t

\* The cells that are left after k were read.
LEMMA RestCells ==
  ASSUME NEW s \in Seq(Cell), NEW k \in Nat, k <= Len(s)
  PROVE  /\ SubSeq(s, k + 1, Len(s)) \in Seq(Cell)
         /\ Len(SubSeq(s, k + 1, Len(s))) = Len(s) - k
         /\ \A i \in 1 .. Len(s) - k : SubSeq(s, k + 1, Len(s))[i] = s[k + i]
<1>1. \A i \in k + 1 .. Len(s) : s[i] \in Cell
  OBVIOUS
<1>2. /\ SubSeq(s, k + 1, Len(s)) \in Seq(Cell)
      /\ Len(SubSeq(s, k + 1, Len(s))) = IF k + 1 <= Len(s) THEN Len(s) - (k + 1) + 1 ELSE 0
      /\ \A i \in 1 .. Len(s) - (k + 1) + 1 : SubSeq(s, k + 1, Len(s))[i] = s[k + 1 + i - 1]
  BY <1>1, SubSeqProperties
<1> QED
  BY <1>2

\* A read that takes just what precedes the notifications leaves them whole.
LEMMA WholeRest ==
  ASSUME NEW s \in Seq(Cell), NEW k \in Nat, k <= Len(s), NEW lo \in Nat, NEW hi \in Int,
         Whole(s, k, lo, hi)
  PROVE  Whole(SubSeq(s, k + 1, Len(s)), 0, lo, hi)
<1> DEFINE K == NotificationSize
           t == SubSeq(s, k + 1, Len(s))
           L == Len(s)
<1>1. K \in Nat \ {0} /\ L \in Nat
  BY SizesAssumption, LenProperties
<1>2. Len(t) = L - k /\ \A i \in 1 .. L - k : t[i] = s[k + i]
  BY RestCells
<1> HIDE DEF t, K, L
<1>3. /\ \A i \in k + 1 .. L : lo < s[i].n /\ s[i].n <= hi
      /\ \A i, j \in k + 1 .. L : i <= j => s[i].n <= s[j].n
      /\ k < L => s[k + 1].part = 1
      /\ \A i \in k + 1 .. L : s[i].part = 1 =>
           /\ i + K - 1 <= L
           /\ \A p \in 1 .. K : s[i + p - 1].n = s[i].n /\ s[i + p - 1].part = p
      /\ \A i \in k + 1 .. L - 1 : s[i].part = K => s[i + 1].part = 1 /\ s[i].n < s[i + 1].n
  BY DEF Whole, K, L
<1>4. ASSUME NEW i \in 1 .. L - k PROVE lo < t[i].n /\ t[i].n <= hi
  <2>1. k + i \in k + 1 .. L
    BY <1>1
  <2>2. lo < s[k + i].n /\ s[k + i].n <= hi
    BY <1>3, <2>1
  <2> QED
    BY <1>2, <2>2
<1>5. ASSUME NEW i \in 1 .. L - k, NEW j \in 1 .. L - k, i <= j PROVE t[i].n <= t[j].n
  <2>1. k + i \in k + 1 .. L /\ k + j \in k + 1 .. L /\ k + i <= k + j
    BY <1>1, <1>5
  <2> QED
    BY <1>2, <1>3, <2>1
<1>6. 0 < L - k => t[1].part = 1
  BY <1>1, <1>2, <1>3
<1>7. ASSUME NEW i \in 1 .. L - k, t[i].part = 1
      PROVE  /\ i + K - 1 <= L - k
             /\ \A p \in 1 .. K : t[i + p - 1].n = t[i].n /\ t[i + p - 1].part = p
  <2>1. k + i \in k + 1 .. L /\ t[i] = s[k + i]
    BY <1>1, <1>2
  <2>2. /\ k + i + K - 1 <= L
        /\ \A p \in 1 .. K : s[k + i + p - 1].n = s[k + i].n /\ s[k + i + p - 1].part = p
    BY <1>3, <1>7, <2>1
  <2>3. ASSUME NEW p \in 1 .. K PROVE t[i + p - 1] = s[k + i + p - 1]
    <3>1. i + p - 1 \in 1 .. L - k /\ k + (i + p - 1) = k + i + p - 1
      BY <1>1, <2>2
    <3> QED
      BY <1>2, <3>1
  <2>4. i + K - 1 <= L - k
    BY <1>1, <2>2
  <2> QED
    BY <2>1, <2>2, <2>3, <2>4
<1>8. ASSUME NEW i \in 1 .. L - k - 1, t[i].part = K
      PROVE  t[i + 1].part = 1 /\ t[i].n < t[i + 1].n
  <2>1. k + i \in k + 1 .. L - 1 /\ i \in 1 .. L - k /\ i + 1 \in 1 .. L - k /\ k + (i + 1) = k + i + 1
    BY <1>1, SMTT(30)
  <2>2. t[i] = s[k + i] /\ t[i + 1] = s[k + i + 1]
    BY <1>2, <2>1, SMTT(30)
  <2> QED
    BY <1>3, <1>8, <2>1, <2>2
<1>9. Whole(t, 0, lo, hi)
  <2>1. /\ \A i \in 0 + 1 .. Len(t) : i \in 1 .. L - k
        /\ \A i \in 0 + 1 .. Len(t) - 1 : i \in 1 .. L - k - 1
    BY <1>1, <1>2
  <2> QED
    BY <1>2, <1>4, <1>5, <1>6, <1>7, <1>8, <2>1 DEF Whole, K
<1> QED
  BY <1>9 DEF t

\* The first cells of a stream are one notification, and the others are later.
LEMMA WholeFirst ==
  ASSUME NEW s \in Seq(Cell), s # <<>>, NEW lo \in Nat, NEW hi \in Int, Whole(s, 0, lo, hi)
  PROVE  /\ NotificationSize <= Len(s)
         /\ SubSeq(s, 1, NotificationSize) = Cells(s[1].n)
         /\ Head(s) = s[1] /\ s[1].n \in Nat /\ lo < s[1].n /\ s[1].n <= hi
         /\ Whole(s, NotificationSize, s[1].n, hi)
<1> DEFINE K == NotificationSize
           L == Len(s)
           x == s[1].n
<1>1. K \in Nat \ {0} /\ L \in Nat /\ L > 0 /\ Head(s) = s[1]
  BY SizesAssumption, LenProperties, EmptySeq
<1>2. x \in Nat /\ \A i \in 1 .. L : s[i] \in Cell /\ s[i].n \in Nat
  BY <1>1, CellParts
<1> HIDE DEF K, L, x
<1>3. /\ \A i \in 1 .. L : lo < s[i].n /\ s[i].n <= hi
      /\ \A i, j \in 1 .. L : i <= j => s[i].n <= s[j].n
      /\ s[1].part = 1
      /\ \A i \in 1 .. L : s[i].part = 1 =>
           /\ i + K - 1 <= L
           /\ \A p \in 1 .. K : s[i + p - 1].n = s[i].n /\ s[i + p - 1].part = p
      /\ \A i \in 1 .. L - 1 : s[i].part = K => s[i + 1].part = 1 /\ s[i].n < s[i + 1].n
  BY <1>1 DEF Whole, K, L
<1>4. K <= L /\ \A p \in 1 .. K : s[1 + p - 1].n = s[1].n /\ s[1 + p - 1].part = p
  <2>1. 1 \in 1 .. L
    BY <1>1
  <2>2. 1 + K - 1 <= L /\ \A p \in 1 .. K : s[1 + p - 1].n = s[1].n /\ s[1 + p - 1].part = p
    BY <1>3, <2>1
  <2> QED
    BY <1>1, <2>2
<1>5. \A p \in 1 .. K : s[p].n = x /\ s[p].part = p /\ s[p] \in Cell
  BY <1>1, <1>2, <1>4 DEF x
<1>6. SubSeq(s, 1, K) = Cells(x)
  <2>1. \A i \in 1 .. K : s[i] \in Cell
    BY <1>5
  <2>2. /\ SubSeq(s, 1, K) \in Seq(Cell) /\ Len(SubSeq(s, 1, K)) = K
        /\ \A i \in 1 .. K : SubSeq(s, 1, K)[i] = s[i]
    <3>1. /\ SubSeq(s, 1, K) \in Seq(Cell) /\ Len(SubSeq(s, 1, K)) = IF 1 <= K THEN K - 1 + 1 ELSE 0
          /\ \A i \in 1 .. K - 1 + 1 : SubSeq(s, 1, K)[i] = s[1 + i - 1]
      BY <1>1, <2>1, SubSeqProperties
    <3> QED
      BY <1>1, <3>1
  <2>3. Cells(x) \in Seq(Cell) /\ Len(Cells(x)) = K
        /\ \A p \in 1 .. K : Cells(x)[p] = [n |-> x, part |-> p]
    BY <1>1, <1>2, CellsType DEF Cells, K
  <2>4. \A p \in 1 .. K : s[p] = [n |-> x, part |-> p]
    BY <1>5 DEF Cell
  <2>5. \A i \in 1 .. Len(SubSeq(s, 1, K)) : SubSeq(s, 1, K)[i] = Cells(x)[i]
    BY <2>2, <2>3, <2>4
  <2> QED
    BY <2>2, <2>3, <2>5, SeqEqual
<1>7. ASSUME K < L PROVE s[K + 1].part = 1 /\ x < s[K + 1].n
  <2>1. K \in 1 .. L - 1 /\ K \in 1 .. K
    BY <1>1, <1>7
  <2>2. s[K].part = K /\ s[K].n = x
    BY <1>5, <2>1
  <2> QED
    BY <1>3, <2>1, <2>2
<1>8. ASSUME NEW i \in K + 1 .. L PROVE x < s[i].n /\ s[i].n <= hi
  <2>1. K < L /\ K + 1 \in 1 .. L /\ i \in 1 .. L /\ K + 1 <= i
    BY <1>1
  <2>2. s[K + 1].n <= s[i].n /\ s[i].n <= hi /\ x < s[K + 1].n
    BY <1>3, <1>7, <2>1
  <2> QED
    BY <1>2, <2>1, <2>2
<1>9. Whole(s, K, x, hi)
  <2>1. \A i \in K + 1 .. L : i \in 1 .. L
    BY <1>1
  <2>2. \A i \in K + 1 .. L - 1 : i \in 1 .. L - 1
    BY <1>1
  <2> QED
    BY <1>3, <1>7, <1>8, <2>1, <2>2 DEF Whole, K, L
<1>10. lo < x /\ x <= hi
  BY <1>1, <1>3 DEF x
<1> QED
  BY <1>1, <1>2, <1>4, <1>6, <1>9, <1>10 DEF K, L, x

LEMMA BoundType ==
  ASSUME TypeOK, NEW c
  PROVE  Bound(c) \in Int /\ main.n \in Nat /\ (~Due(c) => Bound(c) = main.n)
BY DEF TypeOK, Main, Bound

\* A stream keeps its shape while nothing is read or written there, whatever
\* else happens.
LEMMA StreamKept ==
  ASSUME TypeOK, TypeOK', NEW o \in Observers, NEW c \in Conns, Stream(o),
         obs[o].sock = c, obs'[o].sock = c, obs'[o].last = obs[o].last,
         obs'[o].pc = "response" <=> obs[o].pc = "response",
         garbled \subseteq garbled', down'[c] = down[c],
         Unanswered(c)' => Unanswered(c), Bound(c) <= Bound(c)'
  PROVE  Stream(o)'
<1> SUFFICES ASSUME c \notin garbled' PROVE Stream(o)'
  BY DEF Stream
<1>1. c \notin garbled /\ c # None
  BY Numbers
<1>2. down[c] \in Seq(Cell) /\ obs[o].last \in Nat
  BY DEF TypeOK, Object
<1>3. Bound(c) \in Int /\ Bound(c)' \in Int
  <2>1. Bound(c) \in Int
    BY BoundType
  <2>2. Bound(c)' \in Int
    BY DEF TypeOK, Main, Bound
  <2> QED
    BY <2>1, <2>2
<1>4. obs[o].last <= Bound(c)
  BY <1>1 DEF Stream
<1>5. obs'[o].last <= Bound(c)'
  BY <1>2, <1>3, <1>4
<1>6. CASE obs[o].pc = "response"
  <2>1. down[c] # <<>> /\ down[c][1] = OK => ~Unanswered(c) /\ Whole(down[c], 1, obs[o].last, Bound(c))
    BY <1>1, <1>6 DEF Stream
  <2>2. down[c] # <<>> /\ down[c][1] = OK => ~Unanswered(c)' /\ Whole(down[c], 1, obs[o].last, Bound(c)')
    BY <1>2, <1>3, <2>1, WholeMonotone
  <2> QED
    BY <1>5, <1>6, <2>2 DEF Stream
<1>7. CASE obs[o].pc # "response"
  <2>1. ~Unanswered(c) /\ Whole(down[c], 0, obs[o].last, Bound(c))
    BY <1>1, <1>7 DEF Stream
  <2>2. ~Unanswered(c)' /\ Whole(down[c], 0, obs[o].last, Bound(c)')
    BY <1>2, <1>3, <2>1, WholeMonotone
  <2> QED
    BY <1>5, <1>7, <2>2 DEF Stream
<1> QED
  BY <1>6, <1>7

\* Steps that read and write nothing on the way down.
LEMMA QuietKeeps ==
  ASSUME TypeOK, TypeOK', Streams, UNCHANGED <<down, obs, garbled>>,
         \A c \in Conns : (Unanswered(c)' => Unanswered(c)) /\ Bound(c) <= Bound(c)'
  PROVE  Streams'
<1> SUFFICES ASSUME NEW o \in Observers PROVE Stream(o)'
  BY DEF Streams
<1>1. CASE obs[o].sock = None
  BY <1>1 DEF Stream
<1>2. CASE obs[o].sock # None
  <2>1. obs[o].sock \in Conns /\ Stream(o)
    BY <1>2 DEF TypeOK, Object, Streams
  <2>2. PICK c \in Conns : obs[o].sock = c
    BY <2>1
  <2> QED
    BY <2>1, <2>2, StreamKept
<1> QED
  BY <1>1, <1>2

\* The bound falls on no step that begins no notification and makes none due.
LEMMA BoundKept ==
  ASSUME TypeOK, NEW c \in Conns, main'.n = main.n, Due(c)' => Due(c)
  PROVE  Bound(c) <= Bound(c)'
<1>1. main.n \in Nat
  BY DEF TypeOK, Main
<1> QED
  BY <1>1 DEF Bound

\* Closing a descriptor makes no connection unanswered and no notification due.
LEMMA CloseQuiet ==
  ASSUME TypeOK, NEW f \in Fds, Close({f}), subT' = subT, NEW c \in Conns
  PROVE  /\ Unanswered(c)' => Unanswered(c)
         /\ \A g \in Fds : fds'[g] = c => fds[g] = c
<1>1. /\ \A g \in Fds : fds'[g] = c => fds[g] = c
      /\ server'[c] \in {"closed", server[c]}
  BY Numbers DEF Close, TypeOK
<1> QED
  BY <1>1 DEF Unanswered, TypeOK

LEMMA SubAcceptStreams ==
  ASSUME IndInv, TypeOK', Streams, SubAccept
  PROVE  Streams'
<1> DEFINE waiting == {c \in Conns : server[c] = "backlog"}
           free == {g \in Fds : fds[g] = None}
           w == Least(waiting)
           f == Least(free)
<1>1. TypeOK /\ Sockets /\ Threads /\ Accounted
  BY DEF IndInv
<1>2. w \in waiting
  <2>1. waiting \in SUBSET Nat /\ waiting # {}
    BY Numbers DEF SubAccept
  <2> QED
    BY <2>1, LeastIn
<1>3. w \in Conns /\ server[w] = "backlog"
  BY <1>2
<1>4. f \in free
  <2>1. free \in SUBSET Nat /\ free # {}
    BY <1>1, <1>3, Numbers, FreeDescriptor
  <2> QED
    BY <2>1, LeastIn
<1>5. f \in Fds /\ fds[f] = None
  BY <1>4
<1>6. /\ server' = [server EXCEPT ![w] = "open"] /\ fds' = [fds EXCEPT ![f] = w]
      /\ subT' = [pc |-> "insert", fd |-> f] /\ UNCHANGED <<down, main, obs, garbled>>
  BY DEF SubAccept, history
<1> HIDE DEF w, f
<1>7. ASSUME NEW c \in Conns PROVE Unanswered(c)' => Unanswered(c)
  BY <1>1, <1>3, <1>5, <1>6 DEF Unanswered, TypeOK
<1>8. main.pc = "notify" => main.todo \subseteq Fds /\ f \notin main.todo
  BY <1>1, <1>5 DEF Threads, Accounted, TypeOK, Main
<1>9. ASSUME NEW c \in Conns PROVE Due(c)' => Due(c)
  BY <1>1, <1>5, <1>6, <1>8 DEF Due, TypeOK
<1>10. \A c \in Conns : Bound(c) <= Bound(c)'
  BY <1>1, <1>6, <1>9, BoundKept
<1> QED
  BY <1>1, <1>6, <1>7, <1>10, QuietKeeps

\* The response is written on a connection where the observer waits for it.
LEMMA SubRespondStreams ==
  ASSUME IndInv, TypeOK', Streams, SubRespond
  PROVE  Streams'
<1> DEFINE c == fds[subT.fd]
<1>1. TypeOK /\ Sockets
  BY DEF IndInv
<1>2. subT.fd \in Fds /\ subT.pc = "respond" /\ c \in Conns \cup {None}
  BY <1>1 DEF SubRespond, TypeOK
<1>3. UNCHANGED <<obs, garbled>>
  BY DEF SubRespond
<1>4. CASE c # None /\ peer[c] = None
  <2>1. /\ main' = [main EXCEPT !.pc = "killed"] /\ subT' = [pc |-> "off", fd |-> None]
        /\ server' = [d \in Conns |-> IF server[d] = "unused" THEN server[d] ELSE "closed"]
        /\ UNCHANGED down
    BY <1>4 DEF SubRespond
  <2>2. main'.n = main.n /\ main'.pc = "killed"
    BY <1>1, <2>1 DEF TypeOK, Main
  <2>3. \A d \in Conns : ~Unanswered(d)' /\ ~Due(d)'
    BY <2>1, <2>2 DEF Unanswered, Due
  <2>4. \A d \in Conns : Bound(d) <= Bound(d)'
    BY <1>1, <2>2, <2>3, BoundKept
  <2> QED
    BY <1>1, <1>3, <2>1, <2>3, <2>4, QuietKeeps
<1>5. CASE c = None
  <2>1. /\ subT'.pc \in {"accept", "off"}
        /\ UNCHANGED <<main, server, fds, down>>
    BY <1>5 DEF SubRespond
  <2>2. \A d \in Conns : Unanswered(d)' => Unanswered(d)
    BY <2>1 DEF Unanswered
  <2>3. \A d \in Conns : Bound(d) <= Bound(d)'
    BY <1>1, <2>1, BoundKept DEF Due
  <2> QED
    BY <1>1, <1>3, <2>1, <2>2, <2>3, QuietKeeps
<1>6. CASE c # None /\ peer[c] # None
  <2>a. PICK e \in Conns : e = c
    BY <1>2, <1>6
  <2>1. /\ subT'.pc \in {"accept", "off"} /\ down' = [down EXCEPT ![e] = Append(@, OK)]
        /\ UNCHANGED <<main, server, fds>>
    BY <1>6, <2>a DEF SubRespond
  <2>2. e \in Conns /\ server[e] = "open" /\ Unanswered(e)
    BY <1>1, <1>2, <1>6, <2>a DEF Sockets, Unanswered
  <2>3. /\ down[e] \in Seq(Cell) /\ OK \in Cell /\ down'[e] = Append(down[e], OK)
        /\ \A d \in Conns \ {e} : down'[d] = down[d]
    BY <1>1, <2>1, <2>2 DEF TypeOK, Cell, OK
  <2>4. ~Unanswered(e)' /\ \A d \in Conns : Unanswered(d)' => Unanswered(d)
    BY <2>1, <2>2 DEF Unanswered
  <2>5. \A d \in Conns : Bound(d) <= Bound(d)' /\ Bound(d)' = Bound(d)
    BY <1>1, <2>1, BoundKept DEF Due, Bound
  <2> SUFFICES ASSUME NEW o \in Observers PROVE Stream(o)'
    BY DEF Streams
  <2>6. Stream(o) /\ obs'[o] = obs[o] /\ obs[o].last \in Nat /\ obs[o].sock \in Conns \cup {None}
    BY <1>1, <1>3 DEF Streams, TypeOK, Object
  <2>7. CASE obs[o].sock = None
    BY <2>6, <2>7 DEF Stream
  <2>8. CASE obs[o].sock # None /\ obs[o].sock # e
    <3>1. PICK d \in Conns : obs[o].sock = d /\ d # e
      BY <2>6, <2>8
    <3> QED
      BY <1>1, <1>3, <2>3, <2>4, <2>5, <2>6, <3>1, StreamKept
  <2>9. CASE obs[o].sock = e
    <3> SUFFICES ASSUME e \notin garbled PROVE Stream(o)'
      BY <1>3, <2>6, <2>9 DEF Stream
    <3>1. obs[o].pc = "response" /\ obs[o].last <= Bound(e) /\ ~(down[e] # <<>> /\ down[e][1] = OK)
      BY <2>2, <2>6, <2>9, Numbers DEF Stream
    <3>2. CASE down[e] = <<>>
      <4>1. Len(down'[e]) = 1
        BY <2>3, <3>2, AppendProperties, EmptySeq
      <4>2. Whole(down'[e], 1, obs[o].last, Bound(e)')
        BY <4>1, SizesAssumption DEF Whole
      <4> QED
        BY <1>3, <2>2, <2>4, <2>5, <2>6, <2>9, <3>1, <4>2 DEF Stream
    <3>3. CASE down[e] # <<>>
      <4>1. 1 \in 1 .. Len(down[e])
        BY <2>3, <3>3, LenProperties, EmptySeq
      <4>2. down'[e][1] # OK
        BY <2>3, <3>1, <3>3, <4>1, AppendProperties
      <4> QED
        BY <1>3, <2>2, <2>5, <2>6, <2>9, <3>1, <4>2 DEF Stream
    <3> QED
      BY <3>2, <3>3
  <2> QED
    BY <2>7, <2>8, <2>9
<1> QED
  BY <1>4, <1>5, <1>6

LEMMA ReqRecvStreams ==
  ASSUME IndInv, TypeOK', Streams, NEW f \in Fds, ReqRecv(f)
  PROVE  Streams'
<1>1. TypeOK
  BY DEF IndInv
<1>2. UNCHANGED <<down, subT, main, obs, garbled>>
  BY DEF ReqRecv, history
<1>3. Close({f}) \/ UNCHANGED <<server, fds>>
  <2> DEFINE c == fds[f]
             r == Head(up[c])
             leave == IF f \in observers THEN Forget(observers, f) /\ UNCHANGED paused
                                         ELSE Forget(paused, f) /\ UNCHANGED observers
  <2>1. CASE leave
    BY <2>1 DEF Forget
  <2>2. CASE up[c] = <<>>
    BY <2>1, <2>2 DEF ReqRecv
  <2>3. CASE up[c] # <<>>
    <3>1. (CASE r = "cancel" -> leave
             [] r = "pause" /\ f \in observers -> Pause(f) /\ UNCHANGED <<server, fds>>
             [] r = "resume" /\ f \in paused -> Unlocked /\ Resume(f) /\ UNCHANGED <<server, fds>>
             [] OTHER -> UNCHANGED <<observers, paused, server, fds>>)
      BY <2>3, Zenon DEF ReqRecv
    <3> HIDE DEF leave
    <3>2. leave \/ UNCHANGED <<server, fds>>
      BY <3>1, Zenon
    <3> QED
      BY <2>1, <3>2
  <2> QED
    BY <2>2, <2>3
<1>4. ASSUME NEW c \in Conns
      PROVE  (Unanswered(c)' => Unanswered(c)) /\ (Due(c)' => Due(c))
  <2>1. CASE Close({f})
    BY <1>1, <1>2, <2>1, CloseQuiet DEF Due, TypeOK, Main
  <2>2. CASE UNCHANGED <<server, fds>>
    BY <1>2, <2>2 DEF Due, Unanswered
  <2> QED
    BY <1>3, <2>1, <2>2
<1>5. \A c \in Conns : Bound(c) <= Bound(c)'
  BY <1>1, <1>2, <1>4, BoundKept
<1> QED
  BY <1>1, <1>2, <1>4, <1>5, QuietKeeps

\* A notification is written to the observers that are due, once to each.
LEMMA NotifySendStreams ==
  ASSUME IndInv, TypeOK', Streams, NotifySend
  PROVE  Streams'
<1> DEFINE f == Least(main.todo)
           c == fds[f]
<1>1. TypeOK /\ Sockets /\ Threads /\ Accounted
  BY DEF IndInv
<1>2. f \in main.todo
  <2>1. main.todo \in SUBSET Nat /\ main.todo # {}
    BY <1>1, Numbers DEF NotifySend, TypeOK, Main
  <2> QED
    BY <2>1, LeastIn
<1>3. /\ main.pc = "notify" /\ main' = [main EXCEPT !.todo = @ \ {f}]
      /\ IF peer[c] = None
           THEN Forget(observers, f) /\ UNCHANGED <<down, overtaken>>
           ELSE /\ down' = [down EXCEPT ![c] = @ \o Cells(main.n)]
                /\ UNCHANGED <<observers, server, fds>>
      /\ UNCHANGED <<subT, obs, garbled>>
  BY DEF NotifySend
<1> HIDE DEF f
<1>4. f \in Fds /\ main.todo \subseteq observers /\ main.todo \subseteq Fds
  BY <1>1, <1>2, <1>3 DEF Threads, TypeOK, Main
<1>5. c # None /\ c \in Conns
  BY <1>1, <1>2, <1>4 DEF Accounted, TypeOK
<1>6. main'.pc = "notify" /\ main'.todo = main.todo \ {f} /\ main'.n = main.n /\ main.n \in Nat
  BY <1>1, <1>3 DEF TypeOK, Main
<1>7. CASE peer[c] = None
  <2>1. Close({f}) /\ UNCHANGED down
    BY <1>3, <1>7 DEF Forget
  <2>2. ASSUME NEW d \in Conns
        PROVE  (Unanswered(d)' => Unanswered(d)) /\ (Due(d)' => Due(d))
    BY <1>1, <1>3, <1>4, <1>6, <2>1, CloseQuiet DEF Due
  <2>3. \A d \in Conns : Bound(d) <= Bound(d)'
    BY <1>1, <1>6, <2>2, BoundKept
  <2> QED
    BY <1>1, <1>3, <2>1, <2>2, <2>3, QuietKeeps
<1>8. CASE peer[c] # None
  <2>1. PICK e \in Conns : e = c
    BY <1>5
  <2>2. /\ down' = [down EXCEPT ![e] = @ \o Cells(main.n)] /\ UNCHANGED <<server, fds>>
    BY <1>3, <1>8, <2>1
  <2>3. /\ down[e] \in Seq(Cell) /\ down'[e] = down[e] \o Cells(main.n)
        /\ \A d \in Conns \ {e} : down'[d] = down[d]
    BY <1>1, <2>2 DEF TypeOK
  <2>4. \A d \in Conns : Unanswered(d)' <=> Unanswered(d)
    BY <1>3, <2>2 DEF Unanswered
  <2>5. \A g \in main.todo : fds[g] = e => g = f
    BY <1>1, <1>4, <1>5, <2>1 DEF Accounted
  <2>6. Due(e) /\ ~Due(e)' /\ \A d \in Conns : Due(d)' => Due(d)
    BY <1>2, <1>3, <1>6, <2>1, <2>2, <2>5 DEF Due
  <2>7. Bound(e) = main.n - 1 /\ Bound(e)' = main.n /\ \A d \in Conns : Bound(d) <= Bound(d)'
    <3>1. Bound(e) = main.n - 1 /\ Bound(e)' = main.n
      BY <1>6, <2>6 DEF Bound
    <3> QED
      BY <1>1, <1>6, <2>6, <3>1, BoundKept
  <2> SUFFICES ASSUME NEW o \in Observers PROVE Stream(o)'
    BY DEF Streams
  <2>8. Stream(o) /\ obs'[o] = obs[o] /\ obs[o].last \in Nat /\ obs[o].sock \in Conns \cup {None}
    BY <1>1, <1>3 DEF Streams, TypeOK, Object
  <2>9. CASE obs[o].sock = None
    BY <2>8, <2>9 DEF Stream
  <2>10. CASE obs[o].sock # None /\ obs[o].sock # e
    <3>1. PICK d \in Conns : obs[o].sock = d /\ d # e
      BY <2>8, <2>10
    <3> QED
      BY <1>1, <1>3, <2>3, <2>4, <2>7, <2>8, <3>1, StreamKept
  <2>11. CASE obs[o].sock = e
    <3> SUFFICES ASSUME e \notin garbled PROVE Stream(o)'
      BY <1>3, <2>8, <2>11 DEF Stream
    <3>1. obs[o].last <= main.n - 1 /\ e # None
      BY <2>7, <2>8, <2>11, Numbers DEF Stream
    <3>2. obs[o].last < main.n /\ obs'[o].last <= Bound(e)'
      BY <1>6, <2>7, <2>8, <3>1
    <3>3. CASE obs[o].pc # "response"
      <4>1. ~Unanswered(e) /\ Whole(down[e], 0, obs[o].last, main.n - 1)
        BY <2>7, <2>8, <2>11, <3>1, <3>3 DEF Stream
      <4>2. 0 \in Nat /\ 0 <= Len(down[e])
        BY <2>3, LenProperties
      <4>3. Whole(down'[e], 0, obs[o].last, main.n)
        BY <1>6, <2>3, <2>8, <3>2, <4>1, <4>2, WholeAppend
      <4> QED
        BY <2>4, <2>7, <2>8, <2>11, <3>2, <3>3, <4>1, <4>3 DEF Stream
    <3>4. CASE obs[o].pc = "response" /\ down[e] = <<>>
      <4>1. down'[e][1].part = 1
        <5>a. 1 \in 1 .. NotificationSize
          BY SizesAssumption
        <5>1. Cells(main.n) \in Seq(Cell) /\ Cells(main.n)[1].part = 1
          BY <1>6, <5>a, CellsType DEF Cells
        <5>2. down'[e] = Cells(main.n)
          BY <2>3, <3>4, <5>1, ConcatEmptySeq
        <5> QED
          BY <5>1, <5>2
      <4>2. down'[e][1] # OK
        BY <4>1 DEF OK
      <4> QED
        BY <2>8, <2>11, <3>2, <3>4, <4>2 DEF Stream
    <3>5. CASE obs[o].pc = "response" /\ down[e] # <<>>
      <4>1. 1 \in Nat /\ 1 <= Len(down[e])
        BY <2>3, <3>5, LenProperties, EmptySeq
      <4>2. down'[e][1] = down[e][1]
        <5>1. Cells(main.n) \in Seq(Cell) /\ Len(Cells(main.n)) \in Nat /\ Len(down[e]) \in Nat
          BY <1>6, <2>3, CellsType, LenProperties
        <5>2. 1 \in 1 .. Len(down[e]) + Len(Cells(main.n))
          <6>1. \A a, b \in Nat : 1 <= a => 1 \in 1 .. a + b
            OBVIOUS
          <6> QED
            BY <4>1, <5>1, <6>1, Zenon
        <5> QED
          BY <2>3, <4>1, <5>1, <5>2, ConcatProperties
      <4>3. down[e][1] = OK => ~Unanswered(e) /\ Whole(down[e], 1, obs[o].last, main.n - 1)
        BY <2>7, <2>8, <2>11, <3>1, <3>5 DEF Stream
      <4>4. down[e][1] = OK => Whole(down'[e], 1, obs[o].last, main.n)
        BY <1>6, <2>3, <2>8, <3>2, <4>1, <4>3, WholeAppend
      <4> QED
        BY <2>4, <2>7, <2>8, <2>11, <3>2, <3>5, <4>2, <4>3, <4>4 DEF Stream
    <3> QED
      BY <3>3, <3>4, <3>5
  <2> QED
    BY <2>8, <2>9, <2>10, <2>11
<1> QED
  BY <1>7, <1>8

\* The owner's calls and the ends of threads.
LEMMA OwnerStreams ==
  ASSUME IndInv, TypeOK', Streams,
         \/ SubInsert \/ SubEnd \/ ReqEnd \/ Notify \/ AcceptSubscriptions
         \/ RejectSubscriptions \/ RejectJoined \/ Shutdown \/ Move \/ Joined
  PROVE  Streams'
<1>1. TypeOK /\ main \in Main
  BY DEF IndInv, TypeOK
<1> USE DEF conns, history
<1>2. UNCHANGED <<down, obs, garbled, fds>>
  BY DEF SubInsert, SubEnd, ReqEnd, Notify, AcceptSubscriptions, RejectSubscriptions,
         RejectJoined, Shutdown, Move, Joined
<1>3. ASSUME NEW c \in Conns PROVE Unanswered(c)' => Unanswered(c)
  <2>1. server' = server \/ Shutdown
    BY DEF SubInsert, SubEnd, ReqEnd, Notify, AcceptSubscriptions, RejectSubscriptions,
           RejectJoined, Move, Joined
  <2>2. server'[c] = "backlog" => server[c] = "backlog"
    BY <2>1 DEF Shutdown
  <2>3. subT' = subT \/ subT'.pc \notin {"insert", "respond"}
        \/ (subT.pc = "insert" /\ subT'.fd = subT.fd)
    <3>1. CASE SubInsert
      BY <1>1, <3>1 DEF SubInsert, TypeOK
    <3>2. CASE SubEnd
      BY <1>1, <3>2 DEF SubEnd, TypeOK
    <3>3. CASE AcceptSubscriptions \/ Joined
      BY <3>3 DEF AcceptSubscriptions, Joined, StartSub
    <3>4. CASE ReqEnd \/ Notify \/ RejectSubscriptions \/ RejectJoined \/ Shutdown \/ Move
      BY <3>4 DEF ReqEnd, Notify, RejectSubscriptions, RejectJoined, Shutdown, Move
    <3> QED
      BY <3>1, <3>2, <3>3, <3>4
  <2> QED
    BY <1>2, <2>2, <2>3 DEF Unanswered
<1>4. ASSUME NEW c \in Conns PROVE Bound(c) <= Bound(c)'
  <2>1. CASE Notify
    <3>1. main.pc = "idle" /\ main' = [main EXCEPT !.pc = "notify", !.todo = observers, !.n = @ + 1]
      BY <2>1 DEF Notify
    <3>2. main'.n = main.n + 1 /\ main.n \in Nat
      BY <1>1, <3>1 DEF Main
    <3> QED
      BY <3>1, <3>2 DEF Bound, Due
  <2>2. CASE SubInsert \/ SubEnd \/ ReqEnd \/ AcceptSubscriptions
    BY <1>1, <1>2, <2>2, BoundKept DEF SubInsert, SubEnd, ReqEnd, AcceptSubscriptions, Due
  <2>3. CASE RejectSubscriptions \/ RejectJoined \/ Shutdown \/ Move \/ Joined
    <3>1. main'.n = main.n /\ main'.pc # "notify"
      BY <1>1, <2>3 DEF RejectSubscriptions, RejectJoined, Shutdown, Move, Moves, Joined, Main
    <3> QED
      BY <1>1, <3>1, BoundKept DEF Due
  <2> QED
    BY <2>1, <2>2, <2>3
<1> QED
  BY <1>1, <1>2, <1>3, <1>4, QuietKeeps

\* A read for the response takes it off the stream, or garbles it.
LEMMA ResponseStream ==
  ASSUME IndInv, TypeOK', NEW o \in Observers, Stream(o), Response(o)
  PROVE  Stream(o)'
<1>1. TypeOK /\ Sockets
  BY DEF IndInv
<1>2. obs[o].pc = "response" /\ obs[o].sock # None /\ obs[o].sock \in Conns /\ obs[o].last \in Nat
  BY <1>1 DEF Response, Sockets, TypeOK, Object
<1>3. PICK c \in Conns : c = obs[o].sock /\ c # None
  BY <1>2
<1>4. /\ (down[c] # <<>> /\ down' = [down EXCEPT ![c] = SubSeq(@, 1 + 1, Len(@))])
           \/ (down[c] = <<>> /\ server[c] = "closed" /\ UNCHANGED down)
      /\ garbled' = garbled \cup IF down[c] # <<>> /\ Head(down[c]) # OK THEN {c} ELSE {}
      /\ UNCHANGED <<server, fds, notifier>>
  BY <1>3 DEF Response, Take, EndOfStream
<1>5. obs'[o].sock = c /\ obs'[o].pc = "idle" /\ obs'[o].last = obs[o].last
  <2>1. PICK yes : obs' = [obs EXCEPT ![o].pc = "idle", ![o].subscribed = yes \/ @]
    BY DEF Response
  <2>2. \E b : obs' = [obs EXCEPT ![o].pc = "idle", ![o].subscribed = b]
    <3> WITNESS yes \/ obs[o].subscribed
    <3> QED
      BY <1>1, <2>1, ZenonT(40) DEF TypeOK, Object
  <2>3. PICK b : obs' = [obs EXCEPT ![o].pc = "idle", ![o].subscribed = b]
    BY <2>2
  <2> QED
    BY <1>1, <1>3, <2>3 DEF TypeOK, Object
<1>6. Bound(c)' = Bound(c) /\ (Unanswered(c)' <=> Unanswered(c)) /\ Bound(c) \in Int
  BY <1>1, <1>4, BoundType DEF Bound, Due, Unanswered, notifier
<1> SUFFICES ASSUME c \notin garbled' PROVE Stream(o)'
  BY <1>5 DEF Stream
<1>7. c \notin garbled /\ (down[c] # <<>> => Head(down[c]) = OK) /\ down[c] \in Seq(Cell)
  BY <1>1, <1>4 DEF TypeOK
<1>8. obs[o].last <= Bound(c)
  BY <1>2, <1>3, <1>7 DEF Stream
<1>9. ~Unanswered(c) /\ Whole(down'[c], 0, obs[o].last, Bound(c))
  <2>1. CASE down[c] = <<>>
    <3>1. down'[c] = <<>> /\ server[c] = "closed"
      BY <1>4, <2>1
    <3>2. ~Unanswered(c)
      BY <1>1, <1>3, <3>1 DEF Unanswered, Sockets, TypeOK
    <3>3. Whole(<<>>, 0, obs[o].last, Bound(c))
      BY DEF Whole
    <3> QED
      BY <3>1, <3>2, <3>3
  <2>2. CASE down[c] # <<>>
    <3>1. down[c][1] = OK /\ 1 \in Nat /\ 1 <= Len(down[c])
      BY <1>7, <2>2, LenProperties, EmptySeq
    <3>2. ~Unanswered(c) /\ Whole(down[c], 1, obs[o].last, Bound(c))
      BY <1>2, <1>3, <1>7, <2>2, <3>1 DEF Stream
    <3>3. Whole(SubSeq(down[c], 1 + 1, Len(down[c])), 0, obs[o].last, Bound(c))
      BY <1>2, <1>6, <1>7, <3>1, <3>2, WholeRest
    <3> QED
      BY <1>1, <1>4, <2>2, <3>2, <3>3 DEF TypeOK
  <2> QED
    BY <2>1, <2>2
<1> QED
  BY <1>3, <1>5, <1>6, <1>8, <1>9 DEF Stream

\* A read for the answer to a cancellation takes nothing, or garbles the stream.
LEMMA CancelReplyStream ==
  ASSUME IndInv, TypeOK', NEW o \in Observers, Stream(o), CancelReply(o)
  PROVE  Stream(o)'
<1>1. TypeOK /\ Sockets
  BY DEF IndInv
<1>2. obs[o].pc \in {"cancel", "destroy"} /\ obs[o].sock # None /\ obs[o].sock \in Conns
  BY <1>1 DEF CancelReply, Cancelling, Sockets, TypeOK, Object
<1>3. PICK c \in Conns : c = obs[o].sock /\ c # None
  BY <1>2
<1>4. CASE CloseSocket(o)
  <2>1. obs'[o].sock = None
    BY <1>1, <1>2, <1>4 DEF CloseSocket, Closed, TypeOK, Object
  <2> QED
    BY <2>1 DEF Stream
<1>5. CASE To(o, "idle") /\ down' = [down EXCEPT ![c] = SubSeq(@, ErrorSize + 1, Len(@))]
  <2>1. obs'[o].sock = c /\ obs'[o].pc = "idle" /\ obs'[o].last = obs[o].last
    BY <1>1, <1>3, <1>5 DEF To, TypeOK, Object
  <2>2. CASE down[c] # <<>>
    <3>1. c \in garbled'
      BY <1>3, <2>2 DEF CancelReply, EndOfStream
    <3> QED
      BY <2>1, <3>1 DEF Stream
  <2>3. CASE down[c] = <<>>
    <3>1. down'[c] = down[c]
      <4>1. SubSeq(<<>>, ErrorSize + 1, Len(<<>>)) = <<>>
        BY SizesAssumption, SubSeqEmpty
      <4> QED
        BY <1>1, <1>5, <2>3, <4>1 DEF TypeOK
    <3>2. garbled \subseteq garbled' /\ UNCHANGED <<server, fds, notifier>>
      BY DEF CancelReply
    <3>3. Unanswered(c)' <=> Unanswered(c)
      BY <3>2 DEF Unanswered, notifier
    <3>4. Bound(c) <= Bound(c)'
      BY <1>1, <3>2, BoundKept DEF Due, notifier
    <3> QED
      BY <1>1, <1>2, <1>3, <2>1, <3>1, <3>2, <3>3, <3>4, StreamKept
  <2> QED
    BY <2>2, <2>3
<1> QED
  BY <1>3, <1>4, <1>5 DEF CancelReply

\* What receive() takes is the first notification of the stream.
LEMMA ReceiveStream ==
  ASSUME IndInv, TypeOK', NEW o \in Observers, Stream(o), Receive(o)
  PROVE  /\ Stream(o)'
         /\ Delivers(o) /\ obs[o].sock \notin garbled => WholeAndNewer(o)
<1>1. TypeOK /\ Sockets
  BY DEF IndInv
<1>2. /\ obs[o].pc = "idle" /\ obs[o].sock # None /\ obs[o].sock \in Conns
      /\ obs[o].last \in Nat /\ main.n \in Nat
  BY <1>1 DEF Receive, Connected, TypeOK, Object, Main
<1>3. PICK c \in Conns : c = obs[o].sock /\ c # None
  BY <1>2
<1>4. UNCHANGED <<server, fds, notifier, garbled>>
  BY DEF Receive, history
<1>5. Bound(c)' = Bound(c) /\ (Unanswered(c)' <=> Unanswered(c)) /\ Bound(c) \in Int
  BY <1>1, <1>4, BoundType DEF Bound, Due, Unanswered, notifier
<1>6. CASE down' = down /\ obs' = [obs EXCEPT ![o].timed = TRUE]
  <2>1. obs'[o].sock = c /\ obs'[o].pc = "idle" /\ obs'[o].last = obs[o].last
    BY <1>1, <1>2, <1>3, <1>6 DEF TypeOK, Object
  <2>2. Bound(c) <= Bound(c)'
    BY <1>5
  <2>3. Stream(o)'
    BY <1>1, <1>2, <1>3, <1>4, <1>5, <1>6, <2>1, <2>2, StreamKept
  <2> QED
    BY <1>6, <2>3 DEF Delivers
<1>7. CASE /\ down[c] # <<>> /\ obs' = [obs EXCEPT ![o].last = Head(down[c]).n]
           /\ down' = [down EXCEPT ![c] = SubSeq(@, NotificationSize + 1, Len(@))]
  <2>1. obs'[o].sock = c /\ obs'[o].pc = "idle" /\ obs'[o].last = Head(down[c]).n
    BY <1>1, <1>2, <1>3, <1>7 DEF TypeOK, Object
  <2>2. CASE c \in garbled
    BY <1>3, <1>4, <2>1, <2>2 DEF Stream
  <2>3. CASE c \notin garbled
    <3>1. ~Unanswered(c) /\ Whole(down[c], 0, obs[o].last, Bound(c))
      BY <1>2, <1>3, <2>3 DEF Stream
    <3>2. down[c] \in Seq(Cell) /\ down'[c] = SubSeq(down[c], NotificationSize + 1, Len(down[c]))
      BY <1>1, <1>7 DEF TypeOK
    <3> DEFINE x == down[c][1].n
    <3>3. /\ NotificationSize <= Len(down[c])
          /\ SubSeq(down[c], 1, NotificationSize) = Cells(x)
          /\ Head(down[c]) = down[c][1] /\ x \in Nat /\ obs[o].last < x /\ x <= Bound(c)
          /\ Whole(down[c], NotificationSize, x, Bound(c))
      BY <1>2, <1>5, <1>7, <3>1, <3>2, WholeFirst
    <3> HIDE DEF x
    <3>4. NotificationSize \in Nat
      BY SizesAssumption
    <3>5. Whole(down'[c], 0, x, Bound(c))
      BY <1>5, <3>2, <3>3, <3>4, WholeRest
    <3>6. obs'[o].last = x
      BY <2>1, <3>3 DEF x
    <3>7. Stream(o)'
      BY <1>3, <1>5, <2>1, <3>1, <3>3, <3>5, <3>6 DEF Stream
    <3>8. Bound(c) <= main.n
      BY <1>2 DEF Bound
    <3>9. x \in obs[o].last + 1 .. main.n
      BY <1>2, <1>5, <3>3, <3>8
    <3>10. Len(down[c]) >= NotificationSize
      BY <3>2, <3>3, <3>4, LenProperties
    <3>11. WholeAndNewer(o)
      BY <1>3, <3>3, <3>9, <3>10 DEF WholeAndNewer
    <3> QED
      BY <3>7, <3>11
  <2> QED
    BY <2>2, <2>3
<1> QED
  BY <1>3, <1>6, <1>7 DEF Receive, Take

\* A new connection carries nothing, and is nobody else's.
LEMMA SubscribeStreams ==
  ASSUME IndInv, TypeOK', Streams, NEW o \in Observers, Subscribe(o)
  PROVE  Streams'
<1> DEFINE fresh == {d \in Conns : server[d] = "unused"}
           w == Least(fresh)
<1>1. TypeOK /\ Sockets
  BY DEF IndInv
<1>2. w \in fresh
  <2>1. fresh \in SUBSET Nat /\ fresh # {}
    BY Numbers DEF Subscribe
  <2> QED
    BY <2>1, LeastIn
<1>3. PICK c \in Conns : c = w /\ server[c] = "unused"
  BY <1>2
<1>4. UNCHANGED <<down, fds, notifier, garbled>>
  BY DEF Subscribe, history
<1>5. \/ /\ server' = [server EXCEPT ![c] = "backlog"]
         /\ obs' = [obs EXCEPT ![o] = [@ EXCEPT !.pc = "response", !.sock = c,
                                                !.timed = FALSE, !.last = 0]]
      \/ obs' = [obs EXCEPT ![o].sock = None] /\ UNCHANGED server
  BY <1>3 DEF Subscribe
<1> HIDE DEF w
<1>6. \A p \in Observers \ {o} : obs'[p] = obs[p]
  BY <1>1, <1>5 DEF TypeOK
<1>7. /\ peer[c] = None /\ down[c] = <<>> /\ ~Due(c)
  <2>1. main.todo \subseteq Fds /\ c # None
    BY <1>1, Numbers DEF TypeOK, Main
  <2>2. \A f \in Fds : fds[f] # c
    BY <1>1, <1>3, <2>1 DEF Sockets
  <2> QED
    BY <1>1, <1>3, <2>1, <2>2 DEF Sockets, Due
<1>8. \A d \in Conns \ {c} : Unanswered(d)' => Unanswered(d)
  BY <1>1, <1>4, <1>5 DEF Unanswered, notifier, TypeOK
<1>9. \A d \in Conns : Bound(d)' = Bound(d) /\ Bound(d) <= Bound(d)'
  BY <1>1, <1>4, BoundType DEF Bound, Due, notifier
<1> SUFFICES ASSUME NEW p \in Observers PROVE Stream(p)'
  BY DEF Streams
<1>10. CASE p = o
  <2>1. CASE obs' = [obs EXCEPT ![o].sock = None]
    <3>1. obs'[p].sock = None
      BY <1>1, <1>10, <2>1 DEF TypeOK, Object
    <3> QED
      BY <3>1 DEF Stream
  <2>2. CASE obs' = [obs EXCEPT ![o] = [@ EXCEPT !.pc = "response", !.sock = c,
                                                 !.timed = FALSE, !.last = 0]]
    <3>1. obs'[p].sock = c /\ obs'[p].pc = "response" /\ obs'[p].last = 0
      BY <1>1, <1>10, <2>2 DEF TypeOK, Object
    <3>2. 0 <= Bound(c)'
      BY <1>1, <1>7, <1>9, BoundType
    <3> QED
      BY <1>4, <1>7, <3>1, <3>2 DEF Stream
  <2> QED
    BY <1>5, <2>1, <2>2
<1>11. CASE p # o
  <2>1. obs'[p] = obs[p] /\ obs[p].sock \in Conns \cup {None} /\ Stream(p)
    BY <1>1, <1>6, <1>11 DEF TypeOK, Object, Streams
  <2>2. CASE obs[p].sock = None
    BY <2>1, <2>2 DEF Stream
  <2>3. CASE obs[p].sock # None
    <3>1. PICK d \in Conns : d = obs[p].sock /\ d # c
      BY <1>1, <1>7, <2>1, <2>3, NoneAssumption DEF Sockets
    <3> QED
      BY <1>1, <1>4, <1>8, <1>9, <2>1, <3>1, StreamKept
  <2> QED
    BY <2>2, <2>3
<1> QED
  BY <1>10, <1>11

LEMMA ObserverStreams ==
  ASSUME IndInv, TypeOK', Streams, NEW o \in Observers, ObserverStep(o)
  PROVE  Streams'
<1>1. TypeOK /\ Sockets
  BY DEF IndInv
<1>2. CASE Subscribe(o)
  BY <1>2, SubscribeStreams
<1>3. CASE ~Subscribe(o)
  <2>1. /\ UNCHANGED <<fds, notifier>>
        /\ Ends(o) \/ Writes(o) \/ Reads(o) \/ Closes(o)
    BY <1>1, <1>3, ObserverCases
  <2>2. UNCHANGED server /\ garbled \subseteq garbled'
    BY <2>1 DEF Ends, Writes, Reads, Closes
  <2>3. \A d \in Conns : (Unanswered(d)' => Unanswered(d)) /\ Bound(d) <= Bound(d)'
    BY <1>1, <2>1, <2>2, BoundKept DEF Unanswered, Due, notifier
  <2> SUFFICES ASSUME NEW p \in Observers PROVE Stream(p)'
    BY DEF Streams
  <2>4. Stream(p) /\ obs[p].sock \in Conns \cup {None}
    BY <1>1 DEF Streams, TypeOK, Object
  <2>5. CASE p # o
    <3>1. obs'[p] = obs[p]
      BY <1>1, <2>1, <2>5 DEF Ends, EndProcess, Writes, To, Reads, Closes, CloseSocket, TypeOK
    <3>2. CASE obs[p].sock = None
      BY <3>1, <3>2 DEF Stream
    <3>3. CASE obs[p].sock # None
      <4>1. PICK d \in Conns : d = obs[p].sock /\ peer[d] = p
        BY <1>1, <2>4, <3>3 DEF Sockets
      <4>2. obs[o].sock # None => peer[obs[o].sock] = o
        BY <1>1 DEF Sockets
      <4>3. d # obs[o].sock /\ peer[d] # o
        BY <2>5, <4>1, <4>2, Numbers
      <4>4. down'[d] = down[d]
        BY <1>1, <2>1, <4>3 DEF Ends, EndProcess, Writes, Reads, Closes, CloseSocket, CloseEnds, TypeOK
      <4> QED
        BY <1>1, <2>2, <2>3, <2>4, <3>1, <4>1, <4>4, StreamKept
    <3> QED
      BY <3>2, <3>3
  <2>6. CASE p = o
    <3>1. CASE Ends(o) \/ Closes(o)
      <4>1. obs'[o].sock = None
        <5>1. CASE Ends(o)
          BY <1>1, <5>1 DEF Ends, EndProcess, Closed, TypeOK
        <5>2. CASE Closes(o)
          <6>1. obs'[o] = IF obs[o].pc = "cancel"
                            THEN [obs[o] EXCEPT !.pc = "idle", !.sock = None] ELSE Closed
            BY <1>1, <5>2 DEF Closes, CloseSocket, TypeOK
          <6>2. obs[o] \in Object
            BY <1>1 DEF TypeOK
          <6> QED
            BY <6>1, <6>2 DEF Closed, Object
        <5> QED
          BY <3>1, <5>1, <5>2
      <4> QED
        BY <2>6, <4>1 DEF Stream
    <3>2. CASE Writes(o)
      <4>1. PICK next \in {"idle", "cancel", "destroy"} : obs' = [obs EXCEPT ![o].pc = next]
        BY <3>2 DEF Writes, To
      <4>2. /\ obs'[o].sock = obs[o].sock /\ obs'[o].last = obs[o].last /\ obs'[o].pc = next
            /\ obs[o].pc = "idle" /\ obs[o].sock # None /\ UNCHANGED down
        BY <1>1, <3>2, <4>1 DEF Writes, TypeOK, Object
      <4>3. PICK d \in Conns : d = obs[o].sock
        BY <2>4, <2>6, <4>2
      <4> QED
        BY <1>1, <2>2, <2>3, <2>4, <2>6, <4>1, <4>2, <4>3, StreamKept
    <3>3. CASE Response(o) \/ CancelReply(o) \/ Receive(o)
      BY <2>4, <2>6, <3>3, ResponseStream, CancelReplyStream, ReceiveStream
    <3>4. CASE ~(Response(o) \/ CancelReply(o) \/ Receive(o))
      <4>1. Crash(o) \/ PauseOrResume(o) \/ Cancel(o, "cancel") \/ Destroy(o)
        BY <1>3, <3>4 DEF ObserverStep, Calls
      <4>2. Ends(o) \/ Writes(o) \/ Closes(o)
        <5>1. CASE Crash(o)
          BY <5>1 DEF Crash, Ends
        <5>2. CASE PauseOrResume(o)
          BY <1>1, <5>2, SendCases DEF PauseOrResume, Requests
        <5>3. CASE Cancel(o, "cancel") \/ Cancel(o, "destroy")
          BY <1>1, <5>3, SendCases DEF Cancel, Requests
        <5>4. CASE Destroy(o) /\ ~Cancel(o, "destroy")
          BY <5>4 DEF Destroy, Closes, history
        <5> QED
          BY <4>1, <5>1, <5>2, <5>3, <5>4
      <4> QED
        BY <3>1, <3>2, <4>2
    <3> QED
      BY <3>3, <3>4
  <2> QED
    BY <2>5, <2>6
<1> QED
  BY <1>2, <1>3

LEMMA StreamsNext == IndInv /\ Streams /\ [Next]_vars => Streams'
<1> SUFFICES ASSUME IndInv, Streams, [Next]_vars PROVE Streams'
  OBVIOUS
<1>1. TypeOK'
  BY NextHolds DEF IndInv
<1>2. CASE UNCHANGED vars
  BY <1>2 DEF Streams, Stream, Bound, Due, Unanswered, vars, conns, notifier, history
<1>3. ASSUME NEW o \in Observers,
             \/ Calls(o) \/ Crash(o) \/ Subscribe(o) \/ PauseOrResume(o)
             \/ Cancel(o, "cancel") \/ Destroy(o) \/ Receive(o)
      PROVE  Streams'
  BY <1>1, <1>3, ObserverStreams DEF ObserverStep
<1>4. CASE SubThread
  BY <1>1, <1>4, SubAcceptStreams, SubRespondStreams, OwnerStreams DEF SubThread
<1>5. CASE ReqThread
  BY <1>1, <1>5, OwnerStreams, ReqRecvStreams DEF ReqThread
<1>6. CASE MainCall
  BY <1>1, <1>6, NotifySendStreams, OwnerStreams DEF MainCall
<1>7. CASE Notify \/ AcceptSubscriptions \/ RejectSubscriptions \/ Shutdown \/ Move
  BY <1>1, <1>7, OwnerStreams
<1> QED
  BY <1>2, <1>3, <1>4, <1>5, <1>6, <1>7 DEF Next

\* However notifications, responses, requests and moves interleave, receive()
\* hands whole notifications to the callback, each newer than the last, as long
\* as no read for a reply took one: notify_observers' sends are never torn by
\* the response that process_subscriptions writes on the same socket.
THEOREM InOrderHolds == Spec => InOrder
<1>1. Init => Streams
  BY DEF Init, Streams, Stream, Closed
<1>2. IndInv /\ Streams /\ [Next]_vars => Streams'
  BY StreamsNext
<1>3. IndInv /\ IndInv' /\ Streams =>
        [\A o \in Observers : Delivers(o) /\ obs[o].sock \notin garbled => WholeAndNewer(o)]_vars
  <2> SUFFICES ASSUME IndInv, IndInv', Streams, NEW o \in Observers,
                      Delivers(o), obs[o].sock \notin garbled
               PROVE  WholeAndNewer(o)
    OBVIOUS
  <2>1. Receive(o) /\ Stream(o) /\ TypeOK'
    BY DEF Delivers, Streams, IndInv
  <2> QED
    BY <2>1, ReceiveStream
<1> QED
  BY Invariance, <1>1, <1>2, <1>3, PTL DEF Spec, InOrder
=============================================================================
