----------------------------- MODULE ClientLink -----------------------------
(***************************************************************************)
(* One tester's tab and what the server believes of it: the hub's sockets  *)
(* (realtime/hub.ts), the core's handlers for a client (core.ts), two HTTP *)
(* routes (api/routes.ts) and the tab's state machine (connection.ts).     *)
(*                                                                         *)
(* The handlers await Redis in chains.  All their commands travel over one *)
(* connection, which executes and answers them in the order they were      *)
(* issued: `pipe' is that order, its head is the command executed next,    *)
(* and the continuation of a handler issues its next command at the tail.  *)
(* Commands of timers and of other clients take effect at any moment.  HTTP *)
(* requests travel on connections of their own: they overtake what is sent  *)
(* over sockets and are overtaken, and a fetch may fail at any point.       *)
(***************************************************************************)
EXTENDS Integers, Sequences, SequencesExt

CONSTANTS
    None,
    MaxRequests,   \* bound: requests the tester makes; a session has the number of its request
    MaxSockets,    \* bound: connections the tab opens, one after the other
    MaxEvents      \* bound: events of the tester, the network and the rest of the server

ASSUME LinkBoundsAssumption ==
    /\ MaxRequests \in Nat \ {0} /\ MaxSockets \in Nat \ {0} /\ MaxEvents \in Nat \ {0}

VARIABLES
    srv,      \* the client in Redis: no request, or its request or session
    loaded,   \* this process has markDisconnected's script in Redis
    pipe,     \* commands issued to Redis and not answered
    rt,       \* the session with a runtime; streams that are being started and stopped
    link,     \* the sockets: the tab's end, the hub's, and what is under way
    tab,      \* the tab's state (LabState), its socket and its heartbeat timer
    http,     \* POST and DELETE: one that has not arrived yet, and the answer the tab awaits
    seen,     \* history: the newest state the tab has been told, and if it was the last one
    left      \* what is left of MaxEvents

linkVars == <<srv, loaded, pipe, rt, link, tab, http, seen, left>>

-----------------------------------------------------------------------------

Ids == 0 .. MaxRequests
SocketIds == 1 .. MaxSockets
Held == {"reserved", "active", "away"}
Phases == {"idle", "waiting", "reserved", "active", "ended"}
Versions == Nat
Views == [is : Phases, id : Ids, ver : Versions]

ASSUME LinkNoneAssumption == None \notin Views

\* What a message or an answer says of the client, and the version that was true of.
View(v, is) == [is |-> is, id |-> v.id, ver |-> v.ver]

\* An HTTP answer that is awaited.
Awaited == [is |-> "awaited", id |-> 0, ver |-> 0]

NoRequest == [sent |-> FALSE, post |-> None, cancel |-> 0, del |-> None]
Unused == [open |-> FALSE, hub |-> FALSE, down |-> <<>>, up |-> <<>>]
FreshTab(n) == [phase |-> "idle", req |-> 0, ses |-> 0, beat |-> 0, sock |-> n]

\* The page is loaded and about to connect; that the process has been started since its
\* last disconnection counts as an event.
LinkInit ==
    /\ srv = [state |-> "idle", id |-> 0, ver |-> 0, late |-> FALSE, lapsed |-> FALSE, quit |-> FALSE]
    /\ loaded \in BOOLEAN
    /\ pipe = <<>>
    /\ rt = [id |-> 0, starts |-> {}, stops |-> {}]
    /\ link = [s \in SocketIds |-> Unused]
    /\ tab = FreshTab(0)
    /\ http = NoRequest
    /\ seen = [ver |-> 0, last |-> TRUE]
    /\ left = IF loaded THEN MaxEvents ELSE MaxEvents - 1

-----------------------------------------------------------------------------
(* Redis, and the steps of the handlers between its answers. *)

\* A command: its handler's socket (0: an HTTP or WebSocket request), its argument
\* and what the handler has read.
Cmd(op, by, arg, view) == [op |-> op, by |-> by, arg |-> arg, view |-> view]

Issue(op, by, arg) == Cmd(op, by, arg, None)

Becomes(is) ==
    [srv EXCEPT !.state = is, !.ver = @ + 1, !.late = FALSE, !.lapsed = FALSE, !.quit = FALSE]

\* Mutated form of Sent: to the sockets of the hub's set, open or not.
SentToSet(socks, how, view) ==
    [s \in SocketIds |->
        IF s \in socks /\ link[s].hub
          THEN [link[s] EXCEPT !.down = Append(@, [how |-> how, view |-> view])]
          ELSE link[s]]

\* send: to every open socket of the client; what is sent is an event, or the hello.
Sent(socks, how, view) ==
    [s \in SocketIds |->
        IF s \in socks /\ link[s].hub /\ link[s].open
          THEN [link[s] EXCEPT !.down = Append(@, [how |-> how, view |-> view])]
          ELSE link[s]]

Told(view) == link' = Sent(SocketIds, "event", view)

\* terminateSession: the tab is told when the runtime, if there is one, is stopped.
Terminates(id) ==
    LET v == Becomes("idle") IN
    IF id # srv.id \/ srv.state \notin Held THEN UNCHANGED <<srv, rt, link>>
    ELSE /\ srv' = v
         /\ IF rt.id = id
              THEN rt' = [rt EXCEPT !.id = 0, !.stops = @ \cup {View(v, "ended")}] /\ UNCHANGED link
              ELSE Told(View(v, "ended")) /\ UNCHANGED rt

\* claimInternal and reconnect; activateRuntime tells the tab at once when there is a
\* runtime, or starts the stream, and the handler awaits that.
Resumes(o, from) ==
    LET ok == o.arg = srv.id /\ (srv.state = "active" \/ (srv.state = from /\ ~srv.late))
        v == IF srv.state = "active" THEN srv ELSE Becomes("active")
        on == IF o.by = 0 THEN <<>> ELSE <<Issue("state", o.by, 0)>> IN
    /\ IF ok THEN srv' = v ELSE UNCHANGED srv
    /\ IF ok /\ rt.id = o.arg THEN Told(View(v, "active")) ELSE UNCHANGED link
    /\ IF ok /\ rt.id # o.arg
         THEN /\ rt' = [rt EXCEPT !.id = o.arg, !.starts = @ \cup {[by |-> o.by, view |-> View(v, "active")]}]
              /\ pipe' = Tail(pipe)
         ELSE UNCHANGED rt /\ pipe' = Tail(pipe) \o on
    /\ UNCHANGED <<loaded, http>>

\* clientConnected: what the tab left is resumed first.
Connected(o) ==
    /\ pipe' = Append(Tail(pipe), IF srv.state \in Held THEN Issue("session", o.by, srv.id)
                                                      ELSE Issue("state", o.by, 0))
    /\ UNCHANGED <<srv, loaded, rt, link, http>>

\* Mutated form of SessionRead: a reservation is only reported.
SessionReadOnly(o) ==
    /\ pipe' = Append(Tail(pipe), CASE o.arg = srv.id /\ srv.state = "away" -> Issue("reconnect", o.by, o.arg)
                                    [] OTHER -> Issue("state", o.by, 0))
    /\ UNCHANGED <<srv, loaded, rt, link, http>>

SessionRead(o) ==
    /\ pipe' = Append(Tail(pipe), CASE o.arg = srv.id /\ srv.state = "away" -> Issue("reconnect", o.by, o.arg)
                                    [] o.arg = srv.id /\ srv.state = "reserved" -> Issue("claim", o.by, o.arg)
                                    [] OTHER -> Issue("state", o.by, 0))
    /\ UNCHANGED <<srv, loaded, rt, link, http>>

\* The end of getStateByClientId: the POST is answered (the tab only looks at WAITING),
\* the hello awaits poolStatus.
Answer(o, view) ==
    /\ IF o.by = 0 /\ http.post = Awaited
         THEN http' = [http EXCEPT !.post = IF view.is = "waiting" THEN view ELSE None]
         ELSE UNCHANGED http
    /\ pipe' = Tail(pipe) \o (IF o.by = 0 THEN <<>> ELSE <<Cmd("pool", o.by, 0, view)>>)

\* getStateByClientId: the client's session, else its request.
StateRead(o) ==
    /\ pipe' = Append(Tail(pipe), IF srv.state \in Held THEN Cmd("held", o.by, srv.id, View(srv, "idle"))
                                                      ELSE Cmd("request", o.by, 0, View(srv, "idle")))
    /\ UNCHANGED <<srv, loaded, rt, link, http>>

\* A session that is not reserved is reported with its device.
HeldRead(o) ==
    /\ IF o.arg = srv.id /\ srv.state = "reserved"
         THEN Answer(o, View(srv, "reserved"))
         ELSE /\ pipe' = Append(Tail(pipe), IF o.arg = srv.id /\ srv.state \in Held
                                              THEN Cmd("device", o.by, 0, View(srv, "active"))
                                              ELSE Cmd("request", o.by, 0, o.view))
              /\ UNCHANGED http
    /\ UNCHANGED <<srv, loaded, rt, link>>

DeviceRead(o) ==
    /\ Answer(o, o.view)
    /\ UNCHANGED <<srv, loaded, rt, link>>

RequestRead(o) ==
    /\ Answer(o, IF srv.state = "waiting" THEN View(srv, "waiting") ELSE o.view)
    /\ UNCHANGED <<srv, loaded, rt, link>>

\* poolStatus, as one round trip; then the hello, if the socket is still open.
PoolRead(o) ==
    /\ link' = Sent({o.by}, "hello", o.view)
    /\ pipe' = Tail(pipe)
    /\ UNCHANGED <<srv, loaded, rt, http>>

\* clientDisconnected; the script is loaded before its first use (LabStore.run).
DisconnectedRead(o) ==
    /\ pipe' = Tail(pipe) \o
               (IF srv.state \in Held THEN <<Issue(IF loaded THEN "mark" ELSE "load", 0, srv.id)>> ELSE <<>>)
    /\ UNCHANGED <<srv, loaded, rt, link, http>>

Loads(o) ==
    /\ pipe' = Append(Tail(pipe), Issue("firstmark", 0, o.arg))
    /\ loaded' = TRUE
    /\ UNCHANGED <<srv, rt, link, http>>

\* Mutated form of Marks: the session may have ended since it was read.
MarksAny(o) ==
    /\ pipe' = Tail(pipe)
    /\ IF o.arg = srv.id
         THEN srv' = [Becomes("away") EXCEPT !.lapsed = o.op = "firstmark"]
         ELSE UNCHANGED srv
    /\ UNCHANGED <<loaded, rt, link, http>>

\* markDisconnected; history: that it was the first of its process.
Marks(o) ==
    /\ pipe' = Tail(pipe)
    /\ IF o.arg = srv.id /\ srv.state = "active"
         THEN srv' = [Becomes("away") EXCEPT !.lapsed = o.op = "firstmark"]
         ELSE UNCHANGED srv
    /\ UNCHANGED <<loaded, rt, link, http>>

\* endSession reads the session, which is the client's own, and then terminates it.
EndRead(o) ==
    /\ pipe' = Append(Tail(pipe), Issue("terminate", 0, o.arg))
    /\ UNCHANGED <<srv, loaded, rt, link, http>>

Ends(o) ==
    /\ Terminates(o.arg)
    /\ pipe' = Tail(pipe)
    /\ UNCHANGED <<loaded, http>>

\* Mutated form of Joins: nothing is broadcast.
JoinsSilently(o) ==
    /\ IF srv.state = "idle" /\ srv.id < MaxRequests
         THEN srv' = [Becomes("waiting") EXCEPT !.id = @ + 1]
         ELSE UNCHANGED srv
    /\ pipe' = Append(Tail(pipe), Issue("state", 0, 0))
    /\ UNCHANGED <<loaded, rt, link, http>>

\* createRequest: a client that has a request or a session keeps it.
Joins(o) ==
    /\ IF srv.state = "idle" /\ srv.id < MaxRequests
         THEN /\ srv' = [Becomes("waiting") EXCEPT !.id = @ + 1]
              /\ pipe' = Tail(pipe) \o <<Issue("broadcast", 0, 0), Issue("state", 0, 0)>>
         ELSE UNCHANGED srv /\ pipe' = Append(Tail(pipe), Issue("state", 0, 0))
    /\ UNCHANGED <<loaded, rt, link, http>>

\* broadcastQueueAndPool, as far as this client's entry is concerned.
Broadcasts(o) ==
    /\ IF srv.state = "waiting" THEN Told(View(srv, "waiting")) ELSE UNCHANGED link
    /\ pipe' = Tail(pipe)
    /\ UNCHANGED <<srv, loaded, rt, http>>

\* cancelRequest.  Only the answer to the DELETE tells of it (history: quit); a refusal
\* tells nothing (version 0).
Cancels(o) ==
    LET ok == o.arg = srv.id /\ srv.state = "waiting"
        v == IF ok THEN View(Becomes("idle"), "idle") ELSE [is |-> "idle", id |-> 0, ver |-> 0] IN
    /\ IF ok THEN srv' = [Becomes("idle") EXCEPT !.quit = TRUE] ELSE UNCHANGED srv
    /\ IF http.del = Awaited THEN http' = [http EXCEPT !.del = v] ELSE UNCHANGED http
    /\ pipe' = Tail(pipe)
    /\ UNCHANGED <<loaded, rt, link>>

RedisAnswers ==
    /\ pipe # <<>>
    /\ LET o == Head(pipe) IN
         \/ o.op = "connected" /\ Connected(o)
         \/ o.op = "session" /\ SessionRead(o)
         \/ o.op = "reconnect" /\ Resumes(o, "away")
         \/ o.op = "claim" /\ Resumes(o, "reserved")
         \/ o.op = "state" /\ StateRead(o)
         \/ o.op = "held" /\ HeldRead(o)
         \/ o.op = "device" /\ DeviceRead(o)
         \/ o.op = "request" /\ RequestRead(o)
         \/ o.op = "pool" /\ PoolRead(o)
         \/ o.op = "disconnected" /\ DisconnectedRead(o)
         \/ o.op = "load" /\ Loads(o)
         \/ o.op \in {"mark", "firstmark"} /\ Marks(o)
         \/ o.op = "end" /\ EndRead(o)
         \/ o.op = "terminate" /\ Ends(o)
         \/ o.op = "join" /\ Joins(o)
         \/ o.op = "broadcast" /\ Broadcasts(o)
         \/ o.op = "cancel" /\ Cancels(o)
    /\ UNCHANGED <<tab, seen, left>>

-----------------------------------------------------------------------------
(* The rest of the server. *)

Open == tab.sock # 0 /\ link[tab.sock].open

\* Deadlines are seconds: Redis has answered and messages have arrived before one passes.
Settled == pipe = <<>> /\ \A s \in SocketIds : link[s].up = <<>> /\ link[s].down = <<>>

\* The tab sends heartbeats for the client's session.
Beats == Open /\ tab.beat = srv.id

\* One of the MaxEvents: everything but Redis' answers, deliveries, deadlines and the
\* tester's requests for a device.
Happens == left > 0 /\ left' = left - 1

\* The pump reserves a device for the client.
Allocates ==
    /\ srv.state = "waiting"
    /\ srv' = Becomes("reserved")
    /\ Told(View(srv', "reserved"))
    /\ UNCHANGED <<loaded, pipe, rt, tab, http, seen, left>>

\* A change of another client's request is broadcast (bound: one at a time).
OthersMove ==
    /\ srv.state = "waiting"
    /\ \A s \in SocketIds : \A i \in DOMAIN link[s].down : link[s].down[i].view.is # "waiting"
    /\ Told(View(srv, "waiting"))
    /\ Happens
    /\ UNCHANGED <<srv, loaded, pipe, rt, tab, http, seen>>

\* The claim or reconnect deadline passes.
TimePasses ==
    /\ srv.state \in {"reserved", "away"} /\ ~srv.late /\ Settled
    /\ srv' = [srv EXCEPT !.late = TRUE]
    /\ UNCHANGED <<loaded, pipe, rt, link, tab, http, seen, left>>

\* The reaper, past a deadline; or before it the health loop or a stream that exits, and
\* the session limit.
ServerEnds ==
    /\ srv.state \in Held
    /\ Terminates(srv.id)
    /\ IF srv.late THEN UNCHANGED left ELSE Happens
    /\ UNCHANGED <<loaded, pipe, tab, http, seen>>

\* Mutated form of Suspends: only the hub notices that a tab is gone.
SuspendsNever == FALSE /\ UNCHANGED linkVars

\* The reaper: no heartbeat for heartbeatTimeoutMs, because none is sent or because
\* they are delayed.  A later heartbeat does not undo it.
Suspends ==
    /\ srv.state = "active" /\ Settled
    /\ srv' = [Becomes("away") EXCEPT !.lapsed = \E s \in SocketIds : link[s].hub]
    /\ IF Beats THEN Happens ELSE UNCHANGED left
    /\ UNCHANGED <<loaded, pipe, rt, link, tab, http, seen>>

\* startStream ends, maybe in vain: then the session is terminated, but first the tab
\* is told that it is active.
StreamStarted(x) ==
    /\ x \in rt.starts
    /\ rt' = [rt EXCEPT !.starts = @ \ {x}]
    /\ Told(x.view)
    /\ \E failed \in BOOLEAN :
         /\ IF failed THEN Happens ELSE UNCHANGED left
         /\ pipe' = pipe \o (IF failed THEN <<Issue("terminate", 0, x.view.id)>> ELSE <<>>)
                         \o (IF x.by = 0 THEN <<>> ELSE <<Issue("state", x.by, 0)>>)
    /\ UNCHANGED <<srv, loaded, tab, http, seen>>

\* stopRuntime ends, and the tab is told.
StreamStopped(x) ==
    /\ x \in rt.stops
    /\ rt' = [rt EXCEPT !.stops = @ \ {x}]
    /\ Told(x)
    /\ UNCHANGED <<srv, loaded, pipe, tab, http, seen, left>>

-----------------------------------------------------------------------------
(* The hub and the tab. *)

\* onMessage
HubReceives(s) ==
    /\ link[s].hub /\ link[s].up # <<>>
    /\ pipe' = Append(pipe, Issue(Head(link[s].up).msg, 0, Head(link[s].up).id))
    /\ link' = [link EXCEPT ![s].up = Tail(@)]
    /\ UNCHANGED <<srv, loaded, rt, tab, http, seen, left>>

\* onClose, some time after the tab has closed its end.
HubCloses(s) ==
    /\ link[s].hub /\ ~link[s].open /\ link[s].up = <<>>
    /\ link' = [link EXCEPT ![s].hub = FALSE]
    /\ pipe' = pipe \o (IF \E x \in SocketIds \ {s} : link[x].hub THEN <<>>
                        ELSE <<Issue("disconnected", 0, 0)>>)
    /\ UNCHANGED <<srv, loaded, rt, tab, http, seen, left>>

\* connect and register: the socket is in the hub's set before anything is awaited.
Connects ==
    /\ ~Open /\ tab.sock < MaxSockets
    /\ tab' = [tab EXCEPT !.sock = @ + 1]
    /\ link' = [link EXCEPT ![tab.sock + 1] = [Unused EXCEPT !.open = TRUE, !.hub = TRUE]]
    /\ pipe' = Append(pipe, Issue("connected", tab.sock + 1, 0))
    /\ UNCHANGED <<srv, loaded, rt, http, seen, left>>

\* The tab's end closes; what it had sent may still arrive.
Closed == \E rest \in {<<>>, link[tab.sock].up} :
            link' = [link EXCEPT ![tab.sock] = [@ EXCEPT !.open = FALSE, !.down = <<>>, !.up = rest]]

Drops ==
    /\ Open /\ Closed
    /\ tab' = [tab EXCEPT !.beat = 0]
    /\ Happens
    /\ UNCHANGED <<srv, loaded, pipe, rt, http, seen>>

Refreshes ==
    /\ Open /\ Closed
    /\ tab' = FreshTab(tab.sock)
    /\ http' = [http EXCEPT !.post = None, !.del = None]
    /\ seen' = [ver |-> 0, last |-> TRUE]
    /\ Happens
    /\ UNCHANGED <<srv, loaded, pipe, rt>>

Learns(ver) == seen' = [ver |-> IF ver > seen.ver THEN ver ELSE seen.ver, last |-> ver >= seen.ver]

\* handleMessage and applySnapshot
Applied(m) ==
    LET v == m.view IN
    CASE v.is = "idle" ->
            IF tab.phase = "ended" THEN tab ELSE [tab EXCEPT !.phase = "idle", !.req = 0, !.ses = 0]
      [] v.is = "waiting" -> [tab EXCEPT !.phase = "waiting", !.req = v.id]
      [] v.is = "reserved" -> [tab EXCEPT !.phase = "reserved"]
      [] v.is = "active" ->
            [tab EXCEPT !.phase = "active", !.ses = v.id, !.beat = v.id,
                        !.req = IF m.how = "event" THEN 0 ELSE @]
      [] v.is = "ended" -> [tab EXCEPT !.phase = "ended", !.ses = 0, !.beat = 0]

\* session.reserved is answered with a claim.
Receives ==
    /\ Open /\ link[tab.sock].down # <<>>
    /\ LET k == link[tab.sock]
           m == Head(k.down)
           claims == m.how = "event" /\ m.view.is = "reserved" IN
         /\ tab' = Applied(m)
         /\ Learns(m.view.ver)
         /\ link' = [link EXCEPT ![tab.sock] =
                       [k EXCEPT !.down = Tail(@),
                                 !.up = IF claims THEN Append(@, [msg |-> "claim", id |-> m.view.id]) ELSE @]]
    /\ UNCHANGED <<srv, loaded, pipe, rt, http, left>>

InPipe(ops) == \E i \in DOMAIN pipe : pipe[i].op \in ops

\* requestDevice (bound: one POST on its way or on the server, also when its page is gone)
RequestsDevice ==
    /\ tab.phase \in {"idle", "ended"} /\ http.post = None /\ srv.id < MaxRequests
    /\ ~http.sent
    /\ ~\E i \in DOMAIN pipe : pipe[i].by = 0 /\ pipe[i].op \in {"join", "state", "held", "device", "request"}
    /\ tab' = [tab EXCEPT !.phase = "idle"]
    /\ http' = [http EXCEPT !.post = Awaited, !.sent = TRUE]
    /\ UNCHANGED <<srv, loaded, pipe, rt, link, seen, left>>

PostArrives ==
    /\ http.sent
    /\ http' = [http EXCEPT !.sent = FALSE]
    /\ pipe' = Append(pipe, Issue("join", 0, 0))
    /\ UNCHANGED <<srv, loaded, rt, link, tab, seen, left>>

Answered(x) == x \notin {None, Awaited}

PostAnswered ==
    /\ Answered(http.post)
    /\ tab' = [tab EXCEPT !.phase = "waiting", !.req = http.post.id]
    /\ Learns(http.post.ver)
    /\ http' = [http EXCEPT !.post = None]
    /\ UNCHANGED <<srv, loaded, pipe, rt, link, left>>

\* cancelRequest (bound: one DELETE on its way or on the server)
CancelsRequest ==
    /\ tab.phase = "waiting" /\ tab.req # 0 /\ http.del = None
    /\ http.cancel = 0 /\ ~InPipe({"cancel"})
    /\ http' = [http EXCEPT !.del = Awaited, !.cancel = tab.req]
    /\ Happens
    /\ UNCHANGED <<srv, loaded, pipe, rt, link, tab, seen>>

DeleteArrives ==
    /\ http.cancel # 0
    /\ pipe' = Append(pipe, Issue("cancel", 0, http.cancel))
    /\ http' = [http EXCEPT !.cancel = 0]
    /\ UNCHANGED <<srv, loaded, rt, link, tab, seen, left>>

\* The answer to the DELETE is not looked at.
DeleteAnswered ==
    /\ Answered(http.del)
    /\ tab' = [tab EXCEPT !.phase = "idle", !.req = 0]
    /\ Learns(http.del.ver)
    /\ http' = [http EXCEPT !.del = None]
    /\ UNCHANGED <<srv, loaded, pipe, rt, link, left>>

\* A fetch is rejected, or the POST is refused by the rate limit: the tab awaits it no
\* longer.  The request may have been executed, may never arrive, or may do so later.
FetchFails ==
    /\ \E request \in {TRUE, FALSE} :
         \/ /\ http.post # None
            /\ http' = [http EXCEPT !.post = None, !.sent = @ /\ request]
         \/ /\ http.del # None
            /\ http' = [http EXCEPT !.del = None, !.cancel = IF request THEN @ ELSE 0]
    /\ Happens
    /\ UNCHANGED <<srv, loaded, pipe, rt, link, tab, seen>>

\* endSession (bound: one such message at a time)
EndsSession ==
    /\ Open /\ tab.ses # 0 /\ ~InPipe({"end", "terminate"})
    /\ ~\E i \in DOMAIN link[tab.sock].up : link[tab.sock].up[i].msg = "end"
    /\ link' = [link EXCEPT ![tab.sock].up = Append(@, [msg |-> "end", id |-> tab.ses])]
    /\ Happens
    /\ UNCHANGED <<srv, loaded, pipe, rt, tab, http, seen>>

LinkNext ==
    \/ RedisAnswers
    \/ Allocates \/ OthersMove \/ TimePasses \/ ServerEnds \/ Suspends
    \/ \E x \in rt.starts : StreamStarted(x)
    \/ \E x \in rt.stops : StreamStopped(x)
    \/ \E s \in SocketIds : HubReceives(s) \/ HubCloses(s)
    \/ Connects \/ Drops \/ Refreshes \/ Receives
    \/ RequestsDevice \/ PostArrives \/ PostAnswered
    \/ CancelsRequest \/ DeleteArrives \/ DeleteAnswered \/ FetchFails \/ EndsSession

LinkSpec == LinkInit /\ [][LinkNext]_linkVars

\* What the event loops and connections that are up do by themselves.
Delivery == RedisAnswers \/ Receives \/ \E s \in SocketIds : HubReceives(s)

\* The reaper, for deadlines and heartbeats that have passed.
Timers == TimePasses \/ (srv.late /\ ServerEnds) \/ (~Beats /\ Suspends)

\* Time passes however often the server and the tab are busy in between (SF).  A broken
\* connection need never be noticed, a fetch need never arrive, and nothing is assumed of
\* the tester, the network or the streams.
LinkFairness == WF_linkVars(Delivery) /\ SF_linkVars(Timers)

FairLinkSpec == LinkSpec /\ LinkFairness

-----------------------------------------------------------------------------
(* Properties. *)

Commands == [op : {"connected", "session", "reconnect", "claim", "state", "held", "device", "request", "pool",
                   "disconnected", "load", "mark", "firstmark", "end", "terminate", "join", "broadcast", "cancel"},
             by : {0} \cup SocketIds, arg : Ids, view : Views \cup {None}]

\* Every variable has its type; there is a runtime only for a session that is active or
\* suspended, and nothing is under way to an end that is closed.
LinkTypeOK ==
    /\ srv \in [state : Held \cup {"idle", "waiting"}, id : Ids, ver : Versions,
                late : BOOLEAN, lapsed : BOOLEAN, quit : BOOLEAN]
    /\ loaded \in BOOLEAN
    /\ pipe \in Seq(Commands)
    /\ rt \in [id : Ids, starts : SUBSET [by : {0} \cup SocketIds, view : Views], stops : SUBSET Views]
    /\ rt.id # 0 => rt.id = srv.id /\ srv.state \in {"active", "away"}
    /\ link \in [SocketIds -> [open : BOOLEAN, hub : BOOLEAN,
                               down : Seq([how : {"event", "hello"}, view : Views]),
                               up : Seq([msg : {"claim", "end"}, id : Ids])]]
    /\ \A s \in SocketIds : link[s].open \/ link[s].down = <<>>
    /\ tab \in [phase : Phases, req : Ids, ses : Ids, beat : Ids, sock : {0} \cup SocketIds]
    /\ http \in [sent : BOOLEAN, post : Views \cup {None, Awaited},
                 cancel : Ids, del : Views \cup {None, Awaited}]
    /\ seen \in [ver : Versions, last : BOOLEAN]
    /\ left \in 0 .. MaxEvents

\* No handler runs and nothing is under way to a connected tab.
Quiet ==
    /\ Open /\ link[tab.sock].down = <<>>
    /\ \A s \in SocketIds : link[s].up = <<>> /\ (link[s].hub => link[s].open)
    /\ pipe = <<>> /\ rt.starts = {} /\ rt.stops = {}
    /\ http = NoRequest

\* A connected tab's reservation is claimed and its session resumed, however its
\* sockets open and close (README.md, "Refreshing your tab keeps your session"), unless
\* a deadline has passed, its heartbeats were late, or its suspension was the first of
\* the process.
NothingLeftHanging ==
    Quiet /\ ~srv.late /\ ~srv.lapsed => srv.state \notin {"reserved", "away"}

Agrees ==
    CASE srv.state = "idle" -> tab.phase \in {"idle", "ended"}
      [] srv.state = "waiting" -> tab.phase = "waiting" /\ tab.req = srv.id
      [] srv.state = "reserved" -> tab.phase = "reserved"
      [] OTHER -> tab.phase = "active" /\ tab.ses = srv.id

\* The tab's request has been cancelled, and the answer that would say so was lost or was
\* awaited by the page before: no message tells of it.
MissedCancel ==
    /\ srv.state = "idle" /\ srv.quit /\ seen.ver < srv.ver
    /\ tab.phase = "waiting" /\ tab.req = srv.id

\* A connected tab shows the state its client is in, except for a cancelled request that
\* it shows as waiting.  This is of a tab whose answers came in order: the last one it got
\* was not older than one before.
TabAgrees == Quiet /\ seen.last => Agrees \/ MissedCancel

\* A device is not kept for a client whose tab does not beat for its session (ANSWERS.md,
\* "so no one holds a device"): because the tab is gone, whatever its last socket's
\* registration, claim or reconnect still did after it closed; because the end of the
\* session before, told late, stopped its heartbeats; or because it was never told.
UnattendedIsReleased ==
    <>[](~Beats) => <>[](srv.state \notin Held)

\* What happens to the client in Redis, as the store names its states.
StoreState == [idle |-> "NONE", waiting |-> "WAITING", reserved |-> "RESERVED",
               active |-> "ACTIVE", away |-> "DISCONNECTED"]

InStore == INSTANCE ClientPlace WITH
    Clients <- {1},
    Requests <- Ids,
    Sessions <- Ids,
    place <- [c \in {1} |-> [state |-> StoreState[srv.state],
                            id |-> IF srv.state = "idle" THEN None ELSE srv.id]],
    made <- 1 .. srv.id

\* What the handlers do with what they have read is what the store allows at the moment
\* they do it: none takes a state it read before an await for the present one.
MovesAsStored == InStore!Spec
=============================================================================
