--------------------------- MODULE ClientLinkProofs --------------------------
(***************************************************************************)
(* The safety of ClientLink, for any number of requests, of connections of *)
(* the tab and of events.                                                  *)
(***************************************************************************)
EXTENDS ClientLink, TLAPS

-----------------------------------------------------------------------------
(* The invariant: types. *)

SrvT == [state : Held \cup {"idle", "waiting"}, id : Ids, ver : Versions,
         late : BOOLEAN, lapsed : BOOLEAN, quit : BOOLEAN]
Message == [how : {"event", "hello"}, view : Views]
Upward == [msg : {"claim", "end"}, id : Ids]
SocketT == [open : BOOLEAN, hub : BOOLEAN, down : Seq(Message), up : Seq(Upward)]
Start == [by : {0} \cup SocketIds, view : Views]
RtT == [id : Ids, starts : SUBSET Start, stops : SUBSET Views]
TabT == [phase : Phases, req : Ids, ses : Ids, beat : Ids, sock : {0} \cup SocketIds]
HttpT == [sent : BOOLEAN, post : Views \cup {None, Awaited}, cancel : Ids, del : Views \cup {None, Awaited}]

\* The commands of getStateByClientId that carry what it has read so far: that there
\* was no session, and in the end what the hello will say.
Reading == {"held", "device", "request", "pool"}

Command ==
    {c \in Commands : c.op \in Reading => c.view \in Views /\ (c.op \in {"held", "request"} => c.view.is = "idle")}

SrvOK == srv \in SrvT /\ (srv.state # "idle" => srv.id > 0)
RtOK == rt \in RtT /\ (rt.id # 0 => rt.id = srv.id /\ srv.state \in {"active", "away"})
LinkOK == link \in [SocketIds -> SocketT] /\ \A s \in SocketIds : link[s].open \/ link[s].down = <<>>
HttpOK ==
    /\ http \in HttpT
    /\ Answered(http.post) => http.post.is = "waiting"
    /\ Answered(http.del) => http.del.is = "idle"
RestOK == loaded \in BOOLEAN /\ tab \in TabT /\ seen \in [ver : Versions, last : BOOLEAN] /\ left \in 0 .. MaxEvents

Types == SrvOK /\ pipe \in Seq(Command) /\ RtOK /\ LinkOK /\ HttpOK /\ RestOK

-----------------------------------------------------------------------------
(* The invariant: what is under way is true.  The server's answers and messages *)
(* are compared with the newest version that matters, the base b: since version *)
(* b the client's state has been the same, as far as a tab shows it. *)

\* A socket that is open at the tab's end is the tab's last one and in the hub's set.
LinkShape == \A s \in SocketIds : link[s].open => s = tab.sock /\ link[s].hub

\* The view is of the client's state as a tab shows it, or of the request that has been
\* cancelled since.
Shows(v, c) ==
    /\ v.is \in {"idle", "ended"} => c.state = "idle"
    /\ v.is = "waiting" => c.id = v.id /\ (c.state = "waiting" \/ (c.state = "idle" /\ c.quit /\ v.ver < c.ver))
    /\ v.is = "reserved" => c.state = "reserved"
    /\ v.is = "active" => c.state \in {"active", "away"} /\ c.id = v.id

\* Nothing is told before it happens, and what has been told since b still holds.
Current(v, c, b) == v.ver <= c.ver /\ v.id <= c.id /\ (v.ver >= b => Shows(v, c))

\* What a handler has read so far is as true as what it will tell.  A suspension or a
\* cancellation that is under way is never of a session or request that is still to come.
ReadTrue(o, c, b) ==
    /\ o.op \in {"held", "request"} => o.view.ver <= c.ver /\ o.view.id <= c.id
    /\ o.op = "held" /\ o.view.ver >= b => o.arg = c.id /\ c.state \in Held
    /\ o.op = "request" /\ o.view.ver >= b => c.state \in {"idle", "waiting"}
    /\ o.op \in {"device", "pool"} => Current(o.view, c, b)
    /\ o.op = "cancel" => o.arg <= c.id
    /\ o.op = "mark" => o.arg <= c.id /\ (o.arg = c.id => c.state # "waiting")

BaseOK(c, b) == b \in Nat /\ b <= c.ver /\ (c.state # "idle" => b > 0)

Truthful(b) ==
    /\ BaseOK(srv, b)
    /\ \A o \in ToSet(pipe) : ReadTrue(o, srv, b)
    /\ \A s \in SocketIds : \A m \in ToSet(link[s].down) : Current(m.view, srv, b)
    /\ \A x \in rt.starts : Current(x.view, srv, b)
    /\ \A x \in rt.stops : Current(x, srv, b)
    /\ Answered(http.post) => Current(http.post, srv, b)
    /\ Answered(http.del) => Current(http.del, srv, b)

\* A handler that will tell the tab's socket of version b or a later one.
WillTell(o, sock, b) ==
    /\ o.by = sock
    /\ \/ o.op \in {"connected", "session", "reconnect", "claim", "state"}
       \/ o.op \in Reading /\ o.view.ver >= b

\* The tab will be told of version b or a later one.
Coming(b) ==
    \/ \E m \in ToSet(link[tab.sock].down) : m.view.ver >= b
    \/ \E o \in ToSet(pipe) : WillTell(o, tab.sock, b)
    \/ srv.state = "waiting" /\ \E o \in ToSet(pipe) : o.op = "broadcast"
    \/ \E x \in rt.starts : x.view.ver >= b
    \/ \E x \in rt.stops : x.ver >= b

\* What the tab shows as of version ver is a request that has been cancelled since.
Missed(ver) ==
    /\ srv.state = "idle" /\ srv.quit /\ ver < srv.ver
    /\ tab.phase = "waiting" /\ tab.req = srv.id

\* The tab shows what it has been told, and will be told what it has not been.
Informed(b) ==
    /\ seen.ver <= srv.ver
    /\ seen.last /\ seen.ver >= b => Agrees \/ Missed(seen.ver)
    /\ Open /\ seen.ver < b => Coming(b)

-----------------------------------------------------------------------------
(* The invariant: what follows what among the commands under way. *)

Op(op) == {o \in Command : o.op = op}
For(op, id) == {o \in Command : o.op = op /\ o.arg = id}

\* Everything of A in the queue has something of B behind it.
Followed(q, A, B) == \A i \in DOMAIN q : q[i] \in A => \E j \in DOMAIN q : j > i /\ q[j] \in B

\* Nothing of A in the queue has something of B behind it.
NoneBehind(q, A, B) == \A i, j \in DOMAIN q : q[i] \in A /\ q[j] \in B => j <= i

\* A request is broadcast before a DELETE for it can be executed; nobody asks for a
\* later one to be cancelled.
CancelOrder == NoneBehind(pipe, For("cancel", srv.id), Op("broadcast"))
Asked == tab.req <= srv.id /\ http.cancel <= srv.id

Registering == \E o \in ToSet(pipe) : o.op = "connected"

\* A reservation that a connected tab has not claimed yet will be.
Claimed ==
    Open /\ srv.state = "reserved" /\ ~srv.late =>
        \/ Registering
        \/ \E o \in ToSet(pipe) : o.op \in {"session", "claim"} /\ o.arg = srv.id
        \/ \E s \in SocketIds : \E u \in ToSet(link[s].up) : u.msg = "claim" /\ u.id = srv.id
        \/ \E m \in ToSet(link[tab.sock].down) :
              m.how = "event" /\ m.view.is = "reserved" /\ m.view.id = srv.id

\* A suspended session that a connected tab has not resumed yet will be.
Resumed ==
    Open /\ srv.state = "away" /\ ~srv.late /\ ~srv.lapsed =>
        \/ Registering
        \/ \E o \in ToSet(pipe) : o.op \in {"session", "reconnect"} /\ o.arg = srv.id

\* What the closing of an earlier socket does comes before the registration of the new
\* one, or its reading of the session.
GoneOrder == Open => Followed(pipe, Op("disconnected"), Op("connected"))
MarkOrder ==
    Open /\ srv.state \in Held =>
        Registering \/ Followed(pipe, For("mark", srv.id), For("session", srv.id))

Orders == CancelOrder /\ GoneOrder /\ MarkOrder

Inv(b) == Types /\ LinkShape /\ Truthful(b) /\ Informed(b) /\ Asked /\ Orders /\ Claimed /\ Resumed

LinkInv == \E b \in Nat : Inv(b)

-----------------------------------------------------------------------------
(* Queues, once. *)

LEMMA Taken ==
    ASSUME NEW S, NEW p \in Seq(S), p # <<>>
    PROVE  /\ Head(p) \in S /\ Tail(p) \in Seq(S)
           /\ Head(p) \in ToSet(p)
           /\ ToSet(Tail(p)) \subseteq ToSet(p)
           /\ ToSet(p) \subseteq ToSet(Tail(p)) \cup {Head(p)}
<1>1. /\ Len(p) \in Nat \ {0} /\ Len(Tail(p)) = Len(p) - 1
      /\ DOMAIN p = 1 .. Len(p) /\ DOMAIN Tail(p) = 1 .. Len(p) - 1
      /\ \A i \in 1 .. Len(p) - 1 : Tail(p)[i] = p[i + 1]
      /\ Head(p) = p[1] /\ Head(p) \in S /\ Tail(p) \in Seq(S)
  OBVIOUS
<1>2. ASSUME NEW i \in DOMAIN p, i # 1
      PROVE  i - 1 \in DOMAIN Tail(p) /\ p[i] = Tail(p)[i - 1]
  BY <1>1, <1>2
<1>3. Head(p) \in ToSet(p)
  BY <1>1 DEF ToSet
<1>4. ToSet(Tail(p)) \subseteq ToSet(p)
  <2>1. \A i \in DOMAIN Tail(p) : i + 1 \in DOMAIN p /\ Tail(p)[i] = p[i + 1]
    BY <1>1
  <2>2. QED
    BY <2>1 DEF ToSet
<1>5. ToSet(p) \subseteq ToSet(Tail(p)) \cup {Head(p)}
  <2>1. ASSUME NEW x \in ToSet(p)
        PROVE  x \in ToSet(Tail(p)) \cup {Head(p)}
    <3>1. PICK i \in DOMAIN p : x = p[i]
      BY DEF ToSet
    <3>2. QED
      BY <1>1, <1>2, <3>1 DEF ToSet
  <2>2. QED
    BY <2>1
<1>6. QED
  BY <1>1, <1>3, <1>4, <1>5

LEMMA Joined ==
    ASSUME NEW S, NEW p \in Seq(S), NEW n \in Seq(S)
    PROVE  /\ p \o n \in Seq(S)
           /\ ToSet(p \o n) = ToSet(p) \cup ToSet(n)
           /\ ToSet(p) \subseteq S
<1>1. /\ Len(p) \in Nat /\ Len(n) \in Nat /\ Len(p \o n) = Len(p) + Len(n)
      /\ DOMAIN p = 1 .. Len(p) /\ DOMAIN n = 1 .. Len(n) /\ DOMAIN (p \o n) = 1 .. Len(p) + Len(n)
      /\ \A i \in 1 .. Len(p) : (p \o n)[i] = p[i] /\ p[i] \in S
      /\ \A i \in 1 .. Len(n) : (p \o n)[Len(p) + i] = n[i]
      /\ p \o n \in Seq(S)
  OBVIOUS
<1>2. ASSUME NEW i \in DOMAIN (p \o n), i > Len(p)
      PROVE  i - Len(p) \in DOMAIN n /\ (p \o n)[i] = n[i - Len(p)]
  BY <1>1, <1>2
<1>3. ASSUME NEW i \in DOMAIN n
      PROVE  Len(p) + i \in DOMAIN (p \o n)
  BY <1>1
<1>4. ToSet(p \o n) \subseteq ToSet(p) \cup ToSet(n)
  BY <1>1, <1>2 DEF ToSet
<1>5. ToSet(p) \subseteq ToSet(p \o n)
  BY <1>1 DEF ToSet
<1>6. ToSet(n) \subseteq ToSet(p \o n)
  BY <1>1, <1>3 DEF ToSet
<1>7. QED
  BY <1>1, <1>4, <1>5, <1>6 DEF ToSet

LEMMA TailJoined ==
    ASSUME NEW S, NEW p \in Seq(S), p # <<>>, NEW n \in Seq(S)
    PROVE  /\ Tail(p) \o n \in Seq(S)
           /\ ToSet(Tail(p) \o n) = ToSet(Tail(p)) \cup ToSet(n)
           /\ ToSet(n) \subseteq S
<1> DEFINE t == Tail(p)
<1>1. t \in Seq(S)
  BY Taken
<1>2. ToSet(n) \subseteq S
  BY Joined
<1> HIDE DEF t
<1>3. t \o n \in Seq(S) /\ ToSet(t \o n) = ToSet(t) \cup ToSet(n)
  BY <1>1, Joined
<1>4. QED
  BY <1>2, <1>3 DEF t

LEMMA Short ==
    ASSUME NEW S, NEW p \in Seq(S), NEW x \in S
    PROVE  /\ ToSet(<<>>) = {} /\ <<>> \in Seq(S) /\ p \o <<>> = p
           /\ ToSet(<<x>>) = {x} /\ <<x>> \in Seq(S)
           /\ Append(p, x) = p \o <<x>>
BY DEF ToSet

LEMMA FollowedTail ==
    ASSUME NEW S, NEW p \in Seq(S), p # <<>>, NEW A, NEW B, Followed(p, A, B)
    PROVE  /\ Followed(Tail(p), A, B)
           /\ Head(p) \in A => \E x \in ToSet(Tail(p)) : x \in B
<1>1. /\ Len(p) \in Nat \ {0}
      /\ DOMAIN p = 1 .. Len(p) /\ DOMAIN Tail(p) = 1 .. Len(p) - 1
      /\ \A i \in 1 .. Len(p) - 1 : Tail(p)[i] = p[i + 1]
      /\ Head(p) = p[1]
  OBVIOUS
<1>2. ASSUME NEW i \in DOMAIN p, NEW j \in DOMAIN p, j > i
      PROVE  j - 1 \in DOMAIN Tail(p) /\ p[j] = Tail(p)[j - 1] /\ j - 1 > i - 1
  BY <1>1, <1>2
<1>3. ASSUME NEW i \in DOMAIN Tail(p), Tail(p)[i] \in A
      PROVE  \E j \in DOMAIN Tail(p) : j > i /\ Tail(p)[j] \in B
  <2>1. i \in Nat /\ i + 1 \in DOMAIN p /\ p[i + 1] \in A
    BY <1>1, <1>3
  <2>2. PICK j \in DOMAIN p : j > i + 1 /\ p[j] \in B
    BY <2>1 DEF Followed
  <2>3. j - 1 \in DOMAIN Tail(p) /\ Tail(p)[j - 1] \in B
    BY <1>2, <2>1, <2>2
  <2>4. j - 1 > i
    BY <1>1, <2>1, <2>2
  <2>5. QED
    BY <2>3, <2>4
<1>4. ASSUME Head(p) \in A
      PROVE  \E x \in ToSet(Tail(p)) : x \in B
  <2>1. 1 \in DOMAIN p /\ p[1] \in A
    BY <1>1, <1>4
  <2>2. PICK j \in DOMAIN p : j > 1 /\ p[j] \in B
    BY <2>1 DEF Followed
  <2>3. QED
    BY <1>2, <2>1, <2>2 DEF ToSet
<1>5. QED
  BY <1>3, <1>4 DEF Followed

LEMMA FollowedJoined ==
    ASSUME NEW S, NEW p \in Seq(S), NEW n \in Seq(S), NEW A, NEW B, ToSet(n) \cap A = {}
    PROVE  /\ Followed(p, A, B) => Followed(p \o n, A, B)
           /\ (\E x \in ToSet(n) : x \in B) => Followed(p \o n, A, B)
<1>1. /\ Len(p) \in Nat /\ Len(n) \in Nat
      /\ DOMAIN p = 1 .. Len(p) /\ DOMAIN n = 1 .. Len(n) /\ DOMAIN (p \o n) = 1 .. Len(p) + Len(n)
      /\ \A i \in 1 .. Len(p) : (p \o n)[i] = p[i]
      /\ \A i \in 1 .. Len(n) : (p \o n)[Len(p) + i] = n[i]
  OBVIOUS
<1>2. ASSUME NEW i \in DOMAIN (p \o n), (p \o n)[i] \in A
      PROVE  i \in DOMAIN p /\ p[i] \in A
  <2>1. CASE i > Len(p)
    <3>1. i - Len(p) \in DOMAIN n /\ (p \o n)[i] = n[i - Len(p)]
      BY <1>1, <2>1
    <3>2. QED
      BY <1>2, <3>1 DEF ToSet
  <2>2. CASE i <= Len(p)
    BY <1>1, <1>2, <2>2
  <2>3. QED
    BY <1>1, <2>1, <2>2
<1>3. ASSUME Followed(p, A, B)
      PROVE  Followed(p \o n, A, B)
  <2>1. SUFFICES ASSUME NEW i \in DOMAIN (p \o n), (p \o n)[i] \in A
                 PROVE  \E j \in DOMAIN (p \o n) : j > i /\ (p \o n)[j] \in B
    BY DEF Followed
  <2>2. PICK j \in DOMAIN p : j > i /\ p[j] \in B
    BY <1>2, <1>3, <2>1 DEF Followed
  <2>3. j \in DOMAIN (p \o n) /\ (p \o n)[j] = p[j]
    BY <1>1
  <2>4. QED
    BY <2>2, <2>3
<1>4. ASSUME NEW x \in ToSet(n), x \in B
      PROVE  Followed(p \o n, A, B)
  <2>1. SUFFICES ASSUME NEW i \in DOMAIN (p \o n), (p \o n)[i] \in A
                 PROVE  \E j \in DOMAIN (p \o n) : j > i /\ (p \o n)[j] \in B
    BY DEF Followed
  <2>2. PICK j \in DOMAIN n : x = n[j]
    BY DEF ToSet
  <2>3. Len(p) + j \in DOMAIN (p \o n) /\ (p \o n)[Len(p) + j] = x
    BY <1>1, <2>2
  <2>4. Len(p) + j > i
    BY <1>1, <1>2, <2>1
  <2>5. QED
    BY <1>4, <2>3, <2>4
<1>5. QED
  BY <1>3, <1>4

LEMMA BehindTail ==
    ASSUME NEW S, NEW p \in Seq(S), p # <<>>, NEW A, NEW B, NoneBehind(p, A, B)
    PROVE  /\ NoneBehind(Tail(p), A, B)
           /\ Head(p) \in A => ToSet(Tail(p)) \cap B = {}
<1>1. /\ Len(p) \in Nat \ {0}
      /\ DOMAIN p = 1 .. Len(p) /\ DOMAIN Tail(p) = 1 .. Len(p) - 1
      /\ \A i \in 1 .. Len(p) - 1 : Tail(p)[i] = p[i + 1]
      /\ Head(p) = p[1]
  OBVIOUS
<1>2. ASSUME NEW i \in DOMAIN Tail(p)
      PROVE  i \in Nat \ {0} /\ i + 1 \in DOMAIN p /\ Tail(p)[i] = p[i + 1] /\ 1 \in DOMAIN p
  BY <1>1
<1>3. ASSUME NEW i \in DOMAIN Tail(p), NEW j \in DOMAIN Tail(p), Tail(p)[i] \in A, Tail(p)[j] \in B
      PROVE  j <= i
  <2>1. j + 1 <= i + 1
    BY <1>2, <1>3 DEF NoneBehind
  <2>2. QED
    BY <1>2, <2>1
<1>4. ASSUME Head(p) \in A, NEW i \in DOMAIN Tail(p), Tail(p)[i] \in B
      PROVE  FALSE
  <2>1. i + 1 <= 1
    BY <1>1, <1>2, <1>4 DEF NoneBehind
  <2>2. QED
    BY <1>2, <2>1
<1>5. QED
  BY <1>3, <1>4 DEF NoneBehind, ToSet

LEMMA BehindJoined ==
    ASSUME NEW S, NEW p \in Seq(S), NEW n \in Seq(S), NEW A, NEW B
    PROVE  /\ NoneBehind(p, A, B) /\ ToSet(n) \cap B = {} => NoneBehind(p \o n, A, B)
           /\ ToSet(p) \cap A = {} /\ ToSet(n) \cap A = {} => NoneBehind(p \o n, A, B)
<1>1. /\ Len(p) \in Nat /\ Len(n) \in Nat
      /\ DOMAIN p = 1 .. Len(p) /\ DOMAIN n = 1 .. Len(n) /\ DOMAIN (p \o n) = 1 .. Len(p) + Len(n)
      /\ \A i \in 1 .. Len(p) : (p \o n)[i] = p[i]
      /\ \A i \in 1 .. Len(n) : (p \o n)[Len(p) + i] = n[i]
  OBVIOUS
<1>2. ASSUME NEW i \in DOMAIN (p \o n)
      PROVE  \/ i \in DOMAIN p /\ (p \o n)[i] \in ToSet(p) /\ (p \o n)[i] = p[i]
             \/ i > Len(p) /\ (p \o n)[i] \in ToSet(n)
  <2>1. CASE i > Len(p)
    <3>1. i - Len(p) \in DOMAIN n /\ (p \o n)[i] = n[i - Len(p)]
      BY <1>1, <2>1
    <3>2. QED
      BY <2>1, <3>1 DEF ToSet
  <2>2. CASE i <= Len(p)
    BY <1>1, <2>2 DEF ToSet
  <2>3. QED
    BY <1>1, <2>1, <2>2
<1>3. ASSUME NoneBehind(p, A, B), ToSet(n) \cap B = {},
             NEW i \in DOMAIN (p \o n), NEW j \in DOMAIN (p \o n), (p \o n)[i] \in A, (p \o n)[j] \in B
      PROVE  j <= i
  <2>1. j \in DOMAIN p /\ p[j] \in B
    BY <1>2, <1>3
  <2>2. CASE i \in DOMAIN p /\ (p \o n)[i] = p[i]
    BY <1>3, <2>1, <2>2 DEF NoneBehind
  <2>3. CASE i > Len(p)
    BY <1>1, <2>1, <2>3
  <2>4. QED
    BY <1>2, <2>2, <2>3
<1>4. ASSUME ToSet(p) \cap A = {}, ToSet(n) \cap A = {}, NEW i \in DOMAIN (p \o n), (p \o n)[i] \in A
      PROVE  FALSE
  BY <1>2, <1>4
<1>5. QED
  BY <1>3, <1>4 DEF NoneBehind

-----------------------------------------------------------------------------
(* Records, once. *)

LEMMA CmdFields ==
    ASSUME NEW op, NEW by, NEW arg, NEW view
    PROVE  /\ Cmd(op, by, arg, view).op = op /\ Cmd(op, by, arg, view).by = by
           /\ Cmd(op, by, arg, view).arg = arg /\ Cmd(op, by, arg, view).view = view
           /\ Issue(op, by, arg) = Cmd(op, by, arg, None)
BY DEF Cmd, Issue

LEMMA IssueTyped ==
    ASSUME NEW op \in {"connected", "session", "reconnect", "claim", "state", "disconnected", "load", "mark",
                       "firstmark", "end", "terminate", "join", "broadcast", "cancel"},
           NEW by \in {0} \cup SocketIds, NEW arg \in Ids
    PROVE  Issue(op, by, arg) \in Command
BY DEF Issue, Cmd, Command, Commands, Reading

LEMMA IssuePicked ==
    ASSUME NEW op \in {"connected", "session", "reconnect", "claim", "state", "disconnected", "load", "mark",
                       "firstmark", "end", "terminate", "join", "broadcast", "cancel"},
           NEW by \in {0} \cup SocketIds, NEW arg \in Ids
    PROVE  \E c \in Command : c = Issue(op, by, arg) /\ c.op = op /\ c.by = by /\ c.arg = arg
<1>1. Issue(op, by, arg) \in Command
  BY IssueTyped
<1>2. Issue(op, by, arg).op = op /\ Issue(op, by, arg).by = by /\ Issue(op, by, arg).arg = arg
  BY DEF Issue, Cmd
<1>3. QED
  BY <1>1, <1>2

LEMMA CmdTyped ==
    ASSUME NEW op \in Reading, NEW by \in {0} \cup SocketIds, NEW arg \in Ids, NEW view \in Views,
           op \in {"held", "request"} => view.is = "idle"
    PROVE  Cmd(op, by, arg, view) \in Command
BY DEF Cmd, Command, Commands, Reading

LEMMA CommandFields ==
    ASSUME NEW c \in Command
    PROVE  /\ c.by \in {0} \cup SocketIds /\ c.arg \in Ids
           /\ c.op \in Reading => c.view \in Views /\ (c.op \in {"held", "request"} => c.view.is = "idle")
BY DEF Command, Commands

LEMMA ViewTyped ==
    ASSUME NEW v \in SrvT, NEW is \in Phases
    PROVE  /\ View(v, is) \in Views
           /\ View(v, is).is = is /\ View(v, is).id = v.id /\ View(v, is).ver = v.ver
BY DEF View, Views, SrvT

LEMMA ViewFields ==
    ASSUME NEW v \in Views
    PROVE  v.is \in Phases /\ v.id \in Ids /\ v.ver \in Nat
BY DEF Views, Versions

LEMMA SrvUpdates ==
    ASSUME NEW v \in SrvT
    PROVE  /\ \A x \in Held \cup {"idle", "waiting"} : [v EXCEPT !.state = x] \in SrvT
           /\ \A x \in Nat : [v EXCEPT !.ver = x] \in SrvT
           /\ \A x \in BOOLEAN : [v EXCEPT !.late = x] \in SrvT
           /\ \A x \in BOOLEAN : [v EXCEPT !.lapsed = x] \in SrvT
           /\ \A x \in BOOLEAN : [v EXCEPT !.quit = x] \in SrvT
           /\ \A x \in Ids : [v EXCEPT !.id = x] \in SrvT
BY DEF SrvT, Versions

LEMMA BecomesIs ==
    ASSUME srv \in SrvT, NEW is \in Held \cup {"idle", "waiting"}
    PROVE  /\ Becomes(is) \in SrvT
           /\ Becomes(is).state = is /\ Becomes(is).id = srv.id /\ Becomes(is).ver = srv.ver + 1
           /\ Becomes(is).late = FALSE /\ Becomes(is).lapsed = FALSE /\ Becomes(is).quit = FALSE
<1>1. Becomes(is) \in SrvT
  <2>1. [srv EXCEPT !.state = is] \in SrvT
    BY SrvUpdates
  <2>2. srv.ver + 1 \in Nat
    BY DEF SrvT, Versions
  <2>3. [srv EXCEPT !.state = is, !.ver = srv.ver + 1] \in SrvT
    BY <2>1, <2>2, SrvUpdates
  <2>4. \A v \in SrvT : [v EXCEPT !.late = FALSE, !.lapsed = FALSE, !.quit = FALSE] \in SrvT
    BY SrvUpdates
  <2>5. QED
    BY <2>3, <2>4 DEF Becomes
<1>2. QED
  BY <1>1 DEF Becomes, SrvT

LEMMA HttpUpdates ==
    ASSUME Types, NEW x \in Views \cup {None, Awaited}
    PROVE  /\ [http EXCEPT !.post = x] \in HttpT /\ [http EXCEPT !.del = x] \in HttpT
           /\ [http EXCEPT !.post = x].post = x /\ [http EXCEPT !.post = x].del = http.del
           /\ [http EXCEPT !.del = x].del = x /\ [http EXCEPT !.del = x].post = http.post
           /\ [http EXCEPT !.post = x].cancel = http.cancel /\ [http EXCEPT !.del = x].cancel = http.cancel
BY DEF Types, HttpOK, HttpT

LEMMA RtUpdates ==
    ASSUME Types, NEW id \in Ids, NEW x \in Start, NEW v \in Views
    PROVE  /\ [rt EXCEPT !.id = id, !.starts = @ \cup {x}] \in RtT
           /\ [rt EXCEPT !.id = id, !.starts = @ \cup {x}].id = id
           /\ [rt EXCEPT !.id = id, !.starts = @ \cup {x}].starts = rt.starts \cup {x}
           /\ [rt EXCEPT !.id = id, !.starts = @ \cup {x}].stops = rt.stops
           /\ [rt EXCEPT !.id = id, !.stops = @ \cup {v}] \in RtT
           /\ [rt EXCEPT !.id = id, !.stops = @ \cup {v}].id = id
           /\ [rt EXCEPT !.id = id, !.stops = @ \cup {v}].starts = rt.starts
           /\ [rt EXCEPT !.id = id, !.stops = @ \cup {v}].stops = rt.stops \cup {v}
<1>1. rt \in RtT /\ rt.starts \cup {x} \in SUBSET Start /\ rt.stops \cup {v} \in SUBSET Views
  BY DEF Types, RtOK, RtT
<1>2. /\ \A r \in RtT : [r EXCEPT !.id = id] \in RtT
      /\ \A r \in RtT, y \in SUBSET Start : [r EXCEPT !.starts = y] \in RtT
      /\ \A r \in RtT, y \in SUBSET Views : [r EXCEPT !.stops = y] \in RtT
  BY DEF RtT
<1>3. [rt EXCEPT !.id = id, !.starts = rt.starts \cup {x}] \in RtT
  BY <1>1, <1>2
<1>4. [rt EXCEPT !.id = id, !.stops = rt.stops \cup {v}] \in RtT
  BY <1>1, <1>2
<1>5. QED
  BY <1>1, <1>3, <1>4 DEF RtT

LEMMA ZeroIsId == 0 \in Ids
BY LinkBoundsAssumption DEF Ids

LEMMA NotAnswers == None \notin Views /\ Awaited \notin Views
BY LinkNoneAssumption DEF Awaited, Views, Phases

\* What is told reaches the sockets that are open at both ends.
LEMMA SentTyped ==
    ASSUME Types, NEW socks, NEW how \in {"event", "hello"}, NEW view \in Views, link' = Sent(socks, how, view)
    PROVE  /\ LinkOK'
           /\ \A s \in SocketIds :
                /\ link'[s].open = link[s].open /\ link'[s].hub = link[s].hub /\ link'[s].up = link[s].up
                /\ IF s \in socks /\ link[s].hub /\ link[s].open
                     THEN link'[s].down = link[s].down \o <<[how |-> how, view |-> view]>>
                     ELSE link'[s].down = link[s].down
<1> DEFINE m == [how |-> how, view |-> view]
<1>1. m \in Message
  BY DEF Message
<1>2. link \in [SocketIds -> SocketT] /\ \A s \in SocketIds : link[s].open \/ link[s].down = <<>>
  BY DEF Types, LinkOK
<1>3. ASSUME NEW s \in SocketIds
      PROVE  /\ link'[s] \in SocketT
             /\ link'[s].open = link[s].open /\ link'[s].hub = link[s].hub /\ link'[s].up = link[s].up
             /\ IF s \in socks /\ link[s].hub /\ link[s].open
                  THEN link'[s].down = link[s].down \o <<m>>
                  ELSE link'[s].down = link[s].down
  <2>1. link[s] \in SocketT /\ link[s].down \in Seq(Message)
    BY <1>2 DEF SocketT
  <2>2. CASE s \in socks /\ link[s].hub /\ link[s].open
    <3>1. link'[s] = [link[s] EXCEPT !.down = Append(@, m)]
      BY <2>2 DEF Sent
    <3>2. Append(link[s].down, m) = link[s].down \o <<m>> /\ Append(link[s].down, m) \in Seq(Message)
      <4> HIDE DEF m
      <4>1. \A p \in Seq(Message), x \in Message : Append(p, x) = p \o <<x>> /\ Append(p, x) \in Seq(Message)
        OBVIOUS
      <4>2. QED
        BY <1>1, <2>1, <4>1
    <3>3. QED
      BY <2>1, <2>2, <3>1, <3>2 DEF SocketT
  <2>3. CASE ~(s \in socks /\ link[s].hub /\ link[s].open)
    BY <2>1, <2>3 DEF Sent
  <2>4. QED
    BY <2>2, <2>3
<1>4. link' = [s \in SocketIds |-> link'[s]]
  BY DEF Sent
<1>5. link' \in [SocketIds -> SocketT]
  BY <1>3, <1>4
<1>6. \A s \in SocketIds : link'[s].open \/ link'[s].down = <<>>
  BY <1>2, <1>3
<1>7. QED
  BY <1>3, <1>5, <1>6 DEF LinkOK

-----------------------------------------------------------------------------
(* What stays true when the client moves. *)

\* A tab cannot tell d from c, or it need not be told of d.
Alike(c, d) ==
    \/ d.state = c.state /\ (c.state = "idle" => d.quit = c.quit)
    \/ c.state \in {"active", "away"} /\ d.state \in {"active", "away"}
    \/ c.state = "waiting" /\ d.state = "idle" /\ d.quit /\ d.ver > c.ver

\* From c to d the state a tab shows is the same and the base stays, or it is another
\* one and the base is its version.
Moves(c, b, d, e) ==
    /\ c \in SrvT /\ d \in SrvT /\ BaseOK(c, b) /\ BaseOK(d, e)
    /\ d.ver >= c.ver
    /\ \/ e = b /\ d.id = c.id /\ Alike(c, d)
       \/ e = d.ver /\ d.ver > c.ver /\ (d.id > c.id \/ (d.id = c.id /\ d.state # "waiting"))

LEMMA CurrentMoves ==
    ASSUME NEW c, NEW b, NEW d, NEW e, Moves(c, b, d, e), NEW v \in Views, Current(v, c, b)
    PROVE  Current(v, d, e)
<1>1. /\ v.ver \in Nat /\ c.ver \in Nat /\ d.ver \in Nat /\ b \in Nat /\ e \in Nat
      /\ v.id \in Nat /\ c.id \in Nat /\ d.id \in Nat
  BY ViewFields, LinkBoundsAssumption DEF Moves, SrvT, Versions, BaseOK, Ids
<1>2. v.ver <= d.ver /\ v.id <= d.id
  BY <1>1 DEF Moves, Current
<1>3. CASE e = b /\ d.id = c.id /\ Alike(c, d)
  BY <1>1, <1>2, <1>3 DEF Current, Shows, Alike, Moves
<1>4. CASE e = d.ver /\ d.ver > c.ver
  BY <1>1, <1>2, <1>4 DEF Current
<1>5. QED
  BY <1>3, <1>4 DEF Moves

LEMMA ReadTrueMoves ==
    ASSUME NEW c, NEW b, NEW d, NEW e, Moves(c, b, d, e), NEW o \in Command, ReadTrue(o, c, b)
    PROVE  ReadTrue(o, d, e)
<1>1. c.ver \in Nat /\ d.ver \in Nat /\ b \in Nat /\ e \in Nat
  BY DEF Moves, SrvT, Versions, BaseOK
<1>2. /\ o.op \in Reading => o.view \in Views /\ o.view.ver \in Nat /\ o.view.id \in Nat
      /\ o.arg \in Nat /\ c.id \in Nat /\ d.id \in Nat
  BY CommandFields, ViewFields, LinkBoundsAssumption DEF Reading, Ids, Moves, SrvT
<1>3. o.op \in {"device", "pool"} => Current(o.view, d, e)
  BY <1>2, CurrentMoves DEF ReadTrue, Reading
<1>4. CASE e = b /\ d.id = c.id /\ Alike(c, d)
  BY <1>1, <1>2, <1>3, <1>4 DEF ReadTrue, Moves, Held, Alike, Reading
<1>5. CASE e = d.ver /\ d.ver > c.ver /\ (d.id > c.id \/ (d.id = c.id /\ d.state # "waiting"))
  BY <1>1, <1>2, <1>3, <1>5 DEF ReadTrue, Reading
<1>6. QED
  BY <1>4, <1>5 DEF Moves

\* Nothing moves.
LEMMA Stays ==
    ASSUME NEW b, Types, BaseOK(srv, b)
    PROVE  Moves(srv, b, srv, b)
BY DEF Moves, Alike, Types, SrvOK, BaseOK, SrvT, Versions

\* What the types say of single values.
LEMMA Typed ==
    ASSUME Types
    PROVE  /\ srv \in SrvT /\ srv.id \in Nat /\ srv.id \in Ids /\ srv.ver \in Nat /\ srv.late \in BOOLEAN /\ srv.lapsed \in BOOLEAN
           /\ srv.state \in Held \cup {"idle", "waiting"}
           /\ ToSet(pipe) \subseteq Command
           /\ \A s \in SocketIds : ToSet(link[s].down) \subseteq Message /\ ToSet(link[s].up) \subseteq Upward
           /\ \A s \in SocketIds : link[s].open \in BOOLEAN /\ link[s].hub \in BOOLEAN /\ link[s].down \in Seq(Message) /\ link[s].up \in Seq(Upward)
           /\ rt.id \in Ids /\ rt.starts \subseteq Start /\ rt.stops \subseteq Views
           /\ http.post \in Views \cup {None, Awaited} /\ http.del \in Views \cup {None, Awaited} /\ http.sent \in BOOLEAN /\ http.cancel \in Ids
           /\ tab.phase \in Phases /\ tab.req \in Ids /\ tab.ses \in Ids /\ tab.sock \in {0} \cup SocketIds /\ tab.sock \in Nat
           /\ http.cancel \in Nat /\ tab.req \in Nat
           /\ seen.ver \in Nat /\ seen.last \in BOOLEAN
<1>1. srv \in SrvT /\ srv.id \in Nat /\ srv.id \in Ids /\ srv.ver \in Nat /\ srv.late \in BOOLEAN /\ srv.lapsed \in BOOLEAN
      /\ srv.state \in Held \cup {"idle", "waiting"}
  BY LinkBoundsAssumption DEF Types, SrvOK, SrvT, Ids, Versions
<1>2. ToSet(pipe) \subseteq Command
  BY Joined DEF Types
<1>3. ASSUME NEW s \in SocketIds
      PROVE  /\ ToSet(link[s].down) \subseteq Message /\ ToSet(link[s].up) \subseteq Upward
             /\ link[s].open \in BOOLEAN /\ link[s].hub \in BOOLEAN
             /\ link[s].down \in Seq(Message) /\ link[s].up \in Seq(Upward)
  <2>1. link[s] \in SocketT
    BY DEF Types, LinkOK
  <2>2. link[s].down \in Seq(Message) /\ link[s].up \in Seq(Upward)
    BY <2>1 DEF SocketT
  <2>3. QED
    BY <2>1, <2>2, Joined DEF SocketT
<1>4. rt.id \in Ids /\ rt.starts \subseteq Start /\ rt.stops \subseteq Views
  BY DEF Types, RtOK, RtT
<1>5. http.post \in Views \cup {None, Awaited} /\ http.del \in Views \cup {None, Awaited} /\ http.sent \in BOOLEAN /\ http.cancel \in Ids
  BY DEF Types, HttpOK, HttpT
<1>6. /\ tab.phase \in Phases /\ tab.req \in Ids /\ tab.ses \in Ids /\ tab.sock \in {0} \cup SocketIds /\ tab.sock \in Nat
      /\ http.cancel \in Nat /\ tab.req \in Nat
      /\ seen.ver \in Nat /\ seen.last \in BOOLEAN
  BY <1>5, LinkBoundsAssumption DEF Types, RestOK, TabT, SocketIds, Versions, Ids
<1>7. QED
  BY <1>1, <1>2, <1>3, <1>4, <1>5, <1>6

LEMMA AnsweredIsView ==
    ASSUME Types
    PROVE  /\ Answered(http.post) => http.post \in Views
           /\ Answered(http.del) => http.del \in Views
BY Typed DEF Answered

LEMMA TruthKept ==
    ASSUME NEW b, NEW e, Types, Types', Truthful(b), Moves(srv, b, srv', e),
           \A o \in ToSet(pipe') : o \in ToSet(pipe) \/ ReadTrue(o, srv', e),
           \A s \in SocketIds : \A m \in ToSet(link'[s].down) : m \in ToSet(link[s].down) \/ Current(m.view, srv', e),
           \A x \in rt'.starts : x \in rt.starts \/ Current(x.view, srv', e),
           \A x \in rt'.stops : x \in rt.stops \/ Current(x, srv', e),
           Answered(http'.post) => http'.post = http.post \/ Current(http'.post, srv', e),
           Answered(http'.del) => http'.del = http.del \/ Current(http'.del, srv', e)
    PROVE  Truthful(e)'
<1>1. BaseOK(srv', e)
  BY DEF Moves
<1>2. ASSUME NEW o \in ToSet(pipe')
      PROVE  ReadTrue(o, srv', e)
  <2>1. ToSet(pipe) \subseteq Command
    BY Typed
  <2>2. QED
    BY <2>1, ReadTrueMoves DEF Truthful
<1>3. ASSUME NEW s \in SocketIds, NEW m \in ToSet(link'[s].down)
      PROVE  Current(m.view, srv', e)
  <2>1. CASE m \in ToSet(link[s].down)
    <3>1. m.view \in Views
      BY <2>1, Typed DEF Message
    <3>2. Current(m.view, srv, b)
      BY <2>1 DEF Truthful
    <3>3. QED
      BY <3>1, <3>2, CurrentMoves
  <2>2. QED
    BY <2>1
<1>4. ASSUME NEW x \in rt'.starts
      PROVE  Current(x.view, srv', e)
  <2>1. CASE x \in rt.starts
    <3>1. x.view \in Views
      BY <2>1, Typed DEF Start
    <3>2. Current(x.view, srv, b)
      BY <2>1 DEF Truthful
    <3>3. QED
      BY <3>1, <3>2, CurrentMoves
  <2>2. QED
    BY <2>1
<1>5. ASSUME NEW x \in rt'.stops
      PROVE  Current(x, srv', e)
  BY Typed, CurrentMoves DEF Truthful
<1>6. /\ Answered(http'.post) => Current(http'.post, srv', e)
      /\ Answered(http'.del) => Current(http'.del, srv', e)
  BY AnsweredIsView, CurrentMoves DEF Truthful
<1>7. QED
  BY <1>1, <1>2, <1>3, <1>4, <1>5, <1>6 DEF Truthful
-----------------------------------------------------------------------------
(* What an answer of Redis does to the commands under way. *)

\* The command o is answered, and its handler goes on with those of n.
Takes(o, n) ==
    /\ pipe # <<>> /\ o = Head(pipe)
    /\ n \in Seq(Command) /\ pipe' = Tail(pipe) \o n

LEMMA TakesFacts ==
    ASSUME pipe \in Seq(Command), NEW o, NEW n, Takes(o, n)
    PROVE  /\ pipe' \in Seq(Command)
           /\ o \in Command /\ o \in ToSet(pipe)
           /\ ToSet(n) \subseteq ToSet(pipe')
           /\ ToSet(n) \subseteq Command
           /\ ToSet(Tail(pipe)) \subseteq ToSet(pipe')
           /\ \A x \in ToSet(pipe) : x = o \/ x \in ToSet(pipe')
           /\ \A x \in ToSet(pipe') : x \in ToSet(pipe) \/ x \in ToSet(n)
<1>1. Tail(pipe) \in Seq(Command) /\ n \in Seq(Command) /\ pipe' = Tail(pipe) \o n
  BY Taken DEF Takes
<1>2. pipe' \in Seq(Command) /\ ToSet(pipe') = ToSet(Tail(pipe)) \cup ToSet(n) /\ ToSet(n) \subseteq Command
  BY <1>1, TailJoined DEF Takes
<1>3. /\ o \in Command /\ o \in ToSet(pipe)
      /\ ToSet(Tail(pipe)) \subseteq ToSet(pipe) /\ ToSet(pipe) \subseteq ToSet(Tail(pipe)) \cup {o}
  BY Taken DEF Takes
<1>4. QED
  BY <1>2, <1>3

\* Nothing is added to the sockets but messages to the tab.
OnlyTells ==
    \A s \in SocketIds :
        /\ link'[s].open = link[s].open /\ link'[s].hub = link[s].hub /\ link'[s].up = link[s].up
        /\ \A m \in ToSet(link[s].down) : m \in ToSet(link'[s].down)

LEMMA OpenStays ==
    ASSUME Types, OnlyTells, tab'.sock = tab.sock
    PROVE  /\ Open' = Open
           /\ Open => tab.sock \in SocketIds
<1>1. tab.sock # 0 => tab.sock \in SocketIds
  BY Typed
<1>2. QED
  BY <1>1 DEF Open, OnlyTells

LEMMA IdsNat ==
    ASSUME Types, Types'
    PROVE  srv.id \in Nat /\ srv'.id \in Nat
BY LinkBoundsAssumption DEF Types, SrvOK, SrvT, Ids

\* A command of the chain of registration, or another one, hands over to the next.
HandsOver(o, n) ==
    /\ \A x \in ToSet(n) :
          /\ x.op \notin {"cancel", "disconnected"}
          /\ x.op = "mark" => o.op = "disconnected"
          /\ x.op = "broadcast" => srv'.id > srv.id
    /\ o.op = "connected" /\ srv.state \in Held => \E x \in ToSet(n) : x.op = "session" /\ x.arg = srv.id
    /\ o.op = "session" /\ o.arg = srv.id /\ srv.state = "reserved" =>
           \E x \in ToSet(n) : x.op = "claim" /\ x.arg = srv.id
    /\ o.op = "session" /\ o.arg = srv.id /\ srv.state = "away" =>
           \E x \in ToSet(n) : x.op = "reconnect" /\ x.arg = srv.id

LEMMA CancelOrderTakes ==
    ASSUME NEW b, Types, Types', CancelOrder, Truthful(b), NEW o, NEW n, Takes(o, n), HandsOver(o, n),
           srv'.id = srv.id \/ srv'.id > srv.id
    PROVE  CancelOrder'
<1>1. /\ Tail(pipe) \in Seq(Command) /\ n \in Seq(Command) /\ pipe' = Tail(pipe) \o n
      /\ pipe \in Seq(Command) /\ pipe # <<>>
  BY Taken DEF Takes, Types
<1>2. ToSet(n) \subseteq Command /\ srv.id \in Nat /\ srv'.id \in Nat
  BY <1>1, Joined, IdsNat
<1>3. CASE srv'.id = srv.id
  <2>1. ToSet(n) \cap Op("broadcast") = {}
    BY <1>2, <1>3 DEF HandsOver, Op
  <2>2. NoneBehind(Tail(pipe), For("cancel", srv.id), Op("broadcast"))
    BY <1>1, BehindTail DEF CancelOrder
  <2>3. NoneBehind(pipe', For("cancel", srv.id), Op("broadcast"))
    BY <1>1, <2>1, <2>2, BehindJoined
  <2>4. QED
    BY <1>3, <2>3 DEF CancelOrder
<1>4. CASE srv'.id > srv.id
  <2>1. \A x \in ToSet(pipe) : x \notin For("cancel", srv'.id)
    <3>1. ASSUME NEW x \in ToSet(pipe), x.op = "cancel"
          PROVE  x.arg # srv'.id
      <4>1. x \in Command
        BY <1>1, Joined
      <4>2. x.arg \in Nat
        BY <4>1, CommandFields, LinkBoundsAssumption DEF Ids
      <4>3. x.arg <= srv.id
        BY <3>1 DEF Truthful, ReadTrue
      <4>4. QED
        BY <1>2, <1>4, <4>2, <4>3
    <3>2. QED
      BY <3>1 DEF For
  <2>2. ToSet(Tail(pipe)) \cap For("cancel", srv'.id) = {}
    BY <1>1, <2>1, Taken
  <2>3. ToSet(n) \cap For("cancel", srv'.id) = {}
    BY DEF HandsOver, For
  <2>4. NoneBehind(pipe', For("cancel", srv'.id), Op("broadcast"))
    BY <1>1, <2>2, <2>3, BehindJoined
  <2>5. QED
    BY <2>4 DEF CancelOrder
<1>5. QED
  BY <1>3, <1>4

LEMMA GoneOrderTakes ==
    ASSUME Types, GoneOrder, NEW o, NEW n, Takes(o, n), HandsOver(o, n), OnlyTells, tab'.sock = tab.sock
    PROVE  /\ GoneOrder'
           /\ Open /\ o.op = "disconnected" => Registering'
<1>1. /\ Tail(pipe) \in Seq(Command) /\ n \in Seq(Command) /\ pipe' = Tail(pipe) \o n
      /\ pipe \in Seq(Command) /\ pipe # <<>> /\ o = Head(pipe)
  BY Taken DEF Takes, Types
<1>2. ToSet(n) \subseteq Command
  BY <1>1, Joined
<1>3. ToSet(n) \cap Op("disconnected") = {}
  BY <1>2 DEF HandsOver, Op
<1>4. ASSUME Open
      PROVE  /\ Followed(pipe', Op("disconnected"), Op("connected"))
             /\ o.op = "disconnected" => Registering'
  <2>1. Followed(pipe, Op("disconnected"), Op("connected"))
    BY <1>4 DEF GoneOrder
  <2>2. /\ Followed(Tail(pipe), Op("disconnected"), Op("connected"))
        /\ o \in Op("disconnected") => \E x \in ToSet(Tail(pipe)) : x \in Op("connected")
    BY <1>1, <2>1, FollowedTail
  <2>3. Followed(pipe', Op("disconnected"), Op("connected"))
    BY <1>1, <1>3, <2>2, FollowedJoined
  <2>4. ASSUME o.op = "disconnected"
        PROVE  Registering'
    <3>1. o \in Op("disconnected")
      BY <1>1, <2>4, Taken DEF Op
    <3>2. PICK x \in ToSet(Tail(pipe)) : x \in Op("connected")
      BY <2>2, <3>1
    <3>3. x \in ToSet(pipe') /\ x.op = "connected"
      BY <1>1, <3>2, TakesFacts DEF Op, Takes
    <3>4. QED
      BY <3>3 DEF Registering
  <2>5. QED
    BY <2>3, <2>4
<1>5. QED
  BY <1>4, OpenStays DEF GoneOrder

LEMMA MarkOrderTakes ==
    ASSUME Types, GoneOrder, MarkOrder, NEW o, NEW n, Takes(o, n), HandsOver(o, n), OnlyTells,
           tab'.sock = tab.sock, srv'.state \in Held => srv.state \in Held /\ srv'.id = srv.id
    PROVE  /\ MarkOrder'
           /\ Open /\ srv.state \in Held /\ o.op = "mark" /\ o.arg = srv.id =>
                  Registering' \/ \E x \in ToSet(pipe') : x.op = "session" /\ x.arg = srv.id
<1> DEFINE A == For("mark", srv.id)
           B == For("session", srv.id)
<1>1. /\ Tail(pipe) \in Seq(Command) /\ n \in Seq(Command) /\ pipe' = Tail(pipe) \o n
      /\ pipe \in Seq(Command) /\ pipe # <<>> /\ o = Head(pipe) /\ o \in Command
  BY Taken DEF Takes, Types
<1>2. ToSet(n) \subseteq Command
  BY <1>1, Joined
<1>3. ASSUME Open, srv.state \in Held
      PROVE  /\ Registering' \/ Followed(pipe', A, B)
             /\ o.op = "mark" /\ o.arg = srv.id =>
                    Registering' \/ \E x \in ToSet(pipe') : x.op = "session" /\ x.arg = srv.id
  <2>1. CASE \E x \in ToSet(n) : x.op = "mark"
    BY <1>3, <2>1, GoneOrderTakes DEF HandsOver
  <2>2. CASE Registering /\ o.op # "connected"
    BY <2>2, TakesFacts DEF Types, Registering
  <2>3. CASE o.op = "connected" /\ ~\E x \in ToSet(n) : x.op = "mark"
    <3>1. ToSet(n) \cap A = {}
      BY <1>2, <2>3 DEF For
    <3>2. \E x \in ToSet(n) : x \in B
      BY <1>2, <1>3, <2>3 DEF HandsOver, For
    <3>3. Followed(pipe', A, B)
      BY <1>1, <3>1, <3>2, FollowedJoined
    <3>4. QED
      BY <2>3, <3>3
  <2>4. CASE ~Registering /\ ~\E x \in ToSet(n) : x.op = "mark"
    <3>1. Followed(pipe, A, B)
      BY <1>3, <2>4 DEF MarkOrder
    <3>2. ToSet(n) \cap A = {}
      BY <1>2, <2>4 DEF For
    <3>3. /\ Followed(Tail(pipe), A, B)
          /\ o \in A => \E x \in ToSet(Tail(pipe)) : x \in B
      BY <1>1, <3>1, FollowedTail
    <3>4. Followed(pipe', A, B)
      BY <1>1, <3>2, <3>3, FollowedJoined
    <3>5. ASSUME o.op = "mark", o.arg = srv.id
          PROVE  \E x \in ToSet(pipe') : x.op = "session" /\ x.arg = srv.id
      <4>1. o \in A
        BY <1>1, <3>5 DEF For
      <4>2. PICK x \in ToSet(Tail(pipe)) : x \in B
        BY <3>3, <4>1
      <4>3. x \in ToSet(pipe')
        BY <1>1, <4>2, TakesFacts DEF Takes
      <4>4. QED
        BY <4>2, <4>3 DEF For
    <3>6. QED
      BY <3>4, <3>5
  <2>5. QED
    BY <2>1, <2>2, <2>3, <2>4
<1>4. ASSUME Open', srv'.state \in Held
      PROVE  Registering' \/ Followed(pipe', For("mark", srv'.id), For("session", srv'.id))
  BY <1>3, <1>4, OpenStays
<1>5. QED
  BY <1>3, <1>4 DEF MarkOrder

LEMMA WaysTake ==
    ASSUME Types, GoneOrder, MarkOrder, Claimed, Resumed, NEW o, NEW n, Takes(o, n), HandsOver(o, n), OnlyTells,
           tab'.sock = tab.sock,
           srv'.state = "reserved" /\ ~srv'.late => srv.state = "reserved" /\ ~srv.late /\ srv'.id = srv.id
                                                  /\ ~(o.op = "claim" /\ o.arg = srv.id),
           srv'.state = "away" /\ ~srv'.late /\ ~srv'.lapsed =>
               /\ srv'.id = srv.id
               /\ \/ srv.state = "away" /\ ~srv.late /\ ~srv.lapsed /\ ~(o.op = "reconnect" /\ o.arg = srv.id)
                  \/ srv.state = "active" /\ o.op = "mark" /\ o.arg = srv.id
    PROVE  Claimed' /\ Resumed'
<1>1. /\ \A x \in ToSet(pipe) : x = o \/ x \in ToSet(pipe')
      /\ ToSet(n) \subseteq ToSet(pipe')
  BY TakesFacts DEF Types
<1>2. Open' = Open /\ (Open => tab.sock \in SocketIds)
  BY OpenStays
<1>3. ASSUME Open', srv'.state = "reserved", ~srv'.late
      PROVE  \/ Registering'
             \/ \E x \in ToSet(pipe') : x.op \in {"session", "claim"} /\ x.arg = srv'.id
             \/ \E s \in SocketIds : \E u \in ToSet(link'[s].up) : u.msg = "claim" /\ u.id = srv'.id
             \/ \E m \in ToSet(link'[tab'.sock].down) :
                   m.how = "event" /\ m.view.is = "reserved" /\ m.view.id = srv'.id
  <2>1. CASE Registering
    BY <1>1, <1>3, <2>1 DEF Registering, HandsOver, Held
  <2>2. CASE \E x \in ToSet(pipe) : x.op \in {"session", "claim"} /\ x.arg = srv.id
    BY <1>1, <1>3, <2>2 DEF HandsOver
  <2>3. CASE \E s \in SocketIds : \E u \in ToSet(link[s].up) : u.msg = "claim" /\ u.id = srv.id
    BY <1>3, <2>3 DEF OnlyTells
  <2>4. CASE \E m \in ToSet(link[tab.sock].down) : m.how = "event" /\ m.view.is = "reserved" /\ m.view.id = srv.id
    BY <1>2, <1>3, <2>4 DEF OnlyTells
  <2>5. QED
    BY <1>2, <1>3, <2>1, <2>2, <2>3, <2>4 DEF Claimed
<1>4. ASSUME Open', srv'.state = "away", ~srv'.late, ~srv'.lapsed
      PROVE  \/ Registering'
             \/ \E x \in ToSet(pipe') : x.op \in {"session", "reconnect"} /\ x.arg = srv'.id
  <2>1. CASE srv.state = "active" /\ o.op = "mark" /\ o.arg = srv.id
    BY <1>2, <1>4, <2>1, MarkOrderTakes DEF Held
  <2>2. CASE Registering /\ srv.state = "away"
    BY <1>1, <1>4, <2>2 DEF Registering, HandsOver, Held
  <2>3. CASE /\ \E x \in ToSet(pipe) : x.op \in {"session", "reconnect"} /\ x.arg = srv.id
             /\ srv.state = "away" /\ ~(o.op = "reconnect" /\ o.arg = srv.id)
    BY <1>1, <1>4, <2>3 DEF HandsOver
  <2>4. QED
    BY <1>2, <1>4, <2>1, <2>2, <2>3 DEF Resumed
<1>5. QED
  BY <1>3, <1>4 DEF Claimed, Resumed
\* What the tab has been told stays right, and what it has not been told keeps coming.
LEMMA InformedKept ==
    ASSUME NEW b, NEW e, Types, Types', Informed(b), Moves(srv, b, srv', e), UNCHANGED <<tab, seen>>,
           Open' = Open,
           Open /\ (e = b => Coming(b)) => Coming(e)'
    PROVE  Informed(e)'
<1>1. /\ srv.ver \in Nat /\ srv'.ver \in Nat /\ seen.ver \in Nat /\ b \in Nat /\ e \in Nat
      /\ srv'.ver >= srv.ver /\ seen.ver <= srv.ver
  BY Typed DEF Moves, BaseOK, SrvT, Versions, Informed
<1>2. seen'.ver <= srv'.ver
  BY <1>1
<1>3. CASE e = b /\ srv'.id = srv.id /\ Alike(srv, srv')
  <2>1. Agrees \/ Missed(seen.ver) => (Agrees \/ Missed(seen.ver))'
    BY <1>1, <1>3 DEF Agrees, Missed, Alike
  <2>2. QED
    BY <1>2, <1>3, <2>1 DEF Informed
<1>4. CASE e = srv'.ver /\ srv'.ver > srv.ver
  <2>1. ~(seen'.ver >= e)
    BY <1>1, <1>4
  <2>2. e # b
    BY <1>1, <1>4 DEF Moves, BaseOK
  <2>3. QED
    BY <1>2, <2>1, <2>2 DEF Informed
<1>5. QED
  BY <1>3, <1>4 DEF Moves

LEMMA AskedStays ==
    ASSUME Types, Types', Asked, tab'.req = tab.req, http'.cancel = http.cancel,
           srv'.id = srv.id \/ srv'.id > srv.id
    PROVE  Asked'
<1>1. srv.id \in Nat /\ srv'.id \in Nat /\ tab.req \in Nat /\ http.cancel \in Nat
  BY Typed, IdsNat
<1>2. QED
  BY <1>1 DEF Asked

\* An answer of Redis that breaks nothing.
LEMMA AnswerKeeps ==
    ASSUME NEW b, NEW e \in Nat, Inv(b), Types', NEW o, NEW n, Takes(o, n), HandsOver(o, n), OnlyTells,
           Moves(srv, b, srv', e), UNCHANGED <<tab, seen>>,
           \A x \in ToSet(n) : ReadTrue(x, srv', e),
           \A s \in SocketIds : \A m \in ToSet(link'[s].down) : m \in ToSet(link[s].down) \/ Current(m.view, srv', e),
           \A x \in rt'.starts : x \in rt.starts \/ Current(x.view, srv', e),
           \A x \in rt'.stops : x \in rt.stops \/ Current(x, srv', e),
           Answered(http'.post) => http'.post = http.post \/ Current(http'.post, srv', e),
           Answered(http'.del) => http'.del = http.del \/ Current(http'.del, srv', e),
           http'.cancel = http.cancel,
           srv'.state \in Held => srv.state \in Held /\ srv'.id = srv.id,
           srv'.state = "reserved" /\ ~srv'.late => srv.state = "reserved" /\ ~srv.late /\ srv'.id = srv.id
                                                  /\ ~(o.op = "claim" /\ o.arg = srv.id),
           srv'.state = "away" /\ ~srv'.late /\ ~srv'.lapsed =>
               /\ srv'.id = srv.id
               /\ \/ srv.state = "away" /\ ~srv.late /\ ~srv.lapsed /\ ~(o.op = "reconnect" /\ o.arg = srv.id)
                  \/ srv.state = "active" /\ o.op = "mark" /\ o.arg = srv.id,
           Open /\ (e = b => Coming(b)) => Coming(e)'
    PROVE  Inv(e)'
<1> USE DEF Inv
<1>1. Truthful(e)'
  <2>1. \A x \in ToSet(pipe') : x \in ToSet(pipe) \/ ReadTrue(x, srv', e)
    BY TakesFacts DEF Types
  <2>2. QED
    BY <2>1, TruthKept
<1>2. LinkShape'
  BY DEF LinkShape, OnlyTells
<1>3. Informed(e)'
  BY OpenStays, InformedKept
<1>4. CancelOrder' /\ GoneOrder' /\ MarkOrder'
  <2>1. srv'.id = srv.id \/ srv'.id > srv.id
    BY DEF Moves
  <2>2. QED
    BY <2>1, CancelOrderTakes, GoneOrderTakes, MarkOrderTakes DEF Orders
<1>5. Claimed' /\ Resumed'
  BY WaysTake DEF Orders
<1>6. Asked'
  BY AskedStays DEF Moves
<1>7. QED
  BY <1>1, <1>2, <1>3, <1>4, <1>5, <1>6 DEF Orders

\* What comes to the tab keeps coming when the command o is answered, if its own is replaced.
LEMMA ComingTakes ==
    ASSUME NEW b, Types, NEW o, NEW n, Takes(o, n), OnlyTells, UNCHANGED tab, Open, Coming(b),
           srv.state = "waiting" => srv'.state = "waiting" \/ ~\E x \in ToSet(pipe) : x.op = "broadcast",
           \A x \in rt.starts : x \in rt'.starts,
           \A x \in rt.stops : x \in rt'.stops,
           WillTell(o, tab.sock, b) \/ (o.op = "broadcast" /\ srv.state = "waiting") =>
               \/ \E x \in ToSet(n) : WillTell(x, tab.sock, b)
               \/ \E m \in ToSet(link'[tab.sock].down) : m.view.ver >= b
               \/ \E x \in rt'.starts : x.view.ver >= b
    PROVE  Coming(b)'
<1>1. /\ \A x \in ToSet(pipe) : x = o \/ x \in ToSet(pipe')
      /\ ToSet(n) \subseteq ToSet(pipe')
  BY TakesFacts DEF Types
<1>2. tab.sock \in SocketIds
  BY OpenStays
<1>3. CASE \E m \in ToSet(link[tab.sock].down) : m.view.ver >= b
  BY <1>2, <1>3 DEF Coming, OnlyTells
<1>4. CASE \E x \in ToSet(pipe) : WillTell(x, tab.sock, b)
  BY <1>1, <1>4 DEF Coming
<1>5. CASE srv.state = "waiting" /\ \E x \in ToSet(pipe) : x.op = "broadcast"
  BY <1>1, <1>5 DEF Coming
<1>6. CASE \E x \in rt.starts : x.view.ver >= b
  BY <1>6 DEF Coming
<1>7. CASE \E x \in rt.stops : x.ver >= b
  BY <1>7 DEF Coming
<1>8. QED
  BY <1>3, <1>4, <1>5, <1>6, <1>7 DEF Coming
-----------------------------------------------------------------------------
(* The commands of Redis: those that only read. *)

LEMMA TypesTake ==
    ASSUME Types, NEW o, NEW n, Takes(o, n), UNCHANGED <<srv, rt, link, tab, seen, left>>,
           loaded' \in BOOLEAN, HttpOK'
    PROVE  Types'
<1>1. pipe' \in Seq(Command)
  BY TakesFacts DEF Types
<1>2. SrvOK' /\ RtOK' /\ LinkOK' /\ RestOK'
  BY DEF Types, SrvOK, RtOK, LinkOK, RestOK
<1>3. QED
  BY <1>1, <1>2 DEF Types

\* A command that reads, with what its handler issues next.
LEMMA ReadKeeps ==
    ASSUME NEW b \in Nat, Inv(b), NEW o, NEW n, Takes(o, n), HandsOver(o, n),
           UNCHANGED <<srv, rt, link, http, tab, seen, left>>, loaded' \in BOOLEAN,
           o.op # "broadcast",
           ~(o.op = "claim" /\ o.arg = srv.id /\ srv.state = "reserved" /\ ~srv.late),
           ~(o.op = "reconnect" /\ o.arg = srv.id /\ srv.state = "away" /\ ~srv.late),
           \A x \in ToSet(n) : ReadTrue(x, srv, b),
           Open /\ WillTell(o, tab.sock, b) => \E x \in ToSet(n) : WillTell(x, tab.sock, b)
    PROVE  LinkInv'
<1>1. Types' /\ OnlyTells
  <2>1. HttpOK'
    BY DEF Inv, Types, HttpOK, Answered
  <2>2. QED
    BY <2>1, TypesTake DEF Inv, OnlyTells
<1>2. Moves(srv, b, srv', b)
  BY Stays DEF Inv, Truthful
<1>3. Open /\ Coming(b) => Coming(b)'
  BY <1>1, ComingTakes DEF Inv
<1>4. Inv(b)'
  BY <1>1, <1>2, <1>3, AnswerKeeps
<1>5. QED
  BY <1>4 DEF LinkInv

\* A handler goes on with one command.
LEMMA TakesOne ==
    ASSUME Types, pipe # <<>>, NEW o, o = Head(pipe), NEW c \in Command
    PROVE  /\ pipe' = Append(Tail(pipe), c) => Takes(o, <<c>>)
           /\ pipe' = Tail(pipe) \o <<c>> => Takes(o, <<c>>)
           /\ ToSet(<<c>>) = {c}
<1> DEFINE t == Tail(pipe)
<1>1. t \in Seq(Command)
  BY Taken DEF Types
<1> HIDE DEF t
<1>2. /\ Append(t, c) = t \o <<c>> /\ <<c>> \in Seq(Command) /\ ToSet(<<c>>) = {c}
  BY <1>1, Short
<1>3. QED
  BY <1>2 DEF Takes, t

LEMMA TakesNone ==
    ASSUME Types, pipe # <<>>, NEW o, o = Head(pipe)
    PROVE  /\ pipe' = Tail(pipe) \/ pipe' = Tail(pipe) \o <<>> => Takes(o, <<>>)
           /\ ToSet(<<>>) = {}
<1> DEFINE t == Tail(pipe)
<1>1. t \in Seq(Command)
  BY Taken DEF Types
<1> HIDE DEF t
<1>2. t \o <<>> = t /\ <<>> \in Seq(Command) /\ ToSet(<<>>) = {}
  <2>1. PICK c : c \in Command
    BY IssueTyped, ZeroIsId
  <2>2. QED
    BY <1>1, <2>1, Short
<1>3. QED
  BY <1>2 DEF Takes, t

\* The command that is answered.
LEMMA HeadTyped ==
    ASSUME Types, pipe # <<>>, NEW o, o = Head(pipe)
    PROVE  /\ o \in Command /\ o \in ToSet(pipe) /\ o.by \in {0} \cup SocketIds /\ o.arg \in Ids
           /\ o.op \in Reading => o.view \in Views /\ (o.op \in {"held", "request"} => o.view.is = "idle")
<1>1. o \in Command /\ o \in ToSet(pipe)
  BY Taken DEF Types
<1>2. QED
  BY <1>1, CommandFields

LEMMA ConnectedKeeps ==
    ASSUME NEW b \in Nat, Inv(b), pipe # <<>>, NEW o, o = Head(pipe), o.op = "connected", Connected(o),
           UNCHANGED <<tab, seen, left>>
    PROVE  LinkInv'
<1>1. Types
  BY DEF Inv
<1>2. o \in Command /\ o.by \in {0} \cup SocketIds /\ o.op = "connected"
  BY <1>1, HeadTyped
<1>3. PICK c \in Command : /\ pipe' = Append(Tail(pipe), c) /\ c.by = o.by
                           /\ c.op = (IF srv.state \in Held THEN "session" ELSE "state")
                           /\ srv.state \in Held => c.arg = srv.id
  <2>1. CASE srv.state \in Held
    <3>1. Issue("session", o.by, srv.id) \in Command
      BY <1>1, <1>2, Typed, IssueTyped
    <3>2. QED
      BY <2>1, <3>1, CmdFields DEF Connected
  <2>2. CASE srv.state \notin Held
    <3>1. Issue("state", o.by, 0) \in Command
      BY <1>2, IssueTyped, ZeroIsId
    <3>2. QED
      BY <2>2, <3>1, CmdFields DEF Connected
  <2>3. QED
    BY <2>1, <2>2
<1>4. Takes(o, <<c>>) /\ ToSet(<<c>>) = {c}
  BY <1>1, <1>3, TakesOne
<1>5. HandsOver(o, <<c>>) /\ ReadTrue(c, srv, b) /\ (WillTell(o, tab.sock, b) => WillTell(c, tab.sock, b))
  BY <1>2, <1>3, <1>4 DEF HandsOver, ReadTrue, WillTell
<1>6. UNCHANGED <<srv, loaded, rt, link, http, tab, seen, left>>
  BY DEF Connected
<1>7. QED
  BY <1>1, <1>2, <1>4, <1>5, <1>6, ReadKeeps DEF Types, RestOK

LEMMA SessionKeeps ==
    ASSUME NEW b \in Nat, Inv(b), pipe # <<>>, NEW o, o = Head(pipe), o.op = "session", SessionRead(o),
           UNCHANGED <<tab, seen, left>>
    PROVE  LinkInv'
<1> DEFINE next == CASE o.arg = srv.id /\ srv.state = "away" -> "reconnect"
                     [] o.arg = srv.id /\ srv.state = "reserved" -> "claim"
                     [] OTHER -> "state"
<1>1. Types
  BY DEF Inv
<1>2. o \in Command /\ o.by \in {0} \cup SocketIds /\ o.arg \in Ids /\ o.op = "session"
  BY <1>1, HeadTyped
<1>3. PICK c \in Command : /\ pipe' = Append(Tail(pipe), c) /\ c.by = o.by
                           /\ c.op = next
                           /\ c.op # "state" => c.arg = srv.id
  <2>1. CASE o.arg = srv.id /\ srv.state = "away"
    <3>1. Issue("reconnect", o.by, o.arg) \in Command
      BY <1>2, IssueTyped
    <3>2. QED
      BY <2>1, <3>1, CmdFields DEF SessionRead
  <2>2. CASE o.arg = srv.id /\ srv.state = "reserved"
    <3>1. Issue("claim", o.by, o.arg) \in Command
      BY <1>2, IssueTyped
    <3>2. QED
      BY <2>2, <3>1, CmdFields DEF SessionRead
  <2>3. CASE ~(o.arg = srv.id /\ srv.state \in {"away", "reserved"})
    <3>1. Issue("state", o.by, 0) \in Command
      BY <1>2, IssueTyped, ZeroIsId
    <3>2. pipe' = Append(Tail(pipe), Issue("state", o.by, 0)) /\ next = "state"
      BY <2>3 DEF SessionRead
    <3>3. QED
      BY <3>1, <3>2, CmdFields
  <2>4. QED
    BY <2>1, <2>2, <2>3
<1>4. Takes(o, <<c>>) /\ ToSet(<<c>>) = {c}
  BY <1>1, <1>3, TakesOne
<1>5. c.op \in {"reconnect", "claim", "state"}
  BY <1>3
<1>6. HandsOver(o, <<c>>) /\ ReadTrue(c, srv, b) /\ (WillTell(o, tab.sock, b) => WillTell(c, tab.sock, b))
  BY <1>2, <1>3, <1>4, <1>5 DEF HandsOver, ReadTrue, WillTell
<1>7. UNCHANGED <<srv, loaded, rt, link, http, tab, seen, left>>
  BY DEF SessionRead
<1>8. QED
  BY <1>1, <1>2, <1>4, <1>6, <1>7, ReadKeeps DEF Types, RestOK

LEMMA StateKeeps ==
    ASSUME NEW b \in Nat, Inv(b), pipe # <<>>, NEW o, o = Head(pipe), o.op = "state", StateRead(o),
           UNCHANGED <<tab, seen, left>>
    PROVE  LinkInv'
<1> DEFINE v == View(srv, "idle")
<1>1. Types /\ srv \in SrvT /\ srv.id \in Ids /\ BaseOK(srv, b) /\ srv.ver \in Nat /\ srv.id \in Nat
  BY Typed DEF Inv, Truthful
<1>2. o \in Command /\ o.by \in {0} \cup SocketIds /\ o.op = "state"
  BY <1>1, HeadTyped
<1>3. v \in Views /\ v.is = "idle" /\ v.ver = srv.ver /\ v.id = srv.id
  BY <1>1, ViewTyped DEF Phases
<1> HIDE DEF v
<1>4. PICK c \in Command : /\ pipe' = Append(Tail(pipe), c) /\ c.by = o.by /\ c.view = v
                           /\ c.op = (IF srv.state \in Held THEN "held" ELSE "request")
                           /\ srv.state \in Held => c.arg = srv.id
  <2>1. CASE srv.state \in Held
    <3>1. Cmd("held", o.by, srv.id, v) \in Command
      BY <1>1, <1>2, <1>3, CmdTyped DEF Reading
    <3>2. QED
      BY <2>1, <3>1, CmdFields DEF StateRead, v
  <2>2. CASE srv.state \notin Held
    <3>1. Cmd("request", o.by, 0, v) \in Command
      BY <1>2, <1>3, CmdTyped, ZeroIsId DEF Reading
    <3>2. QED
      BY <2>2, <3>1, CmdFields DEF StateRead, v
  <2>3. QED
    BY <2>1, <2>2
<1>5. Takes(o, <<c>>) /\ ToSet(<<c>>) = {c}
  BY <1>1, <1>4, TakesOne
<1>6. srv.state \notin Held => srv.state \in {"idle", "waiting"}
  BY <1>1, Typed
<1>7. HandsOver(o, <<c>>) /\ ReadTrue(c, srv, b) /\ (WillTell(o, tab.sock, b) => WillTell(c, tab.sock, b))
  BY <1>1, <1>2, <1>3, <1>4, <1>5, <1>6 DEF HandsOver, ReadTrue, WillTell, Reading, BaseOK
<1>8. UNCHANGED <<srv, loaded, rt, link, http, tab, seen, left>>
  BY DEF StateRead
<1>9. QED
  BY <1>1, <1>2, <1>5, <1>7, <1>8, ReadKeeps DEF Types, RestOK
\* getStateByClientId is answered with a view that is current.
LEMMA AnswerStep ==
    ASSUME NEW b \in Nat, Inv(b), pipe # <<>>, NEW o, o = Head(pipe), o.op \in {"held", "request", "device"},
           NEW view \in Views, Answer(o, view), Current(view, srv, b),
           WillTell(o, tab.sock, b) => view.ver >= b,
           UNCHANGED <<srv, loaded, rt, link, tab, seen, left>>
    PROVE  LinkInv'
<1>1. Types /\ o \in Command /\ o.by \in {0} \cup SocketIds
  BY HeadTyped DEF Inv
<1>2. /\ HttpOK' /\ http'.del = http.del /\ http'.cancel = http.cancel
      /\ Answered(http'.post) => http'.post = http.post \/ Current(http'.post, srv, b)
  <2>1. CASE o.by = 0 /\ http.post = Awaited
    <3>1. PICK x \in Views \cup {None, Awaited} : x = IF view.is = "waiting" THEN view ELSE None
      OBVIOUS
    <3>2. http' = [http EXCEPT !.post = x]
      BY <2>1, <3>1 DEF Answer
    <3>3. http' \in HttpT /\ http'.post = x /\ http'.del = http.del /\ http'.cancel = http.cancel
      BY <1>1, <3>2, HttpUpdates
    <3>4. Answered(x) => x = view /\ view.is = "waiting"
      BY <3>1 DEF Answered
    <3>5. QED
      BY <1>1, <3>3, <3>4 DEF HttpOK, Types, Answered
  <2>2. CASE ~(o.by = 0 /\ http.post = Awaited)
    <3>1. http' = http
      BY <2>2 DEF Answer
    <3>2. QED
      BY <1>1, <3>1 DEF HttpOK, Types, Answered
  <2>3. QED
    BY <2>1, <2>2
<1>3. PICK n : /\ Takes(o, n)
               /\ \A x \in ToSet(n) : x.op = "pool" /\ x.by = o.by /\ x.view = view
               /\ o.by # 0 => ToSet(n) # {}
  <2>1. CASE o.by = 0
    <3>1. Takes(o, <<>>) /\ ToSet(<<>>) = {}
      BY <1>1, <2>1, TakesNone DEF Answer
    <3>2. QED
      BY <2>1, <3>1
  <2>2. CASE o.by # 0
    <3>1. PICK c \in Command : c = Cmd("pool", o.by, 0, view)
      BY <1>1, CmdTyped, ZeroIsId DEF Reading
    <3>2. pipe' = Tail(pipe) \o <<c>>
      BY <2>2, <3>1 DEF Answer
    <3>3. Takes(o, <<c>>) /\ ToSet(<<c>>) = {c}
      BY <1>1, <3>2, TakesOne
    <3>4. c.op = "pool" /\ c.by = o.by /\ c.view = view
      BY <3>1, CmdFields
    <3>5. QED
      BY <3>3, <3>4
  <2>3. QED
    BY <2>1, <2>2
<1>4. Types' /\ OnlyTells
  BY <1>1, <1>2, <1>3, TypesTake DEF Types, RestOK, OnlyTells
<1>5. HandsOver(o, n) /\ \A x \in ToSet(n) : ReadTrue(x, srv, b)
  BY <1>3 DEF HandsOver, ReadTrue
<1>6. Moves(srv, b, srv', b)
  BY <1>1, Stays DEF Inv, Truthful
<1>7. ASSUME Open, Coming(b)
      PROVE  Coming(b)'
  <2>1. tab.sock # 0
    BY <1>7 DEF Open
  <2>2. WillTell(o, tab.sock, b) => \E x \in ToSet(n) : WillTell(x, tab.sock, b)
    BY <1>3, <2>1 DEF WillTell, Reading
  <2>3. QED
    BY <1>1, <1>2, <1>3, <1>4, <1>7, <2>2, ComingTakes
<1>8. Inv(b)'
  BY <1>2, <1>3, <1>4, <1>5, <1>6, <1>7, AnswerKeeps
<1>9. QED
  BY <1>8 DEF LinkInv

LEMMA HeldKeeps ==
    ASSUME NEW b \in Nat, Inv(b), pipe # <<>>, NEW o, o = Head(pipe), o.op = "held", HeldRead(o),
           UNCHANGED <<tab, seen, left>>
    PROVE  LinkInv'
<1>1. /\ Types /\ srv \in SrvT /\ BaseOK(srv, b) /\ srv.ver \in Nat /\ srv.id \in Nat
      /\ srv.state \in Held \cup {"idle", "waiting"}
  BY Typed DEF Inv, Truthful
<1>2. /\ o \in Command /\ o \in ToSet(pipe) /\ o.by \in {0} \cup SocketIds
      /\ o.view \in Views /\ o.view.is = "idle"
  BY <1>1, HeadTyped DEF Reading
<1>3. ReadTrue(o, srv, b)
  BY <1>2 DEF Inv, Truthful
<1>4. UNCHANGED <<srv, loaded, rt, link, tab, seen, left>>
  BY DEF HeldRead
<1>5. CASE o.arg = srv.id /\ srv.state = "reserved"
  <2>1. PICK v \in Views : v = View(srv, "reserved") /\ v.is = "reserved" /\ v.id = srv.id /\ v.ver = srv.ver
    BY <1>1, ViewTyped DEF Phases
  <2>2. Answer(o, v)
    BY <1>5, <2>1 DEF HeldRead
  <2>3. Current(v, srv, b) /\ v.ver >= b
    BY <1>1, <1>5, <2>1 DEF Current, Shows, BaseOK
  <2>4. QED
    BY <1>4, <2>2, <2>3, AnswerStep
<1>6. CASE o.arg = srv.id /\ srv.state \in {"active", "away"}
  <2>1. PICK v \in Views : v = View(srv, "active") /\ v.is = "active" /\ v.id = srv.id /\ v.ver = srv.ver
    BY <1>1, ViewTyped DEF Phases
  <2>2. PICK c \in Command : c = Cmd("device", o.by, 0, v)
    BY <1>2, CmdTyped, ZeroIsId DEF Reading
  <2>3. pipe' = Append(Tail(pipe), c) /\ UNCHANGED http
    BY <1>6, <2>1, <2>2 DEF HeldRead, Held
  <2>4. c.op = "device" /\ c.by = o.by /\ c.view = v
    BY <2>2, CmdFields
  <2>5. Takes(o, <<c>>) /\ ToSet(<<c>>) = {c}
    BY <1>1, <2>3, TakesOne
  <2>6. Current(v, srv, b) /\ v.ver >= b
    BY <1>1, <1>6, <2>1 DEF Current, Shows, BaseOK
  <2>7. HandsOver(o, <<c>>) /\ ReadTrue(c, srv, b) /\ (WillTell(o, tab.sock, b) => WillTell(c, tab.sock, b))
    BY <2>4, <2>5, <2>6 DEF HandsOver, ReadTrue, WillTell, Reading
  <2>8. QED
    BY <1>1, <1>4, <2>3, <2>5, <2>7, ReadKeeps DEF Types, RestOK
<1>7. CASE ~(o.arg = srv.id /\ srv.state \in Held)
  <2>1. PICK c \in Command : c = Cmd("request", o.by, 0, o.view)
    BY <1>2, CmdTyped, ZeroIsId DEF Reading
  <2>2. pipe' = Append(Tail(pipe), c) /\ UNCHANGED http
    BY <1>7, <2>1 DEF HeldRead, Held
  <2>3. c.op = "request" /\ c.by = o.by /\ c.view = o.view
    BY <2>1, CmdFields
  <2>4. Takes(o, <<c>>) /\ ToSet(<<c>>) = {c}
    BY <1>1, <2>2, TakesOne
  <2>5. HandsOver(o, <<c>>) /\ ReadTrue(c, srv, b) /\ (WillTell(o, tab.sock, b) => WillTell(c, tab.sock, b))
    BY <1>3, <1>7, <2>3, <2>4 DEF HandsOver, ReadTrue, WillTell, Reading
  <2>6. QED
    BY <1>1, <1>4, <2>2, <2>4, <2>5, ReadKeeps DEF Types, RestOK
<1>8. QED
  BY <1>5, <1>6, <1>7 DEF Held

LEMMA DeviceKeeps ==
    ASSUME NEW b \in Nat, Inv(b), pipe # <<>>, NEW o, o = Head(pipe), o.op = "device", DeviceRead(o),
           UNCHANGED <<tab, seen, left>>
    PROVE  LinkInv'
<1>1. o \in Command /\ o \in ToSet(pipe) /\ o.view \in Views
  BY HeadTyped DEF Inv, Reading
<1>2. Current(o.view, srv, b)
  BY <1>1 DEF Inv, Truthful, ReadTrue
<1>3. WillTell(o, tab.sock, b) => o.view.ver >= b
  BY DEF WillTell
<1>4. Answer(o, o.view) /\ UNCHANGED <<srv, loaded, rt, link, tab, seen, left>>
  BY DEF DeviceRead
<1>5. QED
  BY <1>1, <1>2, <1>3, <1>4, AnswerStep

LEMMA RequestKeeps ==
    ASSUME NEW b \in Nat, Inv(b), pipe # <<>>, NEW o, o = Head(pipe), o.op = "request", RequestRead(o),
           UNCHANGED <<tab, seen, left>>
    PROVE  LinkInv'
<1>1. /\ Types /\ srv \in SrvT /\ BaseOK(srv, b) /\ srv.ver \in Nat /\ srv.id \in Nat
  BY Typed DEF Inv, Truthful
<1>2. /\ o \in Command /\ o \in ToSet(pipe)
      /\ o.view \in Views /\ o.view.is = "idle"
  BY <1>1, HeadTyped DEF Reading
<1>3. ReadTrue(o, srv, b)
  BY <1>2 DEF Inv, Truthful
<1>4. UNCHANGED <<srv, loaded, rt, link, tab, seen, left>>
  BY DEF RequestRead
<1>5. CASE srv.state = "waiting"
  <2>1. PICK v \in Views : v = View(srv, "waiting") /\ v.is = "waiting" /\ v.id = srv.id /\ v.ver = srv.ver
    BY <1>1, ViewTyped DEF Phases
  <2>2. Answer(o, v)
    BY <1>5, <2>1 DEF RequestRead
  <2>3. Current(v, srv, b) /\ v.ver >= b
    BY <1>1, <1>5, <2>1 DEF Current, Shows, BaseOK
  <2>4. QED
    BY <1>4, <2>2, <2>3, AnswerStep
<1>6. CASE srv.state # "waiting"
  <2>1. Answer(o, o.view)
    BY <1>6 DEF RequestRead
  <2>2. Current(o.view, srv, b)
    BY <1>2, <1>3, <1>6 DEF Current, Shows, ReadTrue
  <2>3. WillTell(o, tab.sock, b) => o.view.ver >= b
    BY DEF WillTell
  <2>4. QED
    BY <1>2, <1>4, <2>1, <2>2, <2>3, AnswerStep
<1>7. QED
  BY <1>5, <1>6

LEMMA DisconnectedKeeps ==
    ASSUME NEW b \in Nat, Inv(b), pipe # <<>>, NEW o, o = Head(pipe), o.op = "disconnected", DisconnectedRead(o),
           UNCHANGED <<tab, seen, left>>
    PROVE  LinkInv'
<1>1. Types /\ srv.id \in Ids /\ srv.id \in Nat /\ loaded \in BOOLEAN
  BY Typed DEF Inv, Types, RestOK
<1>2. UNCHANGED <<srv, loaded, rt, link, http, tab, seen, left>>
  BY DEF DisconnectedRead
<1>3. PICK n : /\ Takes(o, n)
               /\ \A x \in ToSet(n) : x.op \in {"mark", "load"} /\ x.arg = srv.id /\ srv.state \in Held
  <2>1. CASE srv.state \notin Held
    <3>1. Takes(o, <<>>) /\ ToSet(<<>>) = {}
      BY <1>1, <2>1, TakesNone DEF DisconnectedRead
    <3>2. QED
      BY <3>1
  <2>2. CASE srv.state \in Held
    <3>1. PICK op \in {"mark", "load"} : op = IF loaded THEN "mark" ELSE "load"
      OBVIOUS
    <3>2. PICK c \in Command : c = Issue(op, 0, srv.id)
      BY <1>1, IssueTyped
    <3>3. pipe' = Tail(pipe) \o <<c>>
      BY <2>2, <3>1, <3>2 DEF DisconnectedRead
    <3>4. Takes(o, <<c>>) /\ ToSet(<<c>>) = {c}
      BY <1>1, <3>3, TakesOne
    <3>5. c.op \in {"mark", "load"} /\ c.arg = srv.id
      BY <3>2, CmdFields
    <3>6. QED
      BY <2>2, <3>4, <3>5
  <2>3. QED
    BY <2>1, <2>2
<1>4. HandsOver(o, n) /\ ~WillTell(o, tab.sock, b)
  BY <1>3 DEF HandsOver, WillTell, Reading
<1>5. \A x \in ToSet(n) : ReadTrue(x, srv, b)
  BY <1>1, <1>3 DEF ReadTrue, Held
<1>6. QED
  BY <1>1, <1>2, <1>3, <1>4, <1>5, ReadKeeps

LEMMA LoadKeeps ==
    ASSUME NEW b \in Nat, Inv(b), pipe # <<>>, NEW o, o = Head(pipe), o.op = "load", Loads(o),
           UNCHANGED <<tab, seen, left>>
    PROVE  LinkInv'
<1>1. Types /\ o.arg \in Ids
  BY HeadTyped DEF Inv
<1>2. PICK c \in Command : c = Issue("firstmark", 0, o.arg)
  BY <1>1, IssueTyped
<1>3. c.op = "firstmark"
  BY <1>2, CmdFields
<1>4. Takes(o, <<c>>) /\ ToSet(<<c>>) = {c}
  BY <1>1, <1>2, TakesOne DEF Loads
<1>5. HandsOver(o, <<c>>) /\ ReadTrue(c, srv, b) /\ ~WillTell(o, tab.sock, b)
  BY <1>3, <1>4 DEF HandsOver, ReadTrue, WillTell, Reading
<1>6. UNCHANGED <<srv, rt, link, http, tab, seen, left>> /\ loaded' \in BOOLEAN
  BY DEF Loads
<1>7. QED
  BY <1>4, <1>5, <1>6, ReadKeeps

LEMMA EndReadKeeps ==
    ASSUME NEW b \in Nat, Inv(b), pipe # <<>>, NEW o, o = Head(pipe), o.op = "end", EndRead(o),
           UNCHANGED <<tab, seen, left>>
    PROVE  LinkInv'
<1>1. Types /\ o.arg \in Ids
  BY HeadTyped DEF Inv
<1>2. PICK c \in Command : c = Issue("terminate", 0, o.arg)
  BY <1>1, IssueTyped
<1>3. c.op = "terminate"
  BY <1>2, CmdFields
<1>4. Takes(o, <<c>>) /\ ToSet(<<c>>) = {c}
  BY <1>1, <1>2, TakesOne DEF EndRead
<1>5. HandsOver(o, <<c>>) /\ ReadTrue(c, srv, b) /\ ~WillTell(o, tab.sock, b)
  BY <1>3, <1>4 DEF HandsOver, ReadTrue, WillTell, Reading
<1>6. UNCHANGED <<srv, loaded, rt, link, http, tab, seen, left>>
  BY DEF EndRead
<1>7. QED
  BY <1>1, <1>4, <1>5, <1>6, ReadKeeps DEF Types, RestOK
-----------------------------------------------------------------------------
(* The commands of Redis: those that tell the tab or move the client. *)

\* A queue with one more message.
Grown(z, p, x) == z = p \o <<x>>

LEMMA GrownIs ==
    ASSUME NEW S, NEW p \in Seq(S), NEW x \in S, NEW z, Grown(z, p, x)
    PROVE  z \in Seq(S) /\ ToSet(z) = ToSet(p) \cup {x}
<1>1. /\ Len(p) \in Nat /\ DOMAIN p = 1 .. Len(p)
      /\ p \o <<x>> \in Seq(S)
      /\ DOMAIN (p \o <<x>>) = 1 .. Len(p) + 1
      /\ \A i \in 1 .. Len(p) : (p \o <<x>>)[i] = p[i]
      /\ (p \o <<x>>)[Len(p) + 1] = x
  OBVIOUS
<1>2. QED
  BY <1>1 DEF ToSet, Grown

\* A message to the sockets of socks that are open.
Adds(socks, how, view) ==
    /\ LinkOK' /\ OnlyTells
    /\ \A s \in SocketIds : \A m \in ToSet(link'[s].down) : m \in ToSet(link[s].down) \/ m.view = view
    /\ \A s \in SocketIds : s \in socks /\ link[s].hub /\ link[s].open =>
           \E m \in ToSet(link'[s].down) : m.how = how /\ m.view = view

LEMMA Tells ==
    ASSUME Types, NEW socks, NEW how \in {"event", "hello"}, NEW view \in Views, link' = Sent(socks, how, view)
    PROVE  Adds(socks, how, view)
<1> DEFINE x == [how |-> how, view |-> view]
<1>1. x \in Message /\ x.how = how /\ x.view = view
  BY DEF Message
<1>2. ASSUME NEW s \in SocketIds
      PROVE  /\ link'[s].open = link[s].open /\ link'[s].hub = link[s].hub /\ link'[s].up = link[s].up
             /\ \/ link'[s].down = link[s].down /\ ~(s \in socks /\ link[s].hub /\ link[s].open)
                \/ ToSet(link'[s].down) = ToSet(link[s].down) \cup {x}
  <2>1. /\ link'[s].open = link[s].open /\ link'[s].hub = link[s].hub /\ link'[s].up = link[s].up
        /\ IF s \in socks /\ link[s].hub /\ link[s].open
             THEN Grown(link'[s].down, link[s].down, x)
             ELSE link'[s].down = link[s].down
    BY SentTyped DEF Grown
  <2> HIDE DEF x
  <2>2. link[s].down \in Seq(Message)
    BY Typed
  <2>3. Grown(link'[s].down, link[s].down, x) => ToSet(link'[s].down) = ToSet(link[s].down) \cup {x}
    BY <1>1, <2>2, GrownIs
  <2>4. QED
    BY <2>1, <2>3
<1> HIDE DEF x
<1>3. LinkOK'
  BY SentTyped
<1>4. OnlyTells
  BY <1>2 DEF OnlyTells
<1>5. ASSUME NEW s \in SocketIds, NEW m \in ToSet(link'[s].down)
      PROVE  m \in ToSet(link[s].down) \/ m.view = view
  BY <1>1, <1>2
<1>6. ASSUME NEW s \in SocketIds, s \in socks, link[s].hub, link[s].open
      PROVE  \E m \in ToSet(link'[s].down) : m.how = how /\ m.view = view
  BY <1>1, <1>2, <1>6
<1>7. QED
  BY <1>3, <1>4, <1>5, <1>6 DEF Adds

\* Whoever tells every socket tells a connected tab.
LEMMA ToldTells ==
    ASSUME Types, NEW view \in Views, Told(view)
    PROVE  /\ LinkOK' /\ OnlyTells
           /\ \A s \in SocketIds : \A m \in ToSet(link'[s].down) : m \in ToSet(link[s].down) \/ m.view = view
           /\ LinkShape /\ Open => \E m \in ToSet(link'[tab.sock].down) : m.how = "event" /\ m.view = view
<1>1. Adds(SocketIds, "event", view)
  BY Tells DEF Told
<1>2. LinkShape /\ Open => tab.sock \in SocketIds /\ link[tab.sock].open /\ link[tab.sock].hub
  BY Typed DEF Open, LinkShape
<1>3. QED
  BY <1>1, <1>2 DEF Adds

LEMMA PoolKeeps ==
    ASSUME NEW b \in Nat, Inv(b), pipe # <<>>, NEW o, o = Head(pipe), o.op = "pool", PoolRead(o),
           UNCHANGED <<tab, seen, left>>
    PROVE  LinkInv'
<1>1. Types /\ o \in Command /\ o \in ToSet(pipe) /\ o.view \in Views
  BY HeadTyped DEF Inv, Reading
<1>2. Takes(o, <<>>) /\ ToSet(<<>>) = {}
  BY <1>1, TakesNone DEF PoolRead
<1>3. /\ LinkOK' /\ OnlyTells
      /\ \A s \in SocketIds : \A m \in ToSet(link'[s].down) : m \in ToSet(link[s].down) \/ m.view = o.view
      /\ \A s \in SocketIds : s \in {o.by} /\ link[s].hub /\ link[s].open =>
             \E m \in ToSet(link'[s].down) : m.how = "hello" /\ m.view = o.view
  <2>1. Adds({o.by}, "hello", o.view)
    BY <1>1, Tells DEF PoolRead
  <2>2. QED
    BY <2>1 DEF Adds
<1>4. Types'
  <2>1. pipe' \in Seq(Command)
    BY <1>1, <1>2, TakesFacts DEF Types
  <2>2. SrvOK' /\ RtOK' /\ HttpOK' /\ RestOK'
    BY <1>1 DEF PoolRead, Types, SrvOK, RtOK, HttpOK, Answered, RestOK
  <2>3. QED
    BY <1>3, <2>1, <2>2 DEF Types
<1>5. Current(o.view, srv, b) /\ HandsOver(o, <<>>)
  BY <1>1, <1>2 DEF Inv, Truthful, ReadTrue, HandsOver
<1>6. Moves(srv, b, srv', b) /\ UNCHANGED <<srv, rt, http>>
  BY <1>1, Stays DEF Inv, Truthful, PoolRead
<1>7. ASSUME Open, Coming(b)
      PROVE  Coming(b)'
  <2>1. tab.sock \in SocketIds /\ link[tab.sock].open /\ link[tab.sock].hub
    BY <1>1, <1>7, Typed DEF Open, Inv, LinkShape
  <2>2. WillTell(o, tab.sock, b) => \E m \in ToSet(link'[tab.sock].down) : m.view.ver >= b
    BY <1>3, <2>1 DEF WillTell
  <2>3. QED
    BY <1>1, <1>2, <1>3, <1>6, <1>7, <2>2, ComingTakes
<1>8. Inv(b)'
  BY <1>2, <1>3, <1>4, <1>5, <1>6, <1>7, AnswerKeeps
<1>9. QED
  BY <1>8 DEF LinkInv

LEMMA BroadcastKeeps ==
    ASSUME NEW b \in Nat, Inv(b), pipe # <<>>, NEW o, o = Head(pipe), o.op = "broadcast", Broadcasts(o),
           UNCHANGED <<tab, seen, left>>
    PROVE  LinkInv'
<1>1. Types /\ o \in Command /\ srv \in SrvT /\ srv.ver \in Nat /\ srv.id \in Nat /\ BaseOK(srv, b)
  BY HeadTyped, Typed DEF Inv, Truthful
<1>2. Takes(o, <<>>) /\ ToSet(<<>>) = {}
  BY <1>1, TakesNone DEF Broadcasts
<1>3. PICK v \in Views : v = View(srv, "waiting") /\ v.is = "waiting" /\ v.id = srv.id /\ v.ver = srv.ver
  BY <1>1, ViewTyped DEF Phases
<1>4. /\ LinkOK' /\ OnlyTells
      /\ \A s \in SocketIds : \A m \in ToSet(link'[s].down) : m \in ToSet(link[s].down)
                                              \/ (m.view = v /\ srv.state = "waiting")
  <2>1. CASE srv.state = "waiting"
    <3>1. Told(v)
      BY <1>3, <2>1 DEF Broadcasts
    <3>2. QED
      BY <1>1, <2>1, <3>1, ToldTells
  <2>2. CASE srv.state # "waiting"
    BY <1>1, <2>2 DEF Broadcasts, Types, LinkOK, OnlyTells
  <2>3. QED
    BY <2>1, <2>2
<1>5. Types'
  <2>1. pipe' \in Seq(Command)
    BY <1>1, <1>2, TakesFacts DEF Types
  <2>2. SrvOK' /\ RtOK' /\ HttpOK' /\ RestOK'
    BY <1>1 DEF Broadcasts, Types, SrvOK, RtOK, HttpOK, Answered, RestOK
  <2>3. QED
    BY <1>4, <2>1, <2>2 DEF Types
<1>6. HandsOver(o, <<>>)
  BY <1>2 DEF HandsOver
<1>7. srv.state = "waiting" => Current(v, srv, b) /\ v.ver >= b
  BY <1>1, <1>3 DEF Current, Shows, BaseOK
<1>8. Moves(srv, b, srv', b) /\ UNCHANGED <<srv, rt, http>>
  BY <1>1, Stays DEF Broadcasts
<1>9. ASSUME Open, Coming(b)
      PROVE  Coming(b)'
  <2>1. srv.state = "waiting" => \E m \in ToSet(link'[tab.sock].down) : m.view.ver >= b
    <3>1. srv.state = "waiting" => Told(v)
      BY <1>3 DEF Broadcasts
    <3>2. QED
      BY <1>1, <1>7, <1>9, <3>1, ToldTells DEF Inv
  <2>2. ~WillTell(o, tab.sock, b)
    BY DEF WillTell, Reading
  <2>3. QED
    BY <1>1, <1>2, <1>4, <1>8, <1>9, <2>1, <2>2, ComingTakes
<1>10. Inv(b)'
  BY <1>2, <1>4, <1>5, <1>6, <1>7, <1>8, <1>9, AnswerKeeps
<1>11. QED
  BY <1>10 DEF LinkInv

\* After a claim or a reconnect the registration goes on; an HTTP or WebSocket request does not.
LEMMA TakesOn ==
    ASSUME Types, pipe # <<>>, NEW o, o = Head(pipe),
           pipe' = Tail(pipe) \o (IF o.by = 0 THEN <<>> ELSE <<Issue("state", o.by, 0)>>)
    PROVE  \E n : /\ Takes(o, n)
                  /\ \A x \in ToSet(n) : x.op = "state" /\ x.by = o.by
                  /\ o.by # 0 => ToSet(n) # {}
<1>1. CASE o.by = 0
  <2>1. Takes(o, <<>>) /\ ToSet(<<>>) = {}
    BY <1>1, TakesNone
  <2>2. QED
    BY <1>1, <2>1
<1>2. CASE o.by # 0
  <2>1. o.by \in {0} \cup SocketIds
    BY HeadTyped
  <2>2. PICK c \in Command : c = Issue("state", o.by, 0) /\ c.op = "state" /\ c.by = o.by
    <3>1. Issue("state", o.by, 0) \in Command
      BY <2>1, IssueTyped, ZeroIsId
    <3>2. Issue("state", o.by, 0).op = "state" /\ Issue("state", o.by, 0).by = o.by
      BY DEF Issue, Cmd
    <3>3. QED
      BY <3>1, <3>2
  <2>3. pipe' = Tail(pipe) \o <<c>>
    BY <1>2, <2>2
  <2>4. Takes(o, <<c>>) /\ ToSet(<<c>>) = {c}
    BY <2>3, TakesOne
  <2>5. QED
    BY <2>2, <2>4
<1>3. QED
  BY <1>1, <1>2

LEMMA ResumesKeeps ==
    ASSUME NEW b \in Nat, Inv(b), pipe # <<>>, NEW o, o = Head(pipe), NEW from,
           (o.op = "reconnect" /\ from = "away") \/ (o.op = "claim" /\ from = "reserved"),
           Resumes(o, from), UNCHANGED <<tab, seen, left>>
    PROVE  LinkInv'
<1> DEFINE ok == o.arg = srv.id /\ (srv.state = "active" \/ (srv.state = from /\ ~srv.late))
<1>1. /\ Types /\ srv \in SrvT /\ srv.ver \in Nat /\ srv.id \in Nat /\ srv.id \in Ids /\ BaseOK(srv, b)
      /\ o \in Command /\ o.by \in {0} \cup SocketIds /\ o.arg \in Ids
  BY HeadTyped, Typed DEF Inv, Truthful
<1>2. UNCHANGED <<loaded, http, tab, seen, left>>
  BY DEF Resumes
<1>3. CASE ~ok
  <2>1. UNCHANGED <<srv, rt, link>> /\ pipe' = Tail(pipe) \o (IF o.by = 0 THEN <<>> ELSE <<Issue("state", o.by, 0)>>)
    BY <1>3 DEF Resumes
  <2>2. PICK n : /\ Takes(o, n)
                 /\ \A x \in ToSet(n) : x.op = "state" /\ x.by = o.by
                 /\ o.by # 0 => ToSet(n) # {}
    BY <1>1, <2>1, TakesOn
  <2>3. HandsOver(o, n) /\ \A x \in ToSet(n) : ReadTrue(x, srv, b)
    BY <2>2 DEF HandsOver, ReadTrue
  <2>4. Open /\ WillTell(o, tab.sock, b) => \E x \in ToSet(n) : WillTell(x, tab.sock, b)
    BY <2>2 DEF WillTell, Open
  <2>5. QED
    BY <1>1, <1>2, <1>3, <2>1, <2>2, <2>3, <2>4, ReadKeeps DEF Types, RestOK
<1>4. CASE ok
  <2>1. PICK v \in SrvT : /\ v = (IF srv.state = "active" THEN srv ELSE Becomes("active"))
                          /\ v.state = "active" /\ v.id = srv.id
                          /\ v.ver \in {srv.ver, srv.ver + 1} /\ (srv.state # "active" => v.ver = srv.ver + 1)
    BY <1>1, BecomesIs DEF Held
  <2>2. PICK w \in Views : w = View(v, "active") /\ w.is = "active" /\ w.id = v.id /\ w.ver = v.ver
    BY ViewTyped DEF Phases
  <2>3. srv' = v
    BY <1>4, <2>1 DEF Resumes
  <2>4. PICK e \in Nat : e = IF srv.state = "reserved" THEN v.ver ELSE b
    BY <1>1, <2>1
  <2>5. Moves(srv, b, srv', e)
    BY <1>1, <1>4, <2>1, <2>3, <2>4 DEF Moves, BaseOK, Alike
  <2>6. Current(w, srv', e) /\ w.ver >= e
    BY <1>1, <2>1, <2>2, <2>3, <2>4 DEF Current, Shows, BaseOK
  <2>7. srv.id \in Nat \ {0} /\ (rt.id # 0 => rt.id = srv.id)
    BY <1>1, <1>4, Typed DEF Types, SrvOK, RtOK
  <2>8. PICK n : /\ Takes(o, n) /\ (\A x \in ToSet(n) : x.op = "state")
                 /\ LinkOK' /\ OnlyTells /\ RtOK'
                 /\ \A s \in SocketIds : \A m \in ToSet(link'[s].down) : m \in ToSet(link[s].down) \/ m.view = w
                 /\ \A x \in rt'.starts : x \in rt.starts \/ x.view = w
                 /\ rt'.stops = rt.stops
                 /\ Open => \/ \E m \in ToSet(link'[tab.sock].down) : m.view = w
                            \/ \E x \in rt'.starts : x.view = w
    <3>1. CASE rt.id = o.arg
      <4>1. Told(w) /\ rt' = rt /\ pipe' = Tail(pipe) \o (IF o.by = 0 THEN <<>> ELSE <<Issue("state", o.by, 0)>>)
        BY <1>4, <2>1, <2>2, <3>1 DEF Resumes
      <4>2. /\ LinkOK' /\ OnlyTells
            /\ \A s \in SocketIds : \A m \in ToSet(link'[s].down) : m \in ToSet(link[s].down) \/ m.view = w
            /\ LinkShape /\ Open => \E m \in ToSet(link'[tab.sock].down) : m.how = "event" /\ m.view = w
        BY <1>1, <4>1, ToldTells
      <4>3. RtOK'
        BY <1>1, <2>1, <2>3, <4>1 DEF Types, RtOK
      <4>4. \E n : Takes(o, n) /\ \A x \in ToSet(n) : x.op = "state"
        BY <1>1, <4>1, TakesOn
      <4>5. QED
        BY <4>1, <4>2, <4>3, <4>4 DEF Inv
    <3>2. CASE rt.id # o.arg
      <4>1. PICK x \in Start : x = [by |-> o.by, view |-> w] /\ x.view = w
        <5>1. [by |-> o.by, view |-> w] \in Start
          BY <1>1 DEF Start
        <5>2. QED
          BY <5>1
      <4>2. /\ rt' = [rt EXCEPT !.id = o.arg, !.starts = @ \cup {x}]
            /\ pipe' = Tail(pipe) /\ link' = link
        BY <1>4, <2>1, <2>2, <3>2, <4>1 DEF Resumes
      <4>3. rt' \in RtT /\ rt'.id = o.arg /\ rt'.starts = rt.starts \cup {x} /\ rt'.stops = rt.stops
        BY <1>1, <2>2, <4>2, RtUpdates
      <4>4. RtOK'
        BY <1>4, <2>1, <2>3, <4>3 DEF RtOK
      <4>5. Takes(o, <<>>) /\ ToSet(<<>>) = {}
        BY <1>1, <4>2, TakesNone
      <4>6. LinkOK' /\ OnlyTells
        BY <1>1, <4>2 DEF Types, LinkOK, OnlyTells
      <4>7. QED
        BY <4>1, <4>2, <4>3, <4>4, <4>5, <4>6
    <3>3. QED
      BY <3>1, <3>2
  <2>9. Types'
    <3>1. pipe' \in Seq(Command)
      BY <1>1, <2>8, TakesFacts DEF Types
    <3>2. SrvOK'
      BY <2>1, <2>3, <2>7 DEF SrvOK
    <3>3. HttpOK' /\ RestOK'
      BY <1>1, <1>2 DEF Types, HttpOK, Answered, RestOK
    <3>4. QED
      BY <2>8, <3>1, <3>2, <3>3 DEF Types
  <2>10. HandsOver(o, n) /\ (\A x \in ToSet(n) : ReadTrue(x, srv', e))
    BY <2>8 DEF HandsOver, ReadTrue
  <2>11. Open => Coming(e)'
    BY <1>2, <2>6, <2>8 DEF Coming
  <2>12. srv.state \in Held
    BY <1>4 DEF Held
  <2>13. Inv(e)'
    BY <1>2, <2>1, <2>3, <2>5, <2>6, <2>8, <2>9, <2>10, <2>11, <2>12, AnswerKeeps
  <2>14. QED
    BY <2>13 DEF LinkInv
<1>5. QED
  BY <1>3, <1>4

LEMMA MarksKeeps ==
    ASSUME NEW b \in Nat, Inv(b), pipe # <<>>, NEW o, o = Head(pipe), o.op \in {"mark", "firstmark"}, Marks(o),
           UNCHANGED <<tab, seen, left>>
    PROVE  LinkInv'
<1>1. /\ Types /\ srv \in SrvT /\ srv.ver \in Nat /\ srv.id \in Ids /\ BaseOK(srv, b) /\ o \in Command
  BY HeadTyped, Typed DEF Inv, Truthful
<1>2. /\ UNCHANGED <<loaded, rt, link, http, tab, seen, left>>
      /\ Takes(o, <<>>) /\ ToSet(<<>>) = {}
  BY <1>1, TakesNone DEF Marks
<1>3. HandsOver(o, <<>>)
  BY <1>2 DEF HandsOver
<1>4. ~WillTell(o, tab.sock, b)
  BY DEF WillTell, Reading
<1>5. CASE ~(o.arg = srv.id /\ srv.state = "active")
  <2>1. UNCHANGED srv
    BY <1>5 DEF Marks
  <2>2. QED
    BY <1>1, <1>2, <1>3, <1>4, <2>1, ReadKeeps DEF Types, RestOK
<1>6. CASE o.arg = srv.id /\ srv.state = "active"
  <2>1. PICK x \in BOOLEAN : x <=> o.op = "firstmark"
    OBVIOUS
  <2>2. PICK v \in SrvT : v = Becomes("away") /\ v.state = "away" /\ v.id = srv.id /\ v.ver = srv.ver + 1
    BY <1>1, BecomesIs DEF Held
  <2>3. srv' = [v EXCEPT !.lapsed = x]
    BY <1>6, <2>1, <2>2 DEF Marks
  <2>4. /\ srv' \in SrvT /\ srv'.state = "away" /\ srv'.id = srv.id /\ srv'.ver = srv.ver + 1
        /\ srv'.lapsed = x
    BY <2>2, <2>3, SrvUpdates DEF SrvT
  <2>5. Types' /\ OnlyTells
    <3>1. pipe' \in Seq(Command)
      BY <1>1, <1>2, TakesFacts DEF Types
    <3>2. SrvOK' /\ RtOK'
      BY <1>1, <1>2, <1>6, <2>4 DEF Types, SrvOK, RtOK
    <3>3. LinkOK' /\ HttpOK' /\ RestOK' /\ OnlyTells
      BY <1>1, <1>2 DEF Types, LinkOK, HttpOK, Answered, RestOK, OnlyTells
    <3>4. QED
      BY <3>1, <3>2, <3>3 DEF Types
  <2>6. Moves(srv, b, srv', b)
    BY <1>1, <1>6, <2>4 DEF Moves, BaseOK, Alike
  <2>7. Open /\ Coming(b) => Coming(b)'
    BY <1>1, <1>2, <1>4, <1>6, <2>5, ComingTakes
  <2>8. Inv(b)'
    BY <1>2, <1>3, <1>6, <2>1, <2>4, <2>5, <2>6, <2>7, AnswerKeeps DEF Held
  <2>9. QED
    BY <2>8 DEF LinkInv
<1>7. QED
  BY <1>5, <1>6

\* A session that ends is told of, at once or when its runtime is stopped.
TellsEnd(w) ==
    /\ LinkOK' /\ OnlyTells /\ RtOK'
    /\ \A s \in SocketIds : \A m \in ToSet(link'[s].down) : m \in ToSet(link[s].down) \/ m.view = w
    /\ rt'.starts = rt.starts
    /\ rt.stops \subseteq rt'.stops /\ \A x \in rt'.stops : x \in rt.stops \/ x = w
    /\ Open => w \in rt'.stops \/ \E m \in ToSet(link'[tab.sock].down) : m.view = w

LEMMA TerminatesIs ==
    ASSUME NEW b \in Nat, Inv(b), srv.state \in Held, Terminates(srv.id)
    PROVE  /\ srv' \in SrvT /\ srv'.state = "idle" /\ srv'.id = srv.id /\ srv'.ver = srv.ver + 1
           /\ Moves(srv, b, srv', srv'.ver)
           /\ \E w \in Views : w.ver = srv'.ver /\ Current(w, srv', srv'.ver) /\ TellsEnd(w)
<1>1. /\ Types /\ srv \in SrvT /\ srv.ver \in Nat /\ srv.id \in Nat /\ srv.id \in Ids /\ BaseOK(srv, b)
      /\ LinkShape
  BY Typed DEF Inv, Truthful
<1>2. srv' = Becomes("idle")
  BY DEF Terminates
<1>3. srv' \in SrvT /\ srv'.state = "idle" /\ srv'.id = srv.id /\ srv'.ver = srv.ver + 1
  BY <1>1, <1>2, BecomesIs
<1>4. Moves(srv, b, srv', srv'.ver)
  BY <1>1, <1>3 DEF Moves, BaseOK
<1>5. PICK w \in Views : w = View(Becomes("idle"), "ended") /\ w.is = "ended" /\ w.ver = srv'.ver /\ w.id = srv'.id
  BY <1>2, <1>3, ViewTyped DEF Phases
<1>6. Current(w, srv', srv'.ver)
  BY <1>1, <1>3, <1>5 DEF Current, Shows
<1>7. CASE rt.id = srv.id
  <2>1. rt' = [rt EXCEPT !.id = 0, !.stops = @ \cup {w}] /\ link' = link
    BY <1>5, <1>7 DEF Terminates
  <2>2. [by |-> 0, view |-> w] \in Start
    BY DEF Start
  <2>3. rt' \in RtT /\ rt'.id = 0 /\ rt'.starts = rt.starts /\ rt'.stops = rt.stops \cup {w}
    BY <1>1, <2>1, <2>2, RtUpdates, ZeroIsId
  <2>4. LinkOK' /\ OnlyTells
    BY <1>1, <2>1 DEF Types, LinkOK, OnlyTells
  <2>5. RtOK'
    BY <2>3 DEF RtOK
  <2>6. TellsEnd(w)
    BY <2>1, <2>3, <2>4, <2>5 DEF TellsEnd
  <2>7. QED
    BY <1>3, <1>4, <1>5, <1>6, <2>6
<1>8. CASE rt.id # srv.id
  <2>1. Told(w) /\ rt' = rt
    BY <1>5, <1>8 DEF Terminates
  <2>2. /\ LinkOK' /\ OnlyTells
        /\ \A s \in SocketIds : \A m \in ToSet(link'[s].down) : m \in ToSet(link[s].down) \/ m.view = w
        /\ LinkShape /\ Open => \E m \in ToSet(link'[tab.sock].down) : m.how = "event" /\ m.view = w
    BY <1>1, <2>1, ToldTells
  <2>3. RtOK'
    BY <1>1, <1>8, <2>1 DEF Types, RtOK
  <2>4. TellsEnd(w)
    BY <1>1, <2>1, <2>2, <2>3 DEF TellsEnd
  <2>5. QED
    BY <1>3, <1>4, <1>5, <1>6, <2>4
<1>9. QED
  BY <1>7, <1>8

LEMMA EndsKeeps ==
    ASSUME NEW b \in Nat, Inv(b), pipe # <<>>, NEW o, o = Head(pipe), o.op = "terminate", Ends(o),
           UNCHANGED <<tab, seen, left>>
    PROVE  LinkInv'
<1>1. /\ Types /\ srv.id \in Nat /\ o \in Command
  BY HeadTyped, Typed DEF Inv
<1>2. /\ UNCHANGED <<loaded, http, tab, seen, left>>
      /\ Takes(o, <<>>) /\ ToSet(<<>>) = {}
  BY <1>1, TakesNone DEF Ends
<1>3. HandsOver(o, <<>>)
  BY <1>2 DEF HandsOver
<1>4. CASE o.arg # srv.id \/ srv.state \notin Held
  <2>1. UNCHANGED <<srv, rt, link>>
    BY <1>4 DEF Ends, Terminates
  <2>2. ~WillTell(o, tab.sock, b)
    BY DEF WillTell, Reading
  <2>3. QED
    BY <1>1, <1>2, <1>3, <2>1, <2>2, ReadKeeps DEF Types, RestOK
<1>5. CASE o.arg = srv.id /\ srv.state \in Held
  <2>1. Terminates(srv.id)
    BY <1>5 DEF Ends
  <2>2. /\ srv' \in SrvT /\ srv'.state = "idle" /\ srv'.id = srv.id /\ srv'.ver = srv.ver + 1
        /\ Moves(srv, b, srv', srv'.ver)
        /\ \E w \in Views : w.ver = srv'.ver /\ Current(w, srv', srv'.ver) /\ TellsEnd(w)
    BY <1>5, <2>1, TerminatesIs
  <2>3. PICK w \in Views : w.ver = srv'.ver /\ Current(w, srv', srv'.ver) /\ TellsEnd(w)
    BY <2>2
  <2>4. PICK e \in Nat : e = srv'.ver
    BY <2>2 DEF SrvT, Versions
  <2>5. Types' /\ OnlyTells
    <3>1. pipe' \in Seq(Command)
      BY <1>1, <1>2, TakesFacts DEF Types
    <3>2. SrvOK' /\ HttpOK' /\ RestOK'
      BY <1>1, <1>2, <2>2 DEF Types, SrvOK, HttpOK, Answered, RestOK
    <3>3. QED
      BY <2>3, <3>1, <3>2 DEF Types, TellsEnd
  <2>6. Open => Coming(e)'
    BY <1>2, <2>3, <2>4 DEF Coming, TellsEnd
  <2>7. Inv(e)'
    <3>1. Moves(srv, b, srv', e) /\ Current(w, srv', e)
      BY <2>2, <2>3, <2>4
    <3>2. QED
      BY <1>2, <1>3, <2>2, <2>3, <2>5, <2>6, <3>1, AnswerKeeps DEF TellsEnd, Held
  <2>8. QED
    BY <2>7 DEF LinkInv
<1>6. QED
  BY <1>4, <1>5

LEMMA TwoCommands ==
    ASSUME NEW c \in Command, NEW d \in Command
    PROVE  \E n \in Seq(Command) : n = <<c, d>> /\ ToSet(n) = {c, d}
<1>1. <<c, d>> \in Seq(Command)
  OBVIOUS
<1>2. DOMAIN <<c, d>> = {1, 2} /\ <<c, d>>[1] = c /\ <<c, d>>[2] = d
  OBVIOUS
<1>3. ToSet(<<c, d>>) = {c, d}
  BY <1>2 DEF ToSet
<1>4. QED
  BY <1>1, <1>3

LEMMA JoinsKeeps ==
    ASSUME NEW b \in Nat, Inv(b), pipe # <<>>, NEW o, o = Head(pipe), o.op = "join", Joins(o),
           UNCHANGED <<tab, seen, left>>
    PROVE  LinkInv'
<1>1. /\ Types /\ srv \in SrvT /\ srv.ver \in Nat /\ srv.id \in Nat /\ srv.id \in Ids /\ BaseOK(srv, b) /\ o \in Command
  BY HeadTyped, Typed DEF Inv, Truthful
<1>2. UNCHANGED <<loaded, rt, link, http, tab, seen, left>>
  BY DEF Joins
<1>3. PICK c \in Command : c = Issue("state", 0, 0) /\ c.op = "state"
  BY IssuePicked, ZeroIsId
<1>4. PICK d \in Command : d = Issue("broadcast", 0, 0) /\ d.op = "broadcast"
  BY IssuePicked, ZeroIsId
<1>5. CASE ~(srv.state = "idle" /\ srv.id < MaxRequests)
  <2>1. UNCHANGED srv /\ pipe' = Append(Tail(pipe), c)
    BY <1>3, <1>5 DEF Joins
  <2>2. Takes(o, <<c>>) /\ ToSet(<<c>>) = {c}
    BY <1>1, <2>1, TakesOne
  <2>3. HandsOver(o, <<c>>) /\ ReadTrue(c, srv, b) /\ ~WillTell(o, tab.sock, b)
    BY <1>3, <2>2 DEF HandsOver, ReadTrue, WillTell, Reading
  <2>4. QED
    BY <1>1, <1>2, <2>1, <2>2, <2>3, ReadKeeps DEF Types, RestOK
<1>6. CASE srv.state = "idle" /\ srv.id < MaxRequests
  <2>1. PICK v \in SrvT : v = Becomes("waiting") /\ v.state = "waiting" /\ v.id = srv.id /\ v.ver = srv.ver + 1
    BY <1>1, BecomesIs
  <2>2. PICK id \in Ids : id = srv.id + 1
    BY <1>1, <1>6, LinkBoundsAssumption DEF Ids
  <2>3. srv' = [v EXCEPT !.id = id] /\ pipe' = Tail(pipe) \o <<d, c>> /\ pipe # <<>>
    BY <1>3, <1>4, <1>6, <2>1, <2>2 DEF Joins
  <2>4. srv' \in SrvT /\ srv'.state = "waiting" /\ srv'.id = srv.id + 1 /\ srv'.ver = srv.ver + 1
    BY <2>1, <2>2, <2>3, SrvUpdates DEF SrvT
  <2>5. PICK n : Takes(o, n) /\ ToSet(n) = {d, c}
    <3>1. PICK n \in Seq(Command) : n = <<d, c>> /\ ToSet(n) = {d, c}
      BY TwoCommands
    <3>2. Takes(o, n)
      BY <2>3, <3>1 DEF Takes
    <3>3. QED
      BY <3>1, <3>2
  <2>6. PICK e \in Nat : e = srv'.ver
    BY <2>4 DEF SrvT, Versions
  <2>7. Moves(srv, b, srv', e)
    BY <1>1, <2>4, <2>6 DEF Moves, BaseOK
  <2>8. HandsOver(o, n) /\ ReadTrue(c, srv', e) /\ ReadTrue(d, srv', e)
    BY <1>1, <1>3, <1>4, <2>4, <2>5 DEF HandsOver, ReadTrue
  <2>9. Types' /\ OnlyTells /\ ToSet(n) \subseteq ToSet(pipe')
    <3>1. pipe' \in Seq(Command) /\ ToSet(n) \subseteq ToSet(pipe')
      BY <1>1, <2>5, TakesFacts DEF Types
    <3>2. rt.id = 0
      BY <1>1, <1>6 DEF Types, RtOK
    <3>3. SrvOK' /\ RtOK'
      BY <1>1, <1>2, <2>4, <3>2 DEF Types, SrvOK, RtOK
    <3>4. LinkOK' /\ HttpOK' /\ RestOK' /\ OnlyTells
      BY <1>1, <1>2 DEF Types, LinkOK, HttpOK, Answered, RestOK, OnlyTells
    <3>5. QED
      BY <3>1, <3>3, <3>4 DEF Types
  <2>10. Coming(e)'
    BY <1>4, <2>4, <2>5, <2>9 DEF Coming
  <2>11. Inv(e)'
    BY <1>2, <2>4, <2>5, <2>7, <2>8, <2>9, <2>10, AnswerKeeps DEF Held
  <2>12. QED
    BY <2>11 DEF LinkInv
<1>7. QED
  BY <1>5, <1>6

\* A cancelled request is told of by the answer to the DELETE, or by nothing at all.
LEMMA CancelsKeeps ==
    ASSUME NEW b \in Nat, Inv(b), pipe # <<>>, NEW o, o = Head(pipe), o.op = "cancel", Cancels(o),
           UNCHANGED <<tab, seen, left>>
    PROVE  LinkInv'
<1>1. /\ Types /\ srv \in SrvT /\ srv.ver \in Nat /\ srv.id \in Nat /\ srv.id \in Ids /\ BaseOK(srv, b)
      /\ o \in Command /\ Truthful(b) /\ CancelOrder
  BY HeadTyped, Typed DEF Inv, Truthful, Orders
<1>2. /\ UNCHANGED <<loaded, rt, link, tab, seen, left>>
      /\ Takes(o, <<>>) /\ ToSet(<<>>) = {}
  BY <1>1, TakesNone DEF Cancels
<1>3. HandsOver(o, <<>>) /\ OnlyTells /\ ~WillTell(o, tab.sock, b)
  BY <1>2 DEF HandsOver, OnlyTells, WillTell, Reading
<1>4. pipe' \in Seq(Command)
  BY <1>1, <1>2, TakesFacts DEF Types
<1>5. PICK v \in Views :
        /\ v.is = "idle" /\ Current(v, srv', b) /\ Moves(srv, b, srv', b)
        /\ IF http.del = Awaited THEN http' = [http EXCEPT !.del = v] ELSE UNCHANGED http
        /\ \/ srv' = srv
           \/ srv'.state = "idle" /\ srv.state = "waiting" /\ o.arg = srv.id
  <2>1. CASE o.arg = srv.id /\ srv.state = "waiting"
    <3>1. PICK u \in SrvT : /\ u = Becomes("idle") /\ u.state = "idle" /\ u.id = srv.id /\ u.ver = srv.ver + 1
      BY <1>1, BecomesIs
    <3>2. srv' = [u EXCEPT !.quit = TRUE]
      BY <2>1, <3>1 DEF Cancels
    <3>3. srv' \in SrvT /\ srv'.state = "idle" /\ srv'.id = srv.id /\ srv'.ver = srv.ver + 1 /\ srv'.quit
      BY <3>1, <3>2, SrvUpdates DEF SrvT
    <3>4. PICK v \in Views : v = View(u, "idle") /\ v.is = "idle" /\ v.id = srv.id /\ v.ver = srv'.ver
      BY <3>1, <3>3, ViewTyped DEF Phases
    <3>5. Current(v, srv', b) /\ Moves(srv, b, srv', b)
      BY <1>1, <2>1, <3>3, <3>4 DEF Current, Shows, Moves, BaseOK, Alike
    <3>6. IF http.del = Awaited THEN http' = [http EXCEPT !.del = v] ELSE UNCHANGED http
      BY <2>1, <3>1, <3>4 DEF Cancels
    <3>7. QED
      BY <2>1, <3>3, <3>4, <3>5, <3>6
  <2>2. CASE ~(o.arg = srv.id /\ srv.state = "waiting")
    <3>1. [is |-> "idle", id |-> 0, ver |-> 0] \in Views
      BY ZeroIsId DEF Views, Phases, Versions
    <3>2. PICK v \in Views : v = [is |-> "idle", id |-> 0, ver |-> 0] /\ v.is = "idle" /\ v.id = 0 /\ v.ver = 0
      BY <3>1
    <3>3. srv' = srv /\ IF http.del = Awaited THEN http' = [http EXCEPT !.del = v] ELSE UNCHANGED http
      BY <2>2, <3>2 DEF Cancels
    <3>4. Current(v, srv, b)
      BY <1>1, <3>2 DEF Current, Shows, BaseOK
    <3>5. Moves(srv, b, srv, b)
      BY <1>1, Stays
    <3>6. QED
      BY <3>2, <3>3, <3>4, <3>5
  <2>3. QED
    BY <2>1, <2>2
<1>6. /\ HttpOK' /\ http'.post = http.post /\ http'.cancel = http.cancel
      /\ IF http.del = Awaited THEN http'.del = v ELSE http'.del = http.del
  <2>1. CASE http.del = Awaited
    <3>1. http' = [http EXCEPT !.del = v]
      BY <1>5, <2>1
    <3>2. http' \in HttpT /\ http'.del = v /\ http'.post = http.post /\ http'.cancel = http.cancel
      BY <1>1, <3>1, HttpUpdates
    <3>3. QED
      BY <1>1, <1>5, <2>1, <3>2 DEF Types, HttpOK, Answered
  <2>2. CASE http.del # Awaited
    BY <1>1, <1>5, <2>2 DEF Types, HttpOK, Answered
  <2>3. QED
    BY <2>1, <2>2
<1>7. Types'
  <2>1. SrvOK' /\ RtOK'
    BY <1>1, <1>2, <1>5 DEF Types, SrvOK, RtOK, Moves
  <2>2. LinkOK' /\ RestOK'
    BY <1>1, <1>2 DEF Types, LinkOK, RestOK
  <2>3. QED
    BY <1>4, <1>6, <2>1, <2>2 DEF Types
<1>8. ASSUME Open, Coming(b)
      PROVE  Coming(b)'
  <2>1. srv'.state # srv.state => ~\E x \in ToSet(pipe) : x.op = "broadcast"
    <3>1. ASSUME srv'.state # srv.state, NEW x \in ToSet(pipe), x.op = "broadcast"
          PROVE  FALSE
      <4>1. o \in For("cancel", srv.id)
        BY <1>1, <1>5, <3>1 DEF For
      <4>2. ToSet(Tail(pipe)) \cap Op("broadcast") = {}
        BY <1>1, <4>1, BehindTail DEF CancelOrder, Types
      <4>3. x \in Command /\ (x = o \/ x \in ToSet(Tail(pipe)))
        BY <1>1, Taken, Typed DEF Types
      <4>4. QED
        BY <3>1, <4>2, <4>3 DEF Op
    <3>2. QED
      BY <3>1
  <2>2. QED
    BY <1>1, <1>2, <1>3, <1>8, <2>1, ComingTakes
<1>9. /\ Answered(http'.post) => http'.post = http.post
      /\ Answered(http'.del) => http'.del = http.del \/ Current(http'.del, srv', b)
  BY <1>5, <1>6
<1>10. Inv(b)'
  <2>1. CASE srv' = srv
    BY <1>2, <1>3, <1>5, <1>6, <1>7, <1>8, <1>9, <2>1, AnswerKeeps
  <2>2. CASE srv'.state = "idle"
    BY <1>2, <1>3, <1>5, <1>6, <1>7, <1>8, <1>9, <2>2, AnswerKeeps DEF Held
  <2>3. QED
    BY <1>5, <2>1, <2>2
<1>11. QED
  BY <1>10 DEF LinkInv

LEMMA RedisKeeps ==
    ASSUME LinkInv, RedisAnswers
    PROVE  LinkInv'
<1>1. PICK b \in Nat : Inv(b)
  BY DEF LinkInv
<1>2. PICK o : o = Head(pipe)
  OBVIOUS
<1>3. UNCHANGED <<tab, seen, left>> /\ pipe # <<>>
  BY DEF RedisAnswers
<1>4. \/ o.op = "connected" /\ Connected(o)
      \/ o.op = "session" /\ SessionRead(o)
      \/ o.op = "reconnect" /\ Resumes(o, "away")
      \/ o.op = "claim" /\ Resumes(o, "reserved")
      \/ o.op = "state" /\ StateRead(o)
      \/ o.op = "held" /\ HeldRead(o)
      \/ o.op = "device" /\ DeviceRead(o)
      \/ o.op = "request" /\ RequestRead(o)
      \/ o.op = "pool" /\ PoolRead(o)
      \/ o.op = "disconnected" /\ DisconnectedRead(o)
      \/ o.op = "load" /\ Loads(o)
      \/ o.op \in {"mark", "firstmark"} /\ Marks(o)
      \/ o.op = "end" /\ EndRead(o)
      \/ o.op = "terminate" /\ Ends(o)
      \/ o.op = "join" /\ Joins(o)
      \/ o.op = "broadcast" /\ Broadcasts(o)
      \/ o.op = "cancel" /\ Cancels(o)
  BY <1>2 DEF RedisAnswers
<1>5. CASE o.op = "connected" /\ Connected(o)
  BY <1>1, <1>2, <1>3, <1>5, ConnectedKeeps
<1>6. CASE o.op = "session" /\ SessionRead(o)
  BY <1>1, <1>2, <1>3, <1>6, SessionKeeps
<1>7. CASE o.op = "reconnect" /\ Resumes(o, "away")
  BY <1>1, <1>2, <1>3, <1>7, ResumesKeeps
<1>8. CASE o.op = "claim" /\ Resumes(o, "reserved")
  BY <1>1, <1>2, <1>3, <1>8, ResumesKeeps
<1>9. CASE o.op = "state" /\ StateRead(o)
  BY <1>1, <1>2, <1>3, <1>9, StateKeeps
<1>10. CASE o.op = "held" /\ HeldRead(o)
  BY <1>1, <1>2, <1>3, <1>10, HeldKeeps
<1>11. CASE o.op = "request" /\ RequestRead(o)
  BY <1>1, <1>2, <1>3, <1>11, RequestKeeps
<1>12. CASE o.op = "pool" /\ PoolRead(o)
  BY <1>1, <1>2, <1>3, <1>12, PoolKeeps
<1>13. CASE o.op = "disconnected" /\ DisconnectedRead(o)
  BY <1>1, <1>2, <1>3, <1>13, DisconnectedKeeps
<1>14. CASE o.op = "load" /\ Loads(o)
  BY <1>1, <1>2, <1>3, <1>14, LoadKeeps
<1>15. CASE o.op \in {"mark", "firstmark"} /\ Marks(o)
  BY <1>1, <1>2, <1>3, <1>15, MarksKeeps
<1>16. CASE o.op = "terminate" /\ Ends(o)
  BY <1>1, <1>2, <1>3, <1>16, EndsKeeps
<1>17. CASE o.op = "join" /\ Joins(o)
  BY <1>1, <1>2, <1>3, <1>17, JoinsKeeps
<1>18. CASE o.op = "broadcast" /\ Broadcasts(o)
  BY <1>1, <1>2, <1>3, <1>18, BroadcastKeeps
<1>19. CASE o.op = "cancel" /\ Cancels(o)
  BY <1>1, <1>2, <1>3, <1>19, CancelsKeeps
<1>20. CASE o.op = "device" /\ DeviceRead(o)
  BY <1>1, <1>2, <1>3, <1>20, DeviceKeeps
<1>21. CASE o.op = "end" /\ EndRead(o)
  BY <1>1, <1>2, <1>3, <1>21, EndReadKeeps
<1>22. QED
  BY <1>4, <1>5, <1>6, <1>7, <1>8, <1>9, <1>10, <1>11, <1>12, <1>13, <1>14, <1>15, <1>16, <1>17, <1>18, <1>19,
     <1>20, <1>21

-----------------------------------------------------------------------------
(* What every other step does to the commands under way. *)

\* Handlers that start, or go on, issue the commands of n.
Gets(n) == n \in Seq(Command) /\ pipe' = pipe \o n

LEMMA GetsFacts ==
    ASSUME Types, NEW n, Gets(n)
    PROVE  /\ pipe' \in Seq(Command) /\ ToSet(pipe') = ToSet(pipe) \cup ToSet(n)
           /\ ToSet(n) \subseteq Command /\ ToSet(pipe) \subseteq Command
<1>1. pipe \in Seq(Command) /\ n \in Seq(Command) /\ pipe' = pipe \o n
  BY DEF Types, Gets
<1>2. QED
  BY <1>1, Joined

LEMMA GetsNone ==
    ASSUME Types, pipe' = pipe
    PROVE  Gets(<<>>) /\ ToSet(<<>>) = {}
<1>1. PICK c : c \in Command
  BY IssueTyped, ZeroIsId
<1>2. pipe \o <<>> = pipe /\ <<>> \in Seq(Command) /\ ToSet(<<>>) = {}
  BY <1>1, Short DEF Types
<1>3. QED
  BY <1>2 DEF Gets

LEMMA GetsOne ==
    ASSUME Types, NEW c \in Command
    PROVE  /\ pipe' = Append(pipe, c) => Gets(<<c>>)
           /\ pipe' = pipe \o <<c>> => Gets(<<c>>)
           /\ ToSet(<<c>>) = {c}
<1>1. /\ Append(pipe, c) = pipe \o <<c>> /\ <<c>> \in Seq(Command) /\ ToSet(<<c>>) = {c}
  BY Short DEF Types
<1>2. QED
  BY <1>1 DEF Gets

\* The orders are kept when what is added is of no concern to them.
LEMMA OrdersGet ==
    ASSUME Types, Orders, NEW n, Gets(n),
           Open' => /\ Open /\ tab'.sock = tab.sock
                    /\ \A x \in ToSet(n) : x.op \notin {"disconnected", "mark"}
    PROVE  /\ GoneOrder'
           /\ (srv'.state \in Held => srv.state \in Held /\ srv'.id = srv.id) => MarkOrder'
           /\ srv'.id = srv.id /\ (\A x \in ToSet(n) : x.op # "broadcast") => CancelOrder'
<1>1. pipe \in Seq(Command) /\ n \in Seq(Command) /\ pipe' = pipe \o n
  BY DEF Types, Gets
<1>2. /\ ToSet(pipe') = ToSet(pipe) \cup ToSet(n)
      /\ ToSet(n) \subseteq Command /\ ToSet(pipe) \subseteq Command
  BY GetsFacts
<1>5. ASSUME srv'.id = srv.id, \A x \in ToSet(n) : x.op # "broadcast"
      PROVE  NoneBehind(pipe', For("cancel", srv'.id), Op("broadcast"))
  <2>1. ToSet(n) \cap Op("broadcast") = {}
    BY <1>5 DEF Op
  <2>2. NoneBehind(pipe, For("cancel", srv.id), Op("broadcast"))
    BY DEF Orders, CancelOrder
  <2>3. NoneBehind(pipe', For("cancel", srv.id), Op("broadcast"))
    BY <1>1, <2>1, <2>2, BehindJoined
  <2>4. QED
    BY <1>5, <2>3
<1>6. ASSUME Open'
      PROVE  Followed(pipe', Op("disconnected"), Op("connected"))
  <2>1. Followed(pipe, Op("disconnected"), Op("connected"))
    BY <1>6 DEF Orders, GoneOrder
  <2>2. ToSet(n) \cap Op("disconnected") = {}
    BY <1>2, <1>6 DEF Op
  <2>3. QED
    BY <1>1, <2>1, <2>2, FollowedJoined
<1>7. ASSUME Open', srv.state \in Held, srv'.id = srv.id
      PROVE  Registering' \/ Followed(pipe', For("mark", srv'.id), For("session", srv'.id))
  <2>1. CASE Registering
    BY <1>2, <2>1 DEF Registering
  <2>2. CASE Followed(pipe, For("mark", srv.id), For("session", srv.id))
    <3>1. ToSet(n) \cap For("mark", srv.id) = {}
      BY <1>2, <1>7 DEF For
    <3>2. Followed(pipe', For("mark", srv.id), For("session", srv.id))
      BY <1>1, <2>2, <3>1, FollowedJoined
    <3>3. QED
      BY <1>7, <3>2
  <2>3. QED
    BY <1>7, <2>1, <2>2 DEF Orders, MarkOrder
<1>8. QED
  BY <1>5, <1>6, <1>7 DEF CancelOrder, GoneOrder, MarkOrder

\* What leads to a claim goes one step further.
LEMMA ClaimedKept ==
    ASSUME Types, Claimed, ToSet(pipe) \subseteq ToSet(pipe'), Open' => Open, tab'.sock = tab.sock,
           Open /\ srv'.state = "reserved" /\ ~srv'.late => srv.state = "reserved" /\ ~srv.late /\ srv'.id = srv.id,
           Open' => \A s \in SocketIds : \A u \in ToSet(link[s].up) :
               u \in ToSet(link'[s].up) \/ (u.msg = "claim" => \E x \in ToSet(pipe') : x.op = "claim" /\ x.arg = u.id),
           Open' => \A m \in ToSet(link[tab.sock].down) :
               \/ m \in ToSet(link'[tab.sock].down)
               \/ m.how = "event" /\ m.view.is = "reserved" =>
                      \E u \in ToSet(link'[tab.sock].up) : u.msg = "claim" /\ u.id = m.view.id
    PROVE  Claimed'
<1>1. SUFFICES ASSUME Open', srv'.state = "reserved", ~srv'.late
               PROVE  \/ Registering'
                      \/ \E o \in ToSet(pipe') : o.op \in {"session", "claim"} /\ o.arg = srv'.id
                      \/ \E s \in SocketIds : \E u \in ToSet(link'[s].up) : u.msg = "claim" /\ u.id = srv'.id
                      \/ \E m \in ToSet(link'[tab'.sock].down) :
                            m.how = "event" /\ m.view.is = "reserved" /\ m.view.id = srv'.id
  BY DEF Claimed
<1>2. Open /\ srv.state = "reserved" /\ ~srv.late /\ srv'.id = srv.id /\ tab.sock \in SocketIds
  BY <1>1, Typed DEF Open
<1>3. CASE Registering
  BY <1>3 DEF Registering
<1>4. CASE \E o \in ToSet(pipe) : o.op \in {"session", "claim"} /\ o.arg = srv.id
  BY <1>2, <1>4
<1>5. CASE \E s \in SocketIds : \E u \in ToSet(link[s].up) : u.msg = "claim" /\ u.id = srv.id
  BY <1>1, <1>2, <1>5
<1>6. CASE \E m \in ToSet(link[tab.sock].down) : m.how = "event" /\ m.view.is = "reserved" /\ m.view.id = srv.id
  BY <1>1, <1>2, <1>6
<1>7. QED
  BY <1>2, <1>3, <1>4, <1>5, <1>6 DEF Claimed

LEMMA ResumedKept ==
    ASSUME Resumed, ToSet(pipe) \subseteq ToSet(pipe'), Open' => Open,
           Open /\ srv'.state = "away" /\ ~srv'.late /\ ~srv'.lapsed =>
               srv.state = "away" /\ ~srv.late /\ ~srv.lapsed /\ srv'.id = srv.id
    PROVE  Resumed'
BY DEF Resumed, Registering

\* What comes to the tab keeps coming, as long as nothing that has arrived is lost.
LEMMA ComingGets ==
    ASSUME NEW b, Coming(b), ToSet(pipe) \subseteq ToSet(pipe'), tab'.sock = tab.sock,
           srv.state = "waiting" => srv'.state = "waiting",
           \A m \in ToSet(link[tab.sock].down) : m \in ToSet(link'[tab.sock].down) \/ ~(m.view.ver >= b),
           \A x \in rt.starts : x \in rt'.starts \/ \E m \in ToSet(link'[tab.sock].down) : m.view = x.view,
           \A x \in rt.stops : x \in rt'.stops \/ \E m \in ToSet(link'[tab.sock].down) : m.view = x
    PROVE  Coming(b)'
<1>1. CASE \E m \in ToSet(link[tab.sock].down) : m.view.ver >= b
  BY <1>1 DEF Coming
<1>2. CASE \E x \in ToSet(pipe) : WillTell(x, tab.sock, b)
  BY <1>2 DEF Coming
<1>3. CASE srv.state = "waiting" /\ \E x \in ToSet(pipe) : x.op = "broadcast"
  BY <1>3 DEF Coming
<1>4. CASE \E x \in rt.starts : x.view.ver >= b
  BY <1>4 DEF Coming
<1>5. CASE \E x \in rt.stops : x.ver >= b
  BY <1>5 DEF Coming
<1>6. QED
  BY <1>1, <1>2, <1>3, <1>4, <1>5 DEF Coming

-----------------------------------------------------------------------------
(* The rest of the server. *)

\* A step of the server that breaks nothing.
LEMMA ServerKeeps ==
    ASSUME NEW b, NEW e \in Nat, Inv(b), Types', NEW n, Gets(n), OnlyTells,
           Moves(srv, b, srv', e), UNCHANGED <<tab, seen, http>>,
           \A x \in ToSet(n) : x.op \in {"terminate", "state"}, srv'.id = srv.id,
           \A s \in SocketIds : \A m \in ToSet(link'[s].down) : m \in ToSet(link[s].down) \/ Current(m.view, srv', e),
           \A x \in rt'.starts : x \in rt.starts \/ Current(x.view, srv', e),
           \A x \in rt'.stops : x \in rt.stops \/ Current(x, srv', e),
           srv'.state \in Held => srv.state \in Held /\ srv'.id = srv.id,
           Open /\ srv'.state = "reserved" /\ ~srv'.late => srv.state = "reserved" /\ ~srv.late /\ srv'.id = srv.id,
           Open /\ srv'.state = "away" /\ ~srv'.late /\ ~srv'.lapsed =>
               srv.state = "away" /\ ~srv.late /\ ~srv.lapsed /\ srv'.id = srv.id,
           Open /\ (e = b => Coming(b)) => Coming(e)'
    PROVE  LinkInv'
<1> USE DEF Inv
<1>1. /\ ToSet(pipe) \subseteq ToSet(pipe')
      /\ \A x \in ToSet(pipe') : x \in ToSet(pipe) \/ ReadTrue(x, srv', e)
  BY GetsFacts DEF ReadTrue
<1>2. Open' = Open /\ (Open => tab.sock \in SocketIds)
  BY OpenStays
<1>3. Truthful(e)'
  BY <1>1, TruthKept
<1>4. LinkShape'
  BY DEF LinkShape, OnlyTells
<1>5. Informed(e)'
  BY <1>2, InformedKept
<1>6. Orders'
  BY <1>2, OrdersGet DEF Orders
<1>7. Claimed'
  BY <1>1, <1>2, ClaimedKept DEF OnlyTells
<1>8. Resumed'
  BY <1>1, <1>2, ResumedKept
<1>9. Asked'
  BY AskedStays
<1>10. QED
  BY <1>3, <1>4, <1>5, <1>6, <1>7, <1>8, <1>9 DEF LinkInv

LEMMA LeftTyped ==
    ASSUME Types, Happens \/ UNCHANGED left
    PROVE  left' \in 0 .. MaxEvents
BY LinkBoundsAssumption DEF Types, RestOK, Happens

LEMMA TypesStep ==
    ASSUME Types, SrvOK', pipe' \in Seq(Command), RtOK', LinkOK', UNCHANGED <<loaded, tab, http, seen>>,
           Happens \/ UNCHANGED left
    PROVE  Types'
<1>1. HttpOK' /\ RestOK'
  BY LeftTyped DEF Types, HttpOK, Answered, RestOK
<1>2. QED
  BY <1>1 DEF Types

LEMMA AllocatesKeeps ==
    ASSUME LinkInv, Allocates
    PROVE  LinkInv'
<1>1. PICK b \in Nat : Inv(b)
  BY DEF LinkInv
<1>2. /\ Types /\ srv \in SrvT /\ srv.ver \in Nat /\ srv.id \in Nat /\ srv.id \in Ids /\ BaseOK(srv, b)
      /\ LinkShape /\ Truthful(b) /\ Informed(b) /\ Orders
  BY <1>1, Typed DEF Inv, Truthful
<1>3. /\ srv.state = "waiting" /\ srv' = Becomes("reserved") /\ Told(View(srv', "reserved"))
      /\ UNCHANGED <<loaded, pipe, rt, tab, http, seen, left>>
  BY DEF Allocates
<1>4. srv' \in SrvT /\ srv'.state = "reserved" /\ srv'.id = srv.id /\ srv'.ver = srv.ver + 1
  BY <1>2, <1>3, BecomesIs DEF Held
<1>5. PICK w \in Views : w = View(srv', "reserved") /\ w.is = "reserved" /\ w.id = srv.id /\ w.ver = srv'.ver
  BY <1>4, ViewTyped DEF Phases
<1>6. /\ LinkOK' /\ OnlyTells
      /\ \A s \in SocketIds : \A m \in ToSet(link'[s].down) : m \in ToSet(link[s].down) \/ m.view = w
      /\ Open => \E m \in ToSet(link'[tab.sock].down) : m.how = "event" /\ m.view = w
  <2>1. Told(w)
    BY <1>3, <1>5
  <2>2. QED
    BY <1>2, <2>1, ToldTells
<1>7. PICK e \in Nat : e = srv'.ver
  BY <1>4 DEF SrvT, Versions
<1>8. Moves(srv, b, srv', e) /\ Current(w, srv', e)
  BY <1>2, <1>4, <1>5, <1>7 DEF Moves, BaseOK, Current, Shows
<1>9. Types'
  <2>1. SrvOK' /\ RtOK'
    BY <1>2, <1>3, <1>4 DEF Types, SrvOK, RtOK
  <2>2. QED
    BY <1>2, <1>3, <1>6, <2>1, TypesStep DEF Types
<1>10. Gets(<<>>) /\ ToSet(<<>>) = {}
  BY <1>2, <1>3, GetsNone
<1>11. Open' = Open /\ (Open => tab.sock \in SocketIds)
  BY <1>2, <1>3, <1>6, OpenStays
<1>12. Truthful(e)'
  BY <1>2, <1>3, <1>6, <1>8, <1>9, TruthKept
<1>13. LinkShape'
  BY <1>2, <1>3, <1>6 DEF LinkShape, OnlyTells
<1>14. Informed(e)'
  <2>1. Open => Coming(e)'
    BY <1>3, <1>5, <1>6, <1>7, <1>11 DEF Coming
  <2>2. QED
    BY <1>2, <1>3, <1>8, <1>9, <1>11, <2>1, InformedKept
<1>15. CancelOrder' /\ GoneOrder'
  BY <1>2, <1>3, <1>4, <1>10, <1>11, OrdersGet
<1>16. MarkOrder'
  <2>1. \A x \in ToSet(pipe) : ~(x.op = "mark" /\ x.arg = srv.id)
    BY <1>2, <1>3 DEF Truthful, ReadTrue
  <2>2. Followed(pipe, For("mark", srv.id), For("session", srv.id))
    BY <2>1 DEF Followed, For, ToSet
  <2>3. QED
    BY <1>3, <1>4, <2>2 DEF MarkOrder
<1>17. Claimed' /\ Resumed'
  BY <1>3, <1>4, <1>5, <1>6, <1>11 DEF Claimed, Resumed
<1>18. Asked'
  BY <1>1, <1>3, <1>4 DEF Inv, Asked
<1>19. Inv(e)'
  BY <1>9, <1>12, <1>13, <1>14, <1>15, <1>16, <1>17, <1>18 DEF Inv, Orders
<1>20. QED
  BY <1>19 DEF LinkInv

LEMMA OthersMoveKeeps ==
    ASSUME LinkInv, OthersMove
    PROVE  LinkInv'
<1>1. PICK b \in Nat : Inv(b)
  BY DEF LinkInv
<1>2. Types /\ srv \in SrvT /\ srv.ver \in Nat /\ srv.id \in Nat /\ BaseOK(srv, b)
  BY <1>1, Typed DEF Inv, Truthful
<1>3. /\ srv.state = "waiting" /\ Told(View(srv, "waiting")) /\ Happens
      /\ UNCHANGED <<srv, loaded, pipe, rt, tab, http, seen>>
  BY DEF OthersMove
<1>4. PICK w \in Views : w = View(srv, "waiting") /\ w.is = "waiting" /\ w.id = srv.id /\ w.ver = srv.ver
  BY <1>2, ViewTyped DEF Phases
<1>5. /\ LinkOK' /\ OnlyTells
      /\ \A s \in SocketIds : \A m \in ToSet(link'[s].down) : m \in ToSet(link[s].down) \/ m.view = w
  <2>1. Told(w)
    BY <1>3, <1>4
  <2>2. QED
    BY <1>2, <2>1, ToldTells
<1>6. Current(w, srv, b) /\ Moves(srv, b, srv', b)
  BY <1>2, <1>3, <1>4, Stays DEF Current, Shows
<1>7. Types'
  <2>1. SrvOK' /\ RtOK'
    BY <1>2, <1>3 DEF Types, SrvOK, RtOK
  <2>2. QED
    BY <1>2, <1>3, <1>5, <2>1, TypesStep DEF Types
<1>8. Gets(<<>>) /\ ToSet(<<>>) = {}
  BY <1>2, <1>3, GetsNone
<1>9. Open /\ Coming(b) => Coming(b)'
  <2>1. Open => tab.sock \in SocketIds
    BY <1>2, <1>3, <1>5, OpenStays
  <2>2. QED
    BY <1>3, <1>5, <2>1, ComingGets DEF OnlyTells
<1>10. QED
  BY <1>1, <1>3, <1>5, <1>6, <1>7, <1>8, <1>9, ServerKeeps DEF Held

LEMMA TimePassesKeeps ==
    ASSUME LinkInv, TimePasses
    PROVE  LinkInv'
<1>1. PICK b \in Nat : Inv(b)
  BY DEF LinkInv
<1>2. Types /\ srv \in SrvT /\ srv.ver \in Nat /\ srv.id \in Nat /\ BaseOK(srv, b)
  BY <1>1, Typed DEF Inv, Truthful
<1>3. /\ srv.state \in {"reserved", "away"} /\ srv' = [srv EXCEPT !.late = TRUE]
      /\ UNCHANGED <<loaded, pipe, rt, link, tab, http, seen, left>>
  BY DEF TimePasses
<1>4. srv' \in SrvT /\ srv'.state = srv.state /\ srv'.id = srv.id /\ srv'.ver = srv.ver /\ srv'.late
      /\ srv'.quit = srv.quit
  BY <1>2, <1>3, SrvUpdates DEF SrvT
<1>5. LinkOK' /\ OnlyTells
  BY <1>2, <1>3 DEF Types, LinkOK, OnlyTells
<1>6. Moves(srv, b, srv', b)
  BY <1>2, <1>4 DEF Moves, BaseOK, Alike
<1>7. Types'
  <2>1. SrvOK' /\ RtOK'
    BY <1>2, <1>3, <1>4 DEF Types, SrvOK, RtOK
  <2>2. QED
    BY <1>2, <1>3, <1>5, <2>1, TypesStep DEF Types
<1>8. Gets(<<>>) /\ ToSet(<<>>) = {}
  BY <1>2, <1>3, GetsNone
<1>9. Coming(b) => Coming(b)'
  BY <1>3, <1>4, ComingGets
<1>10. QED
  BY <1>1, <1>3, <1>4, <1>5, <1>6, <1>7, <1>8, <1>9, ServerKeeps

LEMMA ServerEndsKeeps ==
    ASSUME LinkInv, ServerEnds
    PROVE  LinkInv'
<1>1. PICK b \in Nat : Inv(b)
  BY DEF LinkInv
<1>2. Types
  BY <1>1 DEF Inv
<1>3. /\ srv.state \in Held /\ Terminates(srv.id)
      /\ Happens \/ UNCHANGED left
      /\ UNCHANGED <<loaded, pipe, tab, http, seen>>
  BY DEF ServerEnds
<1>4. /\ srv' \in SrvT /\ srv'.state = "idle" /\ srv'.id = srv.id /\ srv'.ver = srv.ver + 1
      /\ Moves(srv, b, srv', srv'.ver)
      /\ \E w \in Views : w.ver = srv'.ver /\ Current(w, srv', srv'.ver) /\ TellsEnd(w)
  BY <1>1, <1>3, TerminatesIs
<1>5. PICK w \in Views : w.ver = srv'.ver /\ Current(w, srv', srv'.ver) /\ TellsEnd(w)
  BY <1>4
<1>6. PICK e \in Nat : e = srv'.ver
  BY <1>4 DEF SrvT, Versions
<1>7. Moves(srv, b, srv', e) /\ Current(w, srv', e)
  BY <1>4, <1>5, <1>6
<1>8. Types'
  <2>1. SrvOK'
    BY <1>4 DEF SrvOK
  <2>2. QED
    BY <1>2, <1>3, <1>5, <2>1, TypesStep DEF Types, TellsEnd
<1>9. Gets(<<>>) /\ ToSet(<<>>) = {}
  BY <1>2, <1>3, GetsNone
<1>10. Open => Coming(e)'
  BY <1>3, <1>5, <1>6 DEF Coming, TellsEnd
<1>11. QED
  BY <1>1, <1>3, <1>4, <1>5, <1>7, <1>8, <1>9, <1>10, ServerKeeps DEF TellsEnd, Held

LEMMA SuspendsKeeps ==
    ASSUME LinkInv, Suspends
    PROVE  LinkInv'
<1>1. PICK b \in Nat : Inv(b)
  BY DEF LinkInv
<1>2. Types /\ srv \in SrvT /\ srv.ver \in Nat /\ BaseOK(srv, b) /\ LinkShape
  BY <1>1, Typed DEF Inv, Truthful
<1>3. /\ srv.state = "active" /\ srv' = [Becomes("away") EXCEPT !.lapsed = \E s \in SocketIds : link[s].hub]
      /\ Happens \/ UNCHANGED left
      /\ UNCHANGED <<loaded, pipe, rt, link, tab, http, seen>>
  BY DEF Suspends
<1>4. /\ srv' \in SrvT /\ srv'.state = "away" /\ srv'.id = srv.id /\ srv'.ver = srv.ver + 1
      /\ Open => srv'.lapsed
  <2>1. PICK x \in BOOLEAN : x <=> \E s \in SocketIds : link[s].hub
    OBVIOUS
  <2>2. PICK v \in SrvT : v = Becomes("away") /\ v.state = "away" /\ v.id = srv.id /\ v.ver = srv.ver + 1
    BY <1>2, BecomesIs DEF Held
  <2>3. srv' = [v EXCEPT !.lapsed = x]
    BY <1>3, <2>1, <2>2
  <2>4. Open => x
    BY <1>2, <2>1, Typed DEF Open, LinkShape
  <2>5. QED
    BY <2>2, <2>3, <2>4, SrvUpdates DEF SrvT
<1>5. LinkOK' /\ OnlyTells
  BY <1>2, <1>3 DEF Types, LinkOK, OnlyTells
<1>6. Moves(srv, b, srv', b)
  BY <1>2, <1>3, <1>4 DEF Moves, BaseOK, Alike
<1>7. Types'
  <2>1. SrvOK' /\ RtOK'
    BY <1>2, <1>3, <1>4 DEF Types, SrvOK, RtOK
  <2>2. QED
    BY <1>2, <1>3, <1>5, <2>1, TypesStep DEF Types
<1>8. Gets(<<>>) /\ ToSet(<<>>) = {}
  BY <1>2, <1>3, GetsNone
<1>9. Coming(b) => Coming(b)'
  BY <1>3, <1>4, ComingGets
<1>10. QED
  BY <1>1, <1>3, <1>4, <1>5, <1>6, <1>7, <1>8, <1>9, ServerKeeps DEF Held

LEMMA GetsThen ==
    ASSUME Types, NEW m \in Seq(Command), NEW k \in Seq(Command), pipe' = pipe \o m \o k
    PROVE  \E n : Gets(n) /\ ToSet(n) = ToSet(m) \cup ToSet(k)
<1>1. PICK n : n = m \o k
  OBVIOUS
<1>2. n \in Seq(Command) /\ ToSet(n) = ToSet(m) \cup ToSet(k)
  BY <1>1, Joined
<1>3. pipe \in Seq(Command)
  BY DEF Types
<1>4. (pipe \o m) \o k = pipe \o (m \o k)
  BY <1>3
<1>5. QED
  BY <1>1, <1>2, <1>4 DEF Gets

LEMMA Perhaps ==
    ASSUME Types, NEW c \in Command, NEW when \in BOOLEAN
    PROVE  \E m \in Seq(Command) : m = (IF when THEN <<c>> ELSE <<>>) /\ \A y \in ToSet(m) : y = c
<1>1. /\ <<c>> \in Seq(Command) /\ ToSet(<<c>>) = {c}
      /\ <<>> \in Seq(Command) /\ ToSet(<<>>) = {}
  BY Short DEF Types
<1>2. CASE when
  BY <1>1, <1>2
<1>3. CASE ~when
  BY <1>1, <1>3
<1>4. QED
  BY <1>2, <1>3

LEMMA StreamStartedKeeps ==
    ASSUME LinkInv, NEW x \in rt.starts, StreamStarted(x)
    PROVE  LinkInv'
<1>1. PICK b \in Nat : Inv(b)
  BY DEF LinkInv
<1>2. /\ Types /\ BaseOK(srv, b) /\ LinkShape
      /\ x.by \in {0} \cup SocketIds /\ x.view \in Views /\ x.view.id \in Ids /\ Current(x.view, srv, b)
  <2>1. Types /\ BaseOK(srv, b) /\ LinkShape /\ Current(x.view, srv, b)
    BY <1>1 DEF Inv, Truthful
  <2>2. x \in Start
    BY <2>1, Typed
  <2>3. x.by \in {0} \cup SocketIds /\ x.view \in Views
    BY <2>2 DEF Start
  <2>4. QED
    BY <2>1, <2>3, ViewFields
<1>3. PICK failed \in BOOLEAN :
        /\ IF failed THEN Happens ELSE UNCHANGED left
        /\ pipe' = pipe \o (IF failed THEN <<Issue("terminate", 0, x.view.id)>> ELSE <<>>)
                        \o (IF x.by = 0 THEN <<>> ELSE <<Issue("state", x.by, 0)>>)
  BY DEF StreamStarted
<1>4. /\ rt' = [rt EXCEPT !.starts = @ \ {x}] /\ Told(x.view)
      /\ UNCHANGED <<srv, loaded, tab, http, seen>>
  BY DEF StreamStarted
<1>5. PICK n : Gets(n) /\ \A y \in ToSet(n) : y.op \in {"terminate", "state"}
  <2>1. PICK c \in Command : c = Issue("terminate", 0, x.view.id) /\ c.op = "terminate"
    BY <1>2, IssuePicked
  <2>2. PICK d \in Command : d = Issue("state", x.by, 0) /\ d.op = "state"
    <3>1. Issue("state", x.by, 0) \in Command
      BY <1>2, IssueTyped, ZeroIsId
    <3>2. Issue("state", x.by, 0).op = "state" /\ Issue("state", x.by, 0).by = x.by
      BY DEF Issue, Cmd
    <3>3. QED
      BY <3>1, <3>2
  <2>3. PICK m \in Seq(Command) : m = (IF failed THEN <<c>> ELSE <<>>) /\ \A y \in ToSet(m) : y = c
    BY <1>2, Perhaps
  <2>4. PICK k \in Seq(Command) : k = (IF x.by # 0 THEN <<d>> ELSE <<>>) /\ \A y \in ToSet(k) : y = d
    BY <1>2, Perhaps
  <2>5. pipe' = pipe \o m \o k
    BY <1>3, <2>1, <2>2, <2>3, <2>4
  <2>6. PICK n : Gets(n) /\ ToSet(n) = ToSet(m) \cup ToSet(k)
    BY <1>2, <2>5, GetsThen
  <2>7. QED
    BY <2>1, <2>2, <2>3, <2>4, <2>6
<1>6. /\ LinkOK' /\ OnlyTells
      /\ \A s \in SocketIds : \A m \in ToSet(link'[s].down) : m \in ToSet(link[s].down) \/ m.view = x.view
      /\ LinkShape /\ Open => \E m \in ToSet(link'[tab.sock].down) : m.how = "event" /\ m.view = x.view
  BY <1>2, <1>4, ToldTells
<1>7. rt' \in RtT /\ rt'.id = rt.id /\ rt'.starts = rt.starts \ {x} /\ rt'.stops = rt.stops
  BY <1>2, <1>4 DEF Types, RtOK, RtT
<1>8. Types'
  <2>1. SrvOK' /\ RtOK'
    BY <1>2, <1>4, <1>7 DEF Types, SrvOK, RtOK
  <2>2. pipe' \in Seq(Command)
    BY <1>2, <1>5, GetsFacts
  <2>3. QED
    BY <1>2, <1>3, <1>4, <1>6, <2>1, <2>2, TypesStep
<1>9. Moves(srv, b, srv', b)
  BY <1>2, <1>4, Stays
<1>10. Open /\ Coming(b) => Coming(b)'
  <2>1. Open => tab.sock \in SocketIds
    BY <1>2, <1>4, <1>6, OpenStays
  <2>2. ToSet(pipe) \subseteq ToSet(pipe')
    BY <1>2, <1>5, GetsFacts
  <2>3. QED
    BY <1>2, <1>4, <1>6, <1>7, <2>1, <2>2, ComingGets DEF OnlyTells
<1>11. QED
  BY <1>1, <1>2, <1>4, <1>5, <1>6, <1>7, <1>8, <1>9, <1>10, ServerKeeps

LEMMA StreamStoppedKeeps ==
    ASSUME LinkInv, NEW x \in rt.stops, StreamStopped(x)
    PROVE  LinkInv'
<1>1. PICK b \in Nat : Inv(b)
  BY DEF LinkInv
<1>2. Types /\ BaseOK(srv, b) /\ LinkShape /\ Current(x, srv, b)
  BY <1>1 DEF Inv, Truthful
<1>3. x \in Views
  BY <1>2, Typed
<1>4. /\ rt' = [rt EXCEPT !.stops = @ \ {x}] /\ Told(x)
      /\ UNCHANGED <<srv, loaded, pipe, tab, http, seen, left>>
  BY DEF StreamStopped
<1>5. Gets(<<>>) /\ ToSet(<<>>) = {}
  BY <1>2, <1>4, GetsNone
<1>6. /\ LinkOK' /\ OnlyTells
      /\ \A s \in SocketIds : \A m \in ToSet(link'[s].down) : m \in ToSet(link[s].down) \/ m.view = x
      /\ LinkShape /\ Open => \E m \in ToSet(link'[tab.sock].down) : m.how = "event" /\ m.view = x
  BY <1>2, <1>3, <1>4, ToldTells
<1>7. rt' \in RtT /\ rt'.id = rt.id /\ rt'.starts = rt.starts /\ rt'.stops = rt.stops \ {x}
  BY <1>2, <1>4 DEF Types, RtOK, RtT
<1>8. Types'
  <2>1. SrvOK' /\ RtOK'
    BY <1>2, <1>4, <1>7 DEF Types, SrvOK, RtOK
  <2>2. QED
    BY <1>2, <1>4, <1>6, <2>1, TypesStep DEF Types
<1>9. Moves(srv, b, srv', b)
  BY <1>2, <1>4, Stays
<1>10. Open /\ Coming(b) => Coming(b)'
  <2>1. Open => tab.sock \in SocketIds
    BY <1>2, <1>4, <1>6, OpenStays
  <2>2. QED
    BY <1>2, <1>4, <1>6, <1>7, <2>1, ComingGets DEF OnlyTells
<1>11. QED
  BY <1>1, <1>2, <1>4, <1>5, <1>6, <1>7, <1>8, <1>9, <1>10, ServerKeeps

-----------------------------------------------------------------------------
(* The hub and the tab. *)

\* A step of the hub or of the tab that breaks nothing.
LEMMA LinkKeeps ==
    ASSUME NEW b \in Nat, Inv(b), Types', LinkShape', Informed(b)', NEW n, Gets(n), UNCHANGED <<srv, rt>>,
           \A x \in ToSet(n) : x.op \in {"connected", "claim", "end", "join", "disconnected", "cancel"},
           tab'.sock = tab.sock,
           Open' => Open /\ \A x \in ToSet(n) : x.op # "disconnected",
           \A x \in ToSet(n) : x.op = "cancel" => x.arg <= srv.id,
           tab'.req \in {0, tab.req} \/ tab'.req <= srv.id, http'.cancel \in {0, http.cancel, tab.req},
           \A s \in SocketIds : ToSet(link'[s].down) \subseteq ToSet(link[s].down),
           Answered(http'.post) => http'.post = http.post,
           Answered(http'.del) => http'.del = http.del,
           Open' => \A s \in SocketIds : \A u \in ToSet(link[s].up) :
               u \in ToSet(link'[s].up) \/ (u.msg = "claim" => \E x \in ToSet(pipe') : x.op = "claim" /\ x.arg = u.id),
           Open' => \A m \in ToSet(link[tab.sock].down) :
               \/ m \in ToSet(link'[tab.sock].down)
               \/ m.how = "event" /\ m.view.is = "reserved" =>
                      \E u \in ToSet(link'[tab.sock].up) : u.msg = "claim" /\ u.id = m.view.id
    PROVE  LinkInv'
<1> USE DEF Inv
<1>1. /\ ToSet(pipe) \subseteq ToSet(pipe')
      /\ \A x \in ToSet(pipe') : x \in ToSet(pipe) \/ ReadTrue(x, srv', b)
  BY GetsFacts DEF ReadTrue
<1>2. Moves(srv, b, srv', b)
  BY Stays DEF Truthful
<1>3. Truthful(b)'
  BY <1>1, <1>2, TruthKept
<1>4. Orders'
  BY OrdersGet DEF Orders
<1>5. Claimed'
  BY <1>1, ClaimedKept
<1>6. Resumed'
  BY <1>1, ResumedKept
<1>7. Asked'
  <2>1. srv.id \in Nat
    BY Typed
  <2>2. QED
    BY <2>1 DEF Asked
<1>8. QED
  BY <1>3, <1>4, <1>5, <1>6, <1>7 DEF LinkInv

LEMMA SocketUpdates ==
    ASSUME NEW y \in SocketT
    PROVE  /\ \A x \in BOOLEAN : \E k \in SocketT :
                 k = [y EXCEPT !.hub = x] /\ k.open = y.open /\ k.down = y.down /\ k.up = y.up
           /\ \A r \in Seq(Upward) : \E k \in SocketT :
                 k = [y EXCEPT !.up = r] /\ k.open = y.open /\ k.hub = y.hub /\ k.down = y.down /\ k.up = r
<1>1. ASSUME NEW x \in BOOLEAN
      PROVE  \E k \in SocketT : k = [y EXCEPT !.hub = x] /\ k.open = y.open /\ k.down = y.down /\ k.up = y.up
  <2>1. [y EXCEPT !.hub = x] \in SocketT
    BY DEF SocketT
  <2>2. QED
    BY <2>1 DEF SocketT
<1>2. ASSUME NEW r \in Seq(Upward)
      PROVE  \E k \in SocketT : k = [y EXCEPT !.up = r] /\ k.open = y.open /\ k.hub = y.hub /\ k.down = y.down /\ k.up = r
  <2>1. [y EXCEPT !.up = r] \in SocketT
    BY DEF SocketT
  <2>2. QED
    BY <2>1 DEF SocketT
<1>3. QED
  BY <1>1, <1>2

\* One socket changes.
LEMMA LinkUpdates ==
    ASSUME Types, NEW s \in SocketIds, NEW k \in SocketT, link' = [link EXCEPT ![s] = k], k.open \/ k.down = <<>>
    PROVE  /\ LinkOK'
           /\ link'[s] = k
           /\ \A t \in SocketIds : t # s => link'[t] = link[t]
BY DEF Types, LinkOK

LEMMA HubReceivesKeeps ==
    ASSUME LinkInv, NEW s \in SocketIds, HubReceives(s)
    PROVE  LinkInv'
<1>1. PICK b \in Nat : Inv(b)
  BY DEF LinkInv
<1>2. Types /\ BaseOK(srv, b) /\ LinkShape /\ Informed(b)
  BY <1>1 DEF Inv, Truthful
<1>3. PICK q \in Seq(Upward) : q = link[s].up /\ q # <<>>
  BY <1>2, Typed DEF HubReceives
<1>4. PICK u \in Upward : u = Head(q)
  BY <1>3, Taken
<1>5. PICK r \in Seq(Upward) : r = Tail(q)
  BY <1>3, Taken
<1>6. ToSet(q) \subseteq ToSet(r) \cup {u}
  BY <1>3, <1>4, <1>5, Taken
<1>7. PICK c \in Command : c = Issue(u.msg, 0, u.id) /\ c.op = u.msg /\ c.arg = u.id /\ c.op \in {"claim", "end"}
  <2>1. u.msg \in {"claim", "end"} /\ u.id \in Ids
    BY DEF Upward
  <2>2. Issue(u.msg, 0, u.id) \in Command
    BY <2>1, IssueTyped
  <2>3. QED
    BY <2>1, <2>2, CmdFields
<1>8. /\ pipe' = Append(pipe, c) /\ link' = [link EXCEPT ![s] = [link[s] EXCEPT !.up = r]]
      /\ UNCHANGED <<srv, loaded, rt, tab, http, seen, left>>
  BY <1>3, <1>4, <1>5, <1>7 DEF HubReceives
<1>9. Gets(<<c>>) /\ ToSet(<<c>>) = {c}
  BY <1>2, <1>8, GetsOne
<1>10. PICK k \in SocketT : /\ k = [link[s] EXCEPT !.up = r]
                            /\ k.open = link[s].open /\ k.hub = link[s].hub /\ k.down = link[s].down /\ k.up = r
  <2>1. link[s] \in SocketT
    BY <1>2 DEF Types, LinkOK
  <2>2. QED
    BY <2>1, SocketUpdates
<1>11. /\ LinkOK' /\ link'[s] = k
       /\ \A t \in SocketIds : t # s => link'[t] = link[t]
  <2>1. k.open \/ k.down = <<>>
    BY <1>2, <1>10 DEF Types, LinkOK
  <2>2. link' = [link EXCEPT ![s] = k]
    BY <1>8, <1>10
  <2>3. QED
    BY <1>2, <2>1, <2>2, LinkUpdates
<1>12. \A t \in SocketIds : link'[t].open = link[t].open /\ link'[t].hub = link[t].hub /\ link'[t].down = link[t].down
  BY <1>10, <1>11
<1>13. LinkShape' /\ Open' = Open /\ (Open => tab.sock \in SocketIds)
  BY <1>2, <1>8, <1>12, Typed DEF LinkShape, Open
<1>14. pipe' \in Seq(Command) /\ ToSet(pipe) \subseteq ToSet(pipe') /\ c \in ToSet(pipe')
  BY <1>2, <1>9, GetsFacts
<1>15. Types'
  <2>1. SrvOK' /\ RtOK'
    BY <1>2, <1>8 DEF Types, SrvOK, RtOK
  <2>2. QED
    BY <1>2, <1>8, <1>11, <1>14, <2>1, TypesStep
<1>16. Informed(b)'
  <2>1. Open /\ Coming(b) => Coming(b)'
    BY <1>8, <1>12, <1>13, <1>14, ComingGets
  <2>2. Moves(srv, b, srv', b)
    BY <1>2, <1>8, Stays
  <2>3. QED
    BY <1>2, <1>8, <1>13, <1>15, <2>1, <2>2, InformedKept
<1>17. \A t \in SocketIds : \A y \in ToSet(link[t].up) : y \in ToSet(link'[t].up) \/ y = u
  BY <1>3, <1>6, <1>10, <1>11
<1>18. QED
  BY <1>1, <1>7, <1>8, <1>9, <1>12, <1>13, <1>14, <1>15, <1>16, <1>17, LinkKeeps

LEMMA HubClosesKeeps ==
    ASSUME LinkInv, NEW s \in SocketIds, HubCloses(s)
    PROVE  LinkInv'
<1>1. PICK b \in Nat : Inv(b)
  BY DEF LinkInv
<1>2. Types /\ BaseOK(srv, b) /\ LinkShape /\ Informed(b) /\ ~link[s].open
  BY <1>1 DEF Inv, Truthful, HubCloses
<1>3. /\ link' = [link EXCEPT ![s] = [link[s] EXCEPT !.hub = FALSE]]
      /\ UNCHANGED <<srv, loaded, rt, tab, http, seen, left>>
  BY DEF HubCloses
<1>4. PICK k \in SocketT : /\ k = [link[s] EXCEPT !.hub = FALSE]
                           /\ k.open = link[s].open /\ k.down = link[s].down /\ k.up = link[s].up
  <2>1. link[s] \in SocketT
    BY <1>2 DEF Types, LinkOK
  <2>2. QED
    BY <2>1, SocketUpdates
<1>5. /\ LinkOK' /\ link'[s] = k
      /\ \A t \in SocketIds : t # s => link'[t] = link[t]
  <2>1. k.open \/ k.down = <<>>
    BY <1>2, <1>4 DEF Types, LinkOK
  <2>2. link' = [link EXCEPT ![s] = k]
    BY <1>3, <1>4
  <2>3. QED
    BY <1>2, <2>1, <2>2, LinkUpdates
<1>6. \A t \in SocketIds : link'[t].open = link[t].open /\ link'[t].down = link[t].down /\ link'[t].up = link[t].up
  BY <1>4, <1>5
<1>7. LinkShape' /\ Open' = Open /\ (Open => tab.sock \in SocketIds /\ tab.sock # s /\ link[tab.sock].hub)
  <2>1. \A t \in SocketIds : link'[t].open => t # s /\ link'[t] = link[t]
    BY <1>2, <1>5, <1>6
  <2>2. QED
    BY <1>2, <1>3, <1>6, <2>1, Typed DEF LinkShape, Open
<1>8. PICK n : Gets(n) /\ \A x \in ToSet(n) : x.op = "disconnected" /\ ~Open
  <2>1. CASE \E x \in SocketIds \ {s} : link[x].hub
    <3>1. pipe \o <<>> = pipe
      <4>1. PICK c : c \in Command
        BY IssueTyped, ZeroIsId
      <4>2. QED
        BY <1>2, <4>1, Short DEF Types
    <3>2. pipe' = pipe
      BY <2>1, <3>1 DEF HubCloses
    <3>3. QED
      BY <1>2, <3>2, GetsNone
  <2>2. CASE ~\E x \in SocketIds \ {s} : link[x].hub
    <3>1. PICK c \in Command : c = Issue("disconnected", 0, 0) /\ c.op = "disconnected"
      BY IssuePicked, ZeroIsId
    <3>2. pipe' = pipe \o <<c>>
      BY <2>2, <3>1 DEF HubCloses
    <3>3. Gets(<<c>>) /\ ToSet(<<c>>) = {c}
      BY <1>2, <3>2, GetsOne
    <3>4. ~Open
      BY <1>7, <2>2
    <3>5. QED
      BY <3>1, <3>3, <3>4
  <2>3. QED
    BY <2>1, <2>2
<1>9. pipe' \in Seq(Command) /\ ToSet(pipe) \subseteq ToSet(pipe')
  BY <1>2, <1>8, GetsFacts
<1>10. Types'
  <2>1. SrvOK' /\ RtOK'
    BY <1>2, <1>3 DEF Types, SrvOK, RtOK
  <2>2. QED
    BY <1>2, <1>3, <1>5, <1>9, <2>1, TypesStep
<1>11. Informed(b)'
  <2>1. Open /\ Coming(b) => Coming(b)'
    BY <1>3, <1>6, <1>7, <1>9, ComingGets
  <2>2. Moves(srv, b, srv', b)
    BY <1>2, <1>3, Stays
  <2>3. QED
    BY <1>2, <1>3, <1>7, <1>10, <2>1, <2>2, InformedKept
<1>12. QED
  BY <1>1, <1>3, <1>6, <1>7, <1>8, <1>10, <1>11, LinkKeeps

\* The tab's end closes: its socket is not open any more, and nothing else changes.
LEMMA ClosedIs ==
    ASSUME Types, LinkShape, Open, Closed
    PROVE  /\ LinkOK'
           /\ \A s \in SocketIds : ~link'[s].open /\ ToSet(link'[s].down) \subseteq ToSet(link[s].down)
<1>1. PICK q \in Seq(Upward) : link' = [link EXCEPT ![tab.sock] = [link[tab.sock] EXCEPT !.open = FALSE, !.down = <<>>, !.up = q]]
  <2>1. tab.sock \in SocketIds
    BY Typed DEF Open
  <2>2. link[tab.sock].up \in Seq(Upward) /\ <<>> \in Seq(Upward)
    BY <2>1, Typed
  <2>3. QED
    BY <2>2 DEF Closed
<1>2. tab.sock \in SocketIds
  BY Typed DEF Open
<1>3. PICK k \in SocketT : /\ k = [link[tab.sock] EXCEPT !.open = FALSE, !.down = <<>>, !.up = q]
                           /\ ~k.open /\ k.down = <<>>
  <2>1. PICK y \in SocketT : y = link[tab.sock]
    BY <1>2 DEF Types, LinkOK
  <2>2. <<>> \in Seq(Message)
    OBVIOUS
  <2>3. \A z \in SocketT : /\ [z EXCEPT !.open = FALSE] \in SocketT
                           /\ \A p \in Seq(Message) : [z EXCEPT !.down = p] \in SocketT
                           /\ \A p \in Seq(Upward) : [z EXCEPT !.up = p] \in SocketT
    BY DEF SocketT
  <2>4. [y EXCEPT !.open = FALSE, !.down = <<>>, !.up = q] \in SocketT
    BY <2>2, <2>3
  <2>5. QED
    BY <2>1, <2>4 DEF SocketT
<1>4. /\ LinkOK' /\ link'[tab.sock] = k
      /\ \A t \in SocketIds : t # tab.sock => link'[t] = link[t]
  <2>1. link' = [link EXCEPT ![tab.sock] = k]
    BY <1>1, <1>3
  <2>2. QED
    BY <1>2, <1>3, <2>1, LinkUpdates
<1>5. ToSet(k.down) = {}
  BY <1>3 DEF ToSet
<1>6. QED
  BY <1>3, <1>4, <1>5 DEF LinkShape

\* What the tab holds, after any of its steps.
LEMMA TabUpdates ==
    ASSUME NEW t \in TabT
    PROVE  /\ \A x \in Phases : [t EXCEPT !.phase = x] \in TabT
           /\ \A x \in Ids : [t EXCEPT !.req = x] \in TabT /\ [t EXCEPT !.ses = x] \in TabT /\ [t EXCEPT !.beat = x] \in TabT
           /\ \A x \in {0} \cup SocketIds : [t EXCEPT !.sock = x] \in TabT
BY DEF TabT

LEMMA DropsKeeps ==
    ASSUME LinkInv, Drops
    PROVE  LinkInv'
<1>1. PICK b \in Nat : Inv(b)
  BY DEF LinkInv
<1>2. Types /\ BaseOK(srv, b) /\ LinkShape /\ Informed(b) /\ tab \in TabT
  BY <1>1 DEF Inv, Truthful, Types, RestOK
<1>3. /\ tab' = [tab EXCEPT !.beat = 0] /\ Happens
      /\ UNCHANGED <<srv, loaded, pipe, rt, http, seen>>
  BY DEF Drops
<1>4. /\ LinkOK'
      /\ \A s \in SocketIds : ~link'[s].open /\ ToSet(link'[s].down) \subseteq ToSet(link[s].down)
  BY <1>2, ClosedIs DEF Drops
<1>5. /\ tab' \in TabT /\ tab'.phase = tab.phase /\ tab'.req = tab.req /\ tab'.ses = tab.ses /\ tab'.sock = tab.sock
  BY <1>2, <1>3, TabUpdates, ZeroIsId DEF TabT
<1>6. LinkShape' /\ ~Open'
  BY <1>2, <1>4, <1>5, Typed DEF LinkShape, Open
<1>7. Gets(<<>>) /\ ToSet(<<>>) = {}
  BY <1>2, <1>3, GetsNone
<1>8. Types'
  <2>1. SrvOK' /\ RtOK' /\ HttpOK' /\ pipe' \in Seq(Command)
    BY <1>2, <1>3 DEF Types, SrvOK, RtOK, HttpOK, Answered
  <2>2. RestOK'
    BY <1>2, <1>3, <1>5, LeftTyped DEF Types, RestOK
  <2>3. QED
    BY <1>4, <2>1, <2>2 DEF Types
<1>9. Informed(b)'
  <2>1. Agrees \/ Missed(seen.ver) => (Agrees \/ Missed(seen.ver))'
    BY <1>3, <1>5 DEF Agrees, Missed
  <2>2. QED
    BY <1>2, <1>3, <1>6, <2>1 DEF Informed
<1>10. QED
  BY <1>1, <1>3, <1>4, <1>5, <1>6, <1>7, <1>8, <1>9, LinkKeeps

LEMMA RefreshesKeeps ==
    ASSUME LinkInv, Refreshes
    PROVE  LinkInv'
<1>1. PICK b \in Nat : Inv(b)
  BY DEF LinkInv
<1>2. Types /\ BaseOK(srv, b) /\ srv.ver \in Nat /\ b \in Nat /\ LinkShape /\ tab.sock \in {0} \cup SocketIds
  BY <1>1, Typed DEF Inv, Truthful
<1>3. /\ tab' = FreshTab(tab.sock) /\ Happens
      /\ http' = [http EXCEPT !.post = None, !.del = None]
      /\ seen' = [ver |-> 0, last |-> TRUE]
      /\ UNCHANGED <<srv, loaded, pipe, rt>>
  BY DEF Refreshes
<1>4. /\ LinkOK'
      /\ \A s \in SocketIds : ~link'[s].open /\ ToSet(link'[s].down) \subseteq ToSet(link[s].down)
  BY <1>2, ClosedIs DEF Refreshes
<1>5. tab' \in TabT /\ tab'.phase = "idle" /\ tab'.req = 0 /\ tab'.sock = tab.sock
  BY <1>2, <1>3, ZeroIsId DEF FreshTab, TabT, Phases
<1>6. LinkShape' /\ ~Open'
  BY <1>2, <1>4, <1>5 DEF LinkShape, Open
<1>7. Gets(<<>>) /\ ToSet(<<>>) = {}
  BY <1>2, <1>3, GetsNone
<1>8. HttpOK' /\ http'.post = None /\ http'.del = None /\ http'.cancel = http.cancel
  <2>1. \A h \in HttpT : [h EXCEPT !.post = None] \in HttpT /\ [h EXCEPT !.del = None] \in HttpT
    BY DEF HttpT
  <2>2. http \in HttpT
    BY <1>2 DEF Types, HttpOK
  <2>3. http' \in HttpT /\ http'.post = None /\ http'.del = None /\ http'.cancel = http.cancel
    BY <1>3, <2>1, <2>2 DEF HttpT
  <2>4. QED
    BY <2>3 DEF HttpOK, Answered
<1>9. Types'
  <2>1. SrvOK' /\ RtOK' /\ pipe' \in Seq(Command)
    BY <1>2, <1>3 DEF Types, SrvOK, RtOK
  <2>2. RestOK'
    <3>1. seen' \in [ver : Versions, last : BOOLEAN]
      BY <1>3 DEF Versions
    <3>2. QED
      BY <1>2, <1>3, <1>5, <3>1, LeftTyped DEF Types, RestOK
  <2>3. QED
    BY <1>4, <1>8, <2>1, <2>2 DEF Types
<1>10. Informed(b)'
  <2>1. seen'.ver = 0
    BY <1>3
  <2>2. seen'.ver >= b => Agrees'
    BY <1>2, <1>3, <1>5, <2>1 DEF Agrees, BaseOK
  <2>3. QED
    BY <1>2, <1>3, <1>6, <2>1, <2>2 DEF Informed
<1>11. QED
  <2>1. ~Answered(http'.post) /\ ~Answered(http'.del)
    BY <1>8 DEF Answered
  <2>2. QED
    BY <1>1, <1>3, <1>4, <1>5, <1>6, <1>7, <1>8, <1>9, <1>10, <2>1, LinkKeeps

\* The page registers before anything else is awaited, and its hello tells it all.
LEMMA ConnectsKeeps ==
    ASSUME LinkInv, Connects
    PROVE  LinkInv'
<1>1. PICK b \in Nat : Inv(b)
  BY DEF LinkInv
<1>2. /\ Types /\ BaseOK(srv, b) /\ LinkShape /\ Informed(b) /\ Orders /\ tab \in TabT /\ ~Open
      /\ tab.sock \in {0} \cup SocketIds
  BY <1>1, Typed DEF Inv, Truthful, Types, RestOK, Connects
<1>3. PICK t \in SocketIds : t = tab.sock + 1 /\ t # 0
  BY <1>2, LinkBoundsAssumption, Typed DEF Connects, SocketIds
<1>4. PICK c \in Command : c = Issue("connected", t, 0) /\ c.op = "connected" /\ c.by = t
  <2>1. Issue("connected", t, 0) \in Command
    BY IssueTyped, ZeroIsId
  <2>2. Issue("connected", t, 0).op = "connected" /\ Issue("connected", t, 0).by = t
    BY DEF Issue, Cmd
  <2>3. QED
    BY <2>1, <2>2
<1>5. /\ tab' = [tab EXCEPT !.sock = t] /\ pipe' = Append(pipe, c)
      /\ link' = [link EXCEPT ![t] = [Unused EXCEPT !.open = TRUE, !.hub = TRUE]]
      /\ UNCHANGED <<srv, loaded, rt, http, seen, left>>
  BY <1>3, <1>4 DEF Connects
<1>6. PICK k \in SocketT : /\ k = [Unused EXCEPT !.open = TRUE, !.hub = TRUE]
                           /\ k.open /\ k.hub /\ k.down = <<>>
  <2>1. <<>> \in Seq(Message) /\ <<>> \in Seq(Upward)
    OBVIOUS
  <2>2. [Unused EXCEPT !.open = TRUE, !.hub = TRUE] \in SocketT
    BY <2>1 DEF Unused, SocketT
  <2>3. QED
    BY <2>2 DEF Unused
<1>7. /\ LinkOK' /\ link'[t] = k
      /\ \A s \in SocketIds : s # t => link'[s] = link[s]
  BY <1>2, <1>5, <1>6, LinkUpdates
<1>8. /\ tab' \in TabT /\ tab'.phase = tab.phase /\ tab'.req = tab.req /\ tab'.ses = tab.ses /\ tab'.sock = t
  BY <1>2, <1>5, TabUpdates DEF TabT
<1>9. \A s \in SocketIds : ~link[s].open
  BY <1>2 DEF LinkShape, Open, SocketIds
<1>10. LinkShape'
  BY <1>6, <1>7, <1>8, <1>9 DEF LinkShape
<1>11. Gets(<<c>>) /\ ToSet(<<c>>) = {c}
  BY <1>2, <1>5, GetsOne
<1>12. PICK n : Gets(n) /\ ToSet(n) = {c} /\ n = <<c>>
  BY <1>11
<1>13. pipe' \in Seq(Command) /\ c \in ToSet(pipe') /\ ToSet(pipe') = ToSet(pipe) \cup {c}
  BY <1>2, <1>12, GetsFacts
<1>14. Registering'
  BY <1>4, <1>13 DEF Registering
<1>15. Types'
  <2>1. SrvOK' /\ RtOK' /\ HttpOK'
    BY <1>2, <1>5 DEF Types, SrvOK, RtOK, HttpOK, Answered
  <2>2. RestOK'
    BY <1>2, <1>5, <1>8 DEF Types, RestOK
  <2>3. QED
    BY <1>7, <1>13, <2>1, <2>2 DEF Types
<1>16. Truthful(b)'
  <2>1. Moves(srv, b, srv', b)
    BY <1>2, <1>5, Stays
  <2>2. \A x \in ToSet(pipe') : x \in ToSet(pipe) \/ ReadTrue(x, srv', b)
    BY <1>4, <1>13 DEF ReadTrue
  <2>3. \A s \in SocketIds : ToSet(link'[s].down) \subseteq ToSet(link[s].down)
    <3>1. ToSet(k.down) = {}
      BY <1>6 DEF ToSet
    <3>2. QED
      BY <1>7, <3>1
  <2>4. QED
    BY <1>1, <1>2, <1>5, <1>15, <2>1, <2>2, <2>3, TruthKept DEF Inv
<1>17. Informed(b)'
  <2>1. Agrees \/ Missed(seen.ver) => (Agrees \/ Missed(seen.ver))'
    BY <1>5, <1>8 DEF Agrees, Missed
  <2>2. Coming(b)'
    BY <1>4, <1>8, <1>13 DEF Coming, WillTell
  <2>3. QED
    BY <1>2, <1>5, <2>1, <2>2 DEF Informed
<1>18. CancelOrder' /\ GoneOrder'
  <2>1. pipe \in Seq(Command) /\ n \in Seq(Command) /\ pipe' = pipe \o n
    BY <1>2, <1>12 DEF Types, Gets
  <2>2. ToSet(n) \cap Op("broadcast") = {} /\ ToSet(n) \cap Op("disconnected") = {} /\ c \in Op("connected")
    BY <1>4, <1>12 DEF Op
  <2>3. NoneBehind(pipe', For("cancel", srv.id), Op("broadcast"))
    BY <1>2, <2>1, <2>2, BehindJoined DEF Orders, CancelOrder
  <2>4. Followed(pipe', Op("disconnected"), Op("connected"))
    BY <1>12, <2>1, <2>2, FollowedJoined
  <2>5. QED
    BY <1>5, <2>3, <2>4 DEF CancelOrder, GoneOrder
<1>19. MarkOrder' /\ Claimed' /\ Resumed'
  BY <1>14 DEF MarkOrder, Claimed, Resumed
<1>20. Asked'
  BY <1>1, <1>5, <1>8 DEF Inv, Asked
<1>21. Inv(b)'
  BY <1>10, <1>15, <1>16, <1>17, <1>18, <1>19, <1>20 DEF Inv, Orders
<1>22. QED
  BY <1>21 DEF LinkInv

\* Most steps of the tab leave the sockets alone.
LEMMA SocketsStay ==
    ASSUME Types, LinkShape, UNCHANGED link, tab'.sock = tab.sock
    PROVE  LinkOK' /\ LinkShape' /\ Open' = Open
BY DEF Types, LinkOK, LinkShape, Open

LEMMA RequestsDeviceKeeps ==
    ASSUME LinkInv, RequestsDevice
    PROVE  LinkInv'
<1>1. PICK b \in Nat : Inv(b)
  BY DEF LinkInv
<1>2. Types /\ BaseOK(srv, b) /\ LinkShape /\ Informed(b) /\ tab \in TabT
  BY <1>1 DEF Inv, Truthful, Types, RestOK
<1>3. /\ tab.phase \in {"idle", "ended"} /\ tab' = [tab EXCEPT !.phase = "idle"]
      /\ http' = [http EXCEPT !.post = Awaited, !.sent = TRUE]
      /\ UNCHANGED <<srv, loaded, pipe, rt, link, seen, left>>
  BY DEF RequestsDevice
<1>4. tab' \in TabT /\ tab'.phase = "idle" /\ tab'.req = tab.req /\ tab'.sock = tab.sock
  BY <1>2, <1>3, TabUpdates DEF TabT, Phases
<1>5. LinkOK' /\ LinkShape' /\ Open' = Open
  BY <1>2, <1>3, <1>4, SocketsStay
<1>6. Gets(<<>>) /\ ToSet(<<>>) = {}
  BY <1>2, <1>3, GetsNone
<1>7. HttpOK' /\ http'.post = Awaited /\ http'.del = http.del /\ http'.cancel = http.cancel
  <2>1. \A h \in HttpT : [h EXCEPT !.post = Awaited] \in HttpT /\ [h EXCEPT !.sent = TRUE] \in HttpT
    BY DEF HttpT
  <2>2. http \in HttpT
    BY <1>2 DEF Types, HttpOK
  <2>3. http' \in HttpT /\ http'.post = Awaited /\ http'.del = http.del /\ http'.cancel = http.cancel
    BY <1>3, <2>1, <2>2 DEF HttpT
  <2>4. QED
    BY <1>2, <2>3 DEF Types, HttpOK, Answered
<1>8. Types'
  <2>1. SrvOK' /\ RtOK' /\ pipe' \in Seq(Command)
    BY <1>2, <1>3 DEF Types, SrvOK, RtOK
  <2>2. RestOK'
    BY <1>2, <1>3, <1>4 DEF Types, RestOK
  <2>3. QED
    BY <1>5, <1>7, <2>1, <2>2 DEF Types
<1>9. Informed(b)'
  <2>1. Agrees \/ Missed(seen.ver) => Agrees'
    BY <1>2, <1>3, <1>4, Typed DEF Agrees, Missed, Held
  <2>2. Coming(b) => Coming(b)'
    BY <1>3, <1>4, <1>7, ComingGets
  <2>3. QED
    BY <1>2, <1>3, <1>5, <2>1, <2>2 DEF Informed
<1>10. ~Answered(http'.post)
  BY <1>7 DEF Answered
<1>11. QED
  BY <1>1, <1>3, <1>4, <1>5, <1>6, <1>7, <1>8, <1>9, <1>10, LinkKeeps

LEMMA PostArrivesKeeps ==
    ASSUME LinkInv, PostArrives
    PROVE  LinkInv'
<1>1. PICK b \in Nat : Inv(b)
  BY DEF LinkInv
<1>2. Types /\ BaseOK(srv, b) /\ LinkShape /\ Informed(b)
  BY <1>1 DEF Inv, Truthful
<1>3. PICK c \in Command : c = Issue("join", 0, 0) /\ c.op = "join"
  BY IssuePicked, ZeroIsId
<1>4. /\ http' = [http EXCEPT !.sent = FALSE] /\ pipe' = Append(pipe, c)
      /\ UNCHANGED <<srv, loaded, rt, link, tab, seen, left>>
  BY <1>3 DEF PostArrives
<1>5. LinkOK' /\ LinkShape' /\ Open' = Open
  BY <1>2, <1>4, SocketsStay
<1>6. Gets(<<c>>) /\ ToSet(<<c>>) = {c}
  BY <1>2, <1>4, GetsOne
<1>7. HttpOK' /\ http'.post = http.post /\ http'.del = http.del /\ http'.cancel = http.cancel
  BY <1>2, <1>4 DEF Types, HttpOK, HttpT, Answered
<1>8. pipe' \in Seq(Command) /\ ToSet(pipe) \subseteq ToSet(pipe')
  BY <1>2, <1>6, GetsFacts
<1>9. Types'
  <2>1. SrvOK' /\ RtOK' /\ RestOK'
    BY <1>2, <1>4 DEF Types, SrvOK, RtOK, RestOK
  <2>2. QED
    BY <1>5, <1>7, <1>8, <2>1 DEF Types
<1>10. Informed(b)'
  <2>1. Moves(srv, b, srv', b)
    BY <1>2, <1>4, Stays
  <2>2. Coming(b) => Coming(b)'
    BY <1>4, <1>7, <1>8, ComingGets
  <2>3. QED
    BY <1>2, <1>4, <1>5, <1>9, <2>1, <2>2, InformedKept
<1>11. QED
  BY <1>1, <1>3, <1>4, <1>5, <1>6, <1>7, <1>9, <1>10, LinkKeeps

\* What the tab is told, it shows; what is older than what it knew is noted.
LEMMA LearnsInformed ==
    ASSUME NEW b \in Nat, Types, BaseOK(srv, b), Informed(b), srv' = srv, NEW v \in Views, Current(v, srv, b),
           Learns(v.ver), Shows(v, srv) => Agrees' \/ Missed(v.ver)', Open' => Open,
           Open' /\ Coming(b) /\ ~(v.ver >= b) => Coming(b)'
    PROVE  /\ Informed(b)'
           /\ seen' \in [ver : Versions, last : BOOLEAN]
<1>1. v.ver \in Nat /\ seen.ver \in Nat /\ srv.ver \in Nat
  BY ViewFields, Typed
<1>2. /\ seen'.ver = (IF v.ver > seen.ver THEN v.ver ELSE seen.ver)
      /\ seen'.last = (v.ver >= seen.ver)
      /\ seen' \in [ver : Versions, last : BOOLEAN]
  BY <1>1 DEF Learns, Versions
<1>3. v.ver <= srv.ver /\ (v.ver >= b => Agrees' \/ Missed(v.ver)')
  BY DEF Current
<1>4. seen'.ver <= srv'.ver
  BY <1>1, <1>2, <1>3 DEF Informed
<1>5. seen'.last /\ seen'.ver >= b => (Agrees \/ Missed(seen.ver))'
  <2>1. seen'.last => seen'.ver = v.ver
    BY <1>1, <1>2
  <2>2. seen'.ver = v.ver /\ Missed(v.ver)' => Missed(seen.ver)'
    BY DEF Missed
  <2>3. QED
    BY <1>1, <1>2, <1>3, <2>1, <2>2
<1>6. Open' /\ seen'.ver < b => Coming(b)'
  BY <1>1, <1>2 DEF Informed
<1>7. QED
  BY <1>2, <1>4, <1>5, <1>6 DEF Informed

LEMMA PostAnsweredKeeps ==
    ASSUME LinkInv, PostAnswered
    PROVE  LinkInv'
<1>1. PICK b \in Nat : Inv(b)
  BY DEF LinkInv
<1>2. Types /\ BaseOK(srv, b) /\ LinkShape /\ Informed(b) /\ tab \in TabT
  BY <1>1 DEF Inv, Truthful, Types, RestOK
<1>3. /\ Answered(http.post) /\ Learns(http.post.ver)
      /\ tab' = [tab EXCEPT !.phase = "waiting", !.req = http.post.id]
      /\ http' = [http EXCEPT !.post = None]
      /\ UNCHANGED <<srv, loaded, pipe, rt, link, left>>
  BY DEF PostAnswered
<1>4. PICK v \in Views : v = http.post /\ v.is = "waiting" /\ v.id \in Ids /\ v.id <= srv.id /\ Current(v, srv, b)
  <2>1. http.post \in Views /\ http.post.is = "waiting" /\ Current(http.post, srv, b)
    BY <1>1, <1>2, <1>3, AnsweredIsView DEF Types, HttpOK, Inv, Truthful
  <2>2. QED
    BY <2>1, ViewFields DEF Current
<1>5. tab' \in TabT /\ tab'.phase = "waiting" /\ tab'.req = v.id /\ tab'.sock = tab.sock
  <2>1. [tab EXCEPT !.phase = "waiting"] \in TabT
    BY <1>2, TabUpdates DEF Phases
  <2>2. [tab EXCEPT !.phase = "waiting", !.req = v.id] \in TabT
    BY <1>4, <2>1, TabUpdates
  <2>3. QED
    BY <1>3, <1>4, <2>2 DEF TabT
<1>6. LinkOK' /\ LinkShape' /\ Open' = Open
  BY <1>2, <1>3, <1>5, SocketsStay
<1>7. Gets(<<>>) /\ ToSet(<<>>) = {}
  BY <1>2, <1>3, GetsNone
<1>8. HttpOK' /\ ~Answered(http'.post) /\ http'.del = http.del /\ http'.cancel = http.cancel
  <2>1. [http EXCEPT !.post = None] \in HttpT /\ [http EXCEPT !.post = None].post = None
        /\ [http EXCEPT !.post = None].del = http.del /\ [http EXCEPT !.post = None].cancel = http.cancel
    BY <1>2, HttpUpdates
  <2>2. QED
    BY <1>2, <1>3, <2>1 DEF Types, HttpOK, Answered
<1>9. Informed(b)' /\ seen' \in [ver : Versions, last : BOOLEAN]
  <2>1. Shows(v, srv) => Agrees' \/ Missed(v.ver)'
    BY <1>3, <1>4, <1>5 DEF Shows, Agrees, Missed
  <2>2. Coming(b) => Coming(b)'
    BY <1>3, <1>5, <1>8, ComingGets
  <2>3. Learns(v.ver)
    BY <1>3, <1>4
  <2>4. QED
    BY <1>2, <1>3, <1>4, <1>6, <2>1, <2>2, <2>3, LearnsInformed
<1>10. Types'
  <2>1. SrvOK' /\ RtOK' /\ pipe' \in Seq(Command)
    BY <1>2, <1>3 DEF Types, SrvOK, RtOK
  <2>2. RestOK'
    BY <1>2, <1>3, <1>5, <1>9 DEF Types, RestOK
  <2>3. QED
    BY <1>6, <1>8, <2>1, <2>2 DEF Types
<1>11. QED
  BY <1>1, <1>3, <1>4, <1>5, <1>6, <1>7, <1>8, <1>9, <1>10, LinkKeeps

LEMMA DeleteAnsweredKeeps ==
    ASSUME LinkInv, DeleteAnswered
    PROVE  LinkInv'
<1>1. PICK b \in Nat : Inv(b)
  BY DEF LinkInv
<1>2. Types /\ BaseOK(srv, b) /\ LinkShape /\ Informed(b) /\ tab \in TabT
  BY <1>1 DEF Inv, Truthful, Types, RestOK
<1>3. /\ Answered(http.del) /\ Learns(http.del.ver)
      /\ tab' = [tab EXCEPT !.phase = "idle", !.req = 0]
      /\ http' = [http EXCEPT !.del = None]
      /\ UNCHANGED <<srv, loaded, pipe, rt, link, left>>
  BY DEF DeleteAnswered
<1>4. PICK v \in Views : v = http.del /\ v.is = "idle" /\ Current(v, srv, b)
  BY <1>1, <1>2, <1>3, AnsweredIsView DEF Types, HttpOK, Inv, Truthful
<1>5. tab' \in TabT /\ tab'.phase = "idle" /\ tab'.req = 0 /\ tab'.sock = tab.sock
  <2>1. [tab EXCEPT !.phase = "idle"] \in TabT
    BY <1>2, TabUpdates DEF Phases
  <2>2. [tab EXCEPT !.phase = "idle", !.req = 0] \in TabT
    BY <2>1, TabUpdates, ZeroIsId
  <2>3. QED
    BY <1>3, <2>2 DEF TabT
<1>6. LinkOK' /\ LinkShape' /\ Open' = Open
  BY <1>2, <1>3, <1>5, SocketsStay
<1>7. Gets(<<>>) /\ ToSet(<<>>) = {}
  BY <1>2, <1>3, GetsNone
<1>8. HttpOK' /\ ~Answered(http'.del) /\ http'.post = http.post /\ http'.cancel = http.cancel
  <2>1. [http EXCEPT !.del = None] \in HttpT /\ [http EXCEPT !.del = None].del = None
        /\ [http EXCEPT !.del = None].post = http.post /\ [http EXCEPT !.del = None].cancel = http.cancel
    BY <1>2, HttpUpdates
  <2>2. QED
    BY <1>2, <1>3, <2>1 DEF Types, HttpOK, Answered
<1>9. Informed(b)' /\ seen' \in [ver : Versions, last : BOOLEAN]
  <2>1. Shows(v, srv) => Agrees'
    BY <1>3, <1>4, <1>5 DEF Shows, Agrees
  <2>2. Coming(b) => Coming(b)'
    BY <1>3, <1>5, ComingGets
  <2>3. Learns(v.ver)
    BY <1>3, <1>4
  <2>4. QED
    BY <1>2, <1>3, <1>4, <1>6, <2>1, <2>2, <2>3, LearnsInformed
<1>10. Types'
  <2>1. SrvOK' /\ RtOK' /\ pipe' \in Seq(Command)
    BY <1>2, <1>3 DEF Types, SrvOK, RtOK
  <2>2. RestOK'
    BY <1>2, <1>3, <1>5, <1>9 DEF Types, RestOK
  <2>3. QED
    BY <1>6, <1>8, <2>1, <2>2 DEF Types
<1>11. QED
  BY <1>1, <1>3, <1>5, <1>6, <1>7, <1>8, <1>9, <1>10, LinkKeeps

LEMMA CancelsRequestKeeps ==
    ASSUME LinkInv, CancelsRequest
    PROVE  LinkInv'
<1>1. PICK b \in Nat : Inv(b)
  BY DEF LinkInv
<1>2. Types /\ BaseOK(srv, b) /\ LinkShape /\ Informed(b) /\ tab.req \in Ids
  BY <1>1, Typed DEF Inv, Truthful
<1>3. /\ http' = [http EXCEPT !.del = Awaited, !.cancel = tab.req] /\ Happens
      /\ UNCHANGED <<srv, loaded, pipe, rt, link, tab, seen>>
  BY DEF CancelsRequest
<1>4. LinkOK' /\ LinkShape' /\ Open' = Open
  BY <1>2, <1>3, SocketsStay
<1>5. Gets(<<>>) /\ ToSet(<<>>) = {}
  BY <1>2, <1>3, GetsNone
<1>6. HttpOK' /\ http'.post = http.post /\ ~Answered(http'.del) /\ http'.cancel = tab.req
  <2>1. \A h \in HttpT : [h EXCEPT !.del = Awaited] \in HttpT /\ [h EXCEPT !.cancel = tab.req] \in HttpT
    BY <1>2 DEF HttpT
  <2>2. http \in HttpT
    BY <1>2 DEF Types, HttpOK
  <2>3. http' \in HttpT /\ http'.post = http.post /\ http'.del = Awaited /\ http'.cancel = tab.req
    BY <1>3, <2>1, <2>2 DEF HttpT
  <2>4. QED
    BY <1>2, <2>3 DEF Types, HttpOK, Answered
<1>7. Types'
  <2>1. SrvOK' /\ RtOK' /\ pipe' \in Seq(Command)
    BY <1>2, <1>3 DEF Types, SrvOK, RtOK
  <2>2. RestOK'
    BY <1>2, <1>3, LeftTyped DEF Types, RestOK
  <2>3. QED
    BY <1>4, <1>6, <2>1, <2>2 DEF Types
<1>8. Informed(b)'
  <2>1. Moves(srv, b, srv', b)
    BY <1>2, <1>3, Stays
  <2>2. Coming(b) => Coming(b)'
    BY <1>3, ComingGets
  <2>3. QED
    BY <1>2, <1>3, <1>4, <1>7, <2>1, <2>2, InformedKept
<1>9. QED
  BY <1>1, <1>3, <1>4, <1>5, <1>6, <1>7, <1>8, LinkKeeps

\* A DELETE is never for a request that is still to come.
LEMMA DeleteArrivesKeeps ==
    ASSUME LinkInv, DeleteArrives
    PROVE  LinkInv'
<1>1. PICK b \in Nat : Inv(b)
  BY DEF LinkInv
<1>2. Types /\ BaseOK(srv, b) /\ LinkShape /\ Informed(b) /\ http.cancel \in Ids /\ http.cancel <= srv.id
  BY <1>1, Typed DEF Inv, Truthful, Asked
<1>3. PICK c \in Command : c = Issue("cancel", 0, http.cancel) /\ c.op = "cancel" /\ c.arg = http.cancel
  BY <1>2, IssuePicked
<1>4. /\ http' = [http EXCEPT !.cancel = 0] /\ pipe' = Append(pipe, c)
      /\ UNCHANGED <<srv, loaded, rt, link, tab, seen, left>>
  BY <1>3 DEF DeleteArrives
<1>5. LinkOK' /\ LinkShape' /\ Open' = Open
  BY <1>2, <1>4, SocketsStay
<1>6. Gets(<<c>>) /\ ToSet(<<c>>) = {c}
  BY <1>2, <1>4, GetsOne
<1>7. HttpOK' /\ http'.post = http.post /\ http'.del = http.del /\ http'.cancel = 0
  BY <1>2, <1>4, ZeroIsId DEF Types, HttpOK, HttpT, Answered
<1>8. pipe' \in Seq(Command) /\ ToSet(pipe) \subseteq ToSet(pipe')
  BY <1>2, <1>6, GetsFacts
<1>9. Types'
  <2>1. SrvOK' /\ RtOK' /\ RestOK'
    BY <1>2, <1>4 DEF Types, SrvOK, RtOK, RestOK
  <2>2. QED
    BY <1>5, <1>7, <1>8, <2>1 DEF Types
<1>10. Informed(b)'
  <2>1. Moves(srv, b, srv', b)
    BY <1>2, <1>4, Stays
  <2>2. Coming(b) => Coming(b)'
    BY <1>4, <1>8, ComingGets
  <2>3. QED
    BY <1>2, <1>4, <1>5, <1>9, <2>1, <2>2, InformedKept
<1>11. QED
  BY <1>1, <1>2, <1>3, <1>4, <1>5, <1>6, <1>7, <1>9, <1>10, LinkKeeps

LEMMA FetchFailsKeeps ==
    ASSUME LinkInv, FetchFails
    PROVE  LinkInv'
<1>1. PICK b \in Nat : Inv(b)
  BY DEF LinkInv
<1>2. Types /\ BaseOK(srv, b) /\ LinkShape /\ Informed(b) /\ http \in HttpT
  BY <1>1 DEF Inv, Truthful, Types, HttpOK
<1>3. Happens /\ UNCHANGED <<srv, loaded, pipe, rt, link, tab, seen>>
  BY DEF FetchFails
<1>4. /\ http' \in HttpT /\ http'.cancel \in {0, http.cancel}
      /\ http'.post \in {None, http.post} /\ http'.del \in {None, http.del}
  <2>1. PICK sent \in BOOLEAN, cancel \in {0, http.cancel} :
            \/ http' = [http EXCEPT !.post = None, !.sent = sent]
            \/ http' = [http EXCEPT !.del = None, !.cancel = cancel]
    <3>1. PICK request \in BOOLEAN :
            \/ http' = [http EXCEPT !.post = None, !.sent = @ /\ request]
            \/ http' = [http EXCEPT !.del = None, !.cancel = IF request THEN @ ELSE 0]
      BY DEF FetchFails
    <3>2. PICK sent \in BOOLEAN : sent = (http.sent /\ request)
      OBVIOUS
    <3>3. PICK cancel \in {0, http.cancel} : cancel = IF request THEN http.cancel ELSE 0
      OBVIOUS
    <3>4. CASE http' = [http EXCEPT !.post = None, !.sent = @ /\ request]
      <4>1. http' = [http EXCEPT !.post = None, !.sent = sent]
        BY <3>2, <3>4
      <4>2. QED
        BY <4>1
    <3>5. CASE http' = [http EXCEPT !.del = None, !.cancel = IF request THEN @ ELSE 0]
      <4>1. http' = [http EXCEPT !.del = None, !.cancel = cancel]
        BY <3>3, <3>5
      <4>2. QED
        BY <4>1
    <3>6. QED
      BY <3>1, <3>4, <3>5
  <2>2. http.cancel \in Ids
    BY <1>2 DEF HttpT
  <2>3. \A h \in HttpT : /\ [h EXCEPT !.post = None] \in HttpT /\ [h EXCEPT !.sent = sent] \in HttpT
                          /\ [h EXCEPT !.del = None] \in HttpT /\ [h EXCEPT !.cancel = cancel] \in HttpT
    BY <2>2, ZeroIsId DEF HttpT
  <2>4. CASE http' = [http EXCEPT !.post = None, !.sent = sent]
    <3>1. [http EXCEPT !.post = None, !.sent = sent] \in HttpT
      BY <1>2, <2>3
    <3>2. QED
      BY <1>2, <2>4, <3>1 DEF HttpT
  <2>5. CASE http' = [http EXCEPT !.del = None, !.cancel = cancel]
    <3>1. [http EXCEPT !.del = None, !.cancel = cancel] \in HttpT
      BY <1>2, <2>3
    <3>2. QED
      BY <1>2, <2>5, <3>1 DEF HttpT
  <2>6. QED
    BY <2>1, <2>4, <2>5
<1>5. LinkOK' /\ LinkShape' /\ Open' = Open
  BY <1>2, <1>3, SocketsStay
<1>6. Gets(<<>>) /\ ToSet(<<>>) = {}
  BY <1>2, <1>3, GetsNone
<1>7. /\ HttpOK'
      /\ Answered(http'.post) => http'.post = http.post
      /\ Answered(http'.del) => http'.del = http.del
  BY <1>2, <1>4 DEF Types, HttpOK, Answered
<1>8. Types'
  <2>1. SrvOK' /\ RtOK' /\ pipe' \in Seq(Command)
    BY <1>2, <1>3 DEF Types, SrvOK, RtOK
  <2>2. RestOK'
    BY <1>2, <1>3, LeftTyped DEF Types, RestOK
  <2>3. QED
    BY <1>5, <1>7, <2>1, <2>2 DEF Types
<1>9. Informed(b)'
  <2>1. Moves(srv, b, srv', b)
    BY <1>2, <1>3, Stays
  <2>2. Coming(b) => Coming(b)'
    BY <1>3, ComingGets
  <2>3. QED
    BY <1>2, <1>3, <1>5, <1>8, <2>1, <2>2, InformedKept
<1>10. QED
  BY <1>1, <1>3, <1>4, <1>5, <1>6, <1>7, <1>8, <1>9, LinkKeeps

LEMMA AppendIs ==
    ASSUME NEW S, NEW q \in Seq(S), NEW u \in S
    PROVE  /\ Append(q, u) \in Seq(S)
           /\ ToSet(Append(q, u)) = ToSet(q) \cup {u}
<1>1. PICK r : r = Append(q, u)
  OBVIOUS
<1>2. Grown(r, q, u)
  BY <1>1 DEF Grown
<1>3. r \in Seq(S) /\ ToSet(r) = ToSet(q) \cup {u}
  BY <1>2, GrownIs
<1>4. QED
  BY <1>1, <1>3

LEMMA EndsSessionKeeps ==
    ASSUME LinkInv, EndsSession
    PROVE  LinkInv'
<1>1. PICK b \in Nat : Inv(b)
  BY DEF LinkInv
<1>2. /\ Types /\ BaseOK(srv, b) /\ LinkShape /\ Informed(b) /\ Open /\ tab.sock \in SocketIds /\ tab.ses \in Ids
      /\ link[tab.sock] \in SocketT
  <2>1. Types /\ BaseOK(srv, b) /\ LinkShape /\ Informed(b) /\ Open
    BY <1>1 DEF Inv, Truthful, EndsSession
  <2>2. tab.sock \in SocketIds /\ tab.ses \in Ids
    BY <2>1, Typed DEF Open
  <2>3. QED
    BY <2>1, <2>2 DEF Types, LinkOK
<1>3. PICK u \in Upward : u = [msg |-> "end", id |-> tab.ses]
  <2>1. [msg |-> "end", id |-> tab.ses] \in Upward
    BY <1>2 DEF Upward
  <2>2. QED
    BY <2>1
<1>4. PICK q \in Seq(Upward) : q = link[tab.sock].up
  BY <1>2, Typed
<1>5. PICK r \in Seq(Upward) : r = Append(q, u) /\ ToSet(q) \subseteq ToSet(r)
  BY AppendIs
<1>6. /\ link' = [link EXCEPT ![tab.sock] = [link[tab.sock] EXCEPT !.up = r]] /\ Happens
      /\ UNCHANGED <<srv, loaded, pipe, rt, tab, http, seen>>
  BY <1>3, <1>4, <1>5 DEF EndsSession
<1>7. PICK k \in SocketT : /\ k = [link[tab.sock] EXCEPT !.up = r]
                           /\ k.open = link[tab.sock].open /\ k.hub = link[tab.sock].hub
                           /\ k.down = link[tab.sock].down /\ k.up = r
  <2>1. PICK y \in SocketT : y = link[tab.sock]
    BY <1>2
  <2>2. PICK k \in SocketT : k = [y EXCEPT !.up = r] /\ k.open = y.open /\ k.hub = y.hub /\ k.down = y.down /\ k.up = r
    BY SocketUpdates
  <2>3. QED
    BY <2>1, <2>2
<1>8. /\ LinkOK' /\ link'[tab.sock] = k
      /\ \A s \in SocketIds : s # tab.sock => link'[s] = link[s]
  <2>1. k.open \/ k.down = <<>>
    BY <1>2, <1>7 DEF Types, LinkOK
  <2>2. link' = [link EXCEPT ![tab.sock] = k]
    BY <1>6, <1>7
  <2>3. QED
    BY <1>2, <2>1, <2>2, LinkUpdates
<1>9. \A s \in SocketIds : /\ link'[s].open = link[s].open /\ link'[s].hub = link[s].hub /\ link'[s].down = link[s].down
                           /\ ToSet(link[s].up) \subseteq ToSet(link'[s].up)
  BY <1>4, <1>5, <1>7, <1>8
<1>10. LinkShape' /\ Open' = Open
  BY <1>2, <1>6, <1>9 DEF LinkShape, Open
<1>11. Gets(<<>>) /\ ToSet(<<>>) = {}
  BY <1>2, <1>6, GetsNone
<1>12. Types'
  <2>1. SrvOK' /\ RtOK' /\ pipe' \in Seq(Command)
    BY <1>2, <1>6 DEF Types, SrvOK, RtOK
  <2>2. QED
    BY <1>2, <1>6, <1>8, <2>1, TypesStep
<1>13. Informed(b)'
  <2>1. Moves(srv, b, srv', b)
    BY <1>2, <1>6, Stays
  <2>2. Coming(b) => Coming(b)'
    BY <1>2, <1>6, <1>9, ComingGets
  <2>3. QED
    BY <1>2, <1>6, <1>10, <1>12, <2>1, <2>2, InformedKept
<1>14. QED
  BY <1>1, <1>2, <1>6, <1>9, <1>10, <1>11, <1>12, <1>13, LinkKeeps

\* What the tab shows after a message is what the message says.
LEMMA AppliedIs ==
    ASSUME Types, NEW m \in Message, tab' = Applied(m), srv' = srv
    PROVE  /\ tab' \in TabT /\ tab'.sock = tab.sock /\ tab'.req \in {0, tab.req, m.view.id}
           /\ Shows(m.view, srv) => Agrees' \/ Missed(m.view.ver)'
<1> DEFINE v == m.view
<1>1. tab \in TabT /\ v.id \in Ids /\ v.is \in Phases /\ tab.req \in Ids /\ srv.state \in Held \cup {"idle", "waiting"}
  <2>1. tab \in TabT /\ tab.req \in Ids /\ srv.state \in Held \cup {"idle", "waiting"}
    BY Typed DEF Types, RestOK
  <2>2. v \in Views
    BY DEF Message
  <2>3. QED
    BY <2>1, <2>2, ViewFields
<1>2. CASE v.is = "idle" /\ tab.phase = "ended"
  BY <1>1, <1>2 DEF Applied, Shows, Agrees
<1>3. CASE v.is = "idle" /\ tab.phase # "ended"
  <2>1. tab' = [tab EXCEPT !.phase = "idle", !.req = 0, !.ses = 0]
    BY <1>3 DEF Applied
  <2>2. [tab EXCEPT !.phase = "idle"] \in TabT
    BY <1>1, TabUpdates DEF Phases
  <2>3. [tab EXCEPT !.phase = "idle", !.req = 0] \in TabT
    BY <2>2, TabUpdates, ZeroIsId
  <2>4. tab' \in TabT
    BY <2>1, <2>3, TabUpdates, ZeroIsId
  <2>5. tab'.phase = "idle" /\ tab'.req = 0 /\ tab'.sock = tab.sock
    BY <1>1, <2>1 DEF TabT
  <2>6. QED
    BY <1>3, <2>4, <2>5 DEF Shows, Agrees
<1>4. CASE v.is = "waiting"
  <2>1. tab' = [tab EXCEPT !.phase = "waiting", !.req = v.id]
    BY <1>4 DEF Applied
  <2>2. [tab EXCEPT !.phase = "waiting"] \in TabT
    BY <1>1, TabUpdates DEF Phases
  <2>3. tab' \in TabT
    BY <1>1, <2>1, <2>2, TabUpdates
  <2>4. tab'.phase = "waiting" /\ tab'.req = v.id /\ tab'.sock = tab.sock
    BY <1>1, <2>1 DEF TabT
  <2>5. QED
    BY <1>4, <2>3, <2>4 DEF Shows, Agrees, Missed
<1>5. CASE v.is = "reserved"
  <2>1. tab' = [tab EXCEPT !.phase = "reserved"]
    BY <1>5 DEF Applied
  <2>2. tab' \in TabT
    BY <1>1, <2>1, TabUpdates DEF Phases
  <2>3. tab'.phase = "reserved" /\ tab'.req = tab.req /\ tab'.sock = tab.sock
    BY <1>1, <2>1 DEF TabT
  <2>4. QED
    BY <1>5, <2>2, <2>3 DEF Shows, Agrees
<1>6. CASE v.is = "active"
  <2>1. PICK req \in Ids : req \in {0, tab.req} /\ req = IF m.how = "event" THEN 0 ELSE tab.req
    BY <1>1, ZeroIsId
  <2>2. tab' = [tab EXCEPT !.phase = "active", !.ses = v.id, !.beat = v.id, !.req = req]
    BY <1>6, <2>1 DEF Applied
  <2>3. [tab EXCEPT !.phase = "active"] \in TabT
    BY <1>1, TabUpdates DEF Phases
  <2>4. [tab EXCEPT !.phase = "active", !.ses = v.id] \in TabT
    BY <1>1, <2>3, TabUpdates
  <2>5. [tab EXCEPT !.phase = "active", !.ses = v.id, !.beat = v.id] \in TabT
    BY <1>1, <2>4, TabUpdates
  <2>6. tab' \in TabT
    BY <2>2, <2>5, TabUpdates
  <2>7. tab'.phase = "active" /\ tab'.ses = v.id /\ tab'.req = req /\ tab'.sock = tab.sock
    BY <1>1, <2>2 DEF TabT
  <2>8. QED
    BY <1>6, <2>1, <2>6, <2>7 DEF Shows, Agrees
<1>7. CASE v.is = "ended"
  <2>1. tab' = [tab EXCEPT !.phase = "ended", !.ses = 0, !.beat = 0]
    BY <1>7 DEF Applied
  <2>2. [tab EXCEPT !.phase = "ended"] \in TabT
    BY <1>1, TabUpdates DEF Phases
  <2>3. [tab EXCEPT !.phase = "ended", !.ses = 0] \in TabT
    BY <2>2, TabUpdates, ZeroIsId
  <2>4. tab' \in TabT
    BY <2>1, <2>3, TabUpdates, ZeroIsId
  <2>5. tab'.phase = "ended" /\ tab'.req = tab.req /\ tab'.sock = tab.sock
    BY <1>1, <2>1 DEF TabT
  <2>6. QED
    BY <1>7, <2>4, <2>5 DEF Shows, Agrees
<1>8. QED
  BY <1>1, <1>2, <1>3, <1>4, <1>5, <1>6, <1>7 DEF Phases

\* A message is applied once; a reservation is answered with a claim.
LEMMA ReceivesKeeps ==
    ASSUME LinkInv, Receives
    PROVE  LinkInv'
<1>1. PICK b \in Nat : Inv(b)
  BY DEF LinkInv
<1>2. /\ Types /\ BaseOK(srv, b) /\ LinkShape /\ Informed(b) /\ Open /\ tab.sock \in SocketIds
      /\ link[tab.sock] \in SocketT
  <2>1. Types /\ BaseOK(srv, b) /\ LinkShape /\ Informed(b) /\ Open
    BY <1>1 DEF Inv, Truthful, Receives
  <2>2. tab.sock \in SocketIds
    BY <2>1, Typed DEF Open
  <2>3. QED
    BY <2>1, <2>2 DEF Types, LinkOK
<1>3. PICK q \in Seq(Message) : q = link[tab.sock].down /\ q # <<>>
  BY <1>2, Typed DEF Receives
<1>4. PICK m \in Message : m = Head(q) /\ m \in ToSet(q)
  BY <1>3, Taken
<1>5. PICK d \in Seq(Message) : d = Tail(q) /\ ToSet(d) \subseteq ToSet(q) /\ ToSet(q) \subseteq ToSet(d) \cup {m}
  <2>1. Tail(q) \in Seq(Message) /\ ToSet(Tail(q)) \subseteq ToSet(q) /\ ToSet(q) \subseteq ToSet(Tail(q)) \cup {m}
    BY <1>3, <1>4, Taken
  <2>2. QED
    BY <2>1
<1>6. PICK u \in Upward : u = [msg |-> "claim", id |-> m.view.id] /\ u.msg = "claim" /\ u.id = m.view.id
  <2>1. m.view.id \in Ids
    BY ViewFields DEF Message
  <2>2. [msg |-> "claim", id |-> m.view.id] \in Upward
    BY <2>1 DEF Upward
  <2>3. QED
    BY <2>2
<1>7. PICK p \in Seq(Upward) : p = link[tab.sock].up
  BY <1>2, Typed
<1>8. PICK r \in Seq(Upward) :
        /\ r = IF m.how = "event" /\ m.view.is = "reserved" THEN Append(p, u) ELSE p
        /\ ToSet(p) \subseteq ToSet(r)
        /\ m.how = "event" /\ m.view.is = "reserved" => u \in ToSet(r)
  <2>1. Append(p, u) \in Seq(Upward) /\ ToSet(Append(p, u)) = ToSet(p) \cup {u}
    BY AppendIs
  <2>2. CASE m.how = "event" /\ m.view.is = "reserved"
    BY <2>1, <2>2
  <2>3. CASE ~(m.how = "event" /\ m.view.is = "reserved")
    BY <2>3
  <2>4. QED
    BY <2>2, <2>3
<1>9. /\ tab' = Applied(m) /\ Learns(m.view.ver)
      /\ link' = [link EXCEPT ![tab.sock] = [link[tab.sock] EXCEPT !.down = d, !.up = r]]
      /\ UNCHANGED <<srv, loaded, pipe, rt, http, left>>
  <2>1. /\ tab' = Applied(m) /\ Learns(m.view.ver)
        /\ UNCHANGED <<srv, loaded, pipe, rt, http, left>>
    BY <1>3, <1>4 DEF Receives
  <2>2. m = Head(link[tab.sock].down)
    BY <1>3, <1>4
  <2>3. CASE m.how = "event" /\ m.view.is = "reserved"
    <3>1. link' = [link EXCEPT ![tab.sock] = [link[tab.sock] EXCEPT
                     !.down = Tail(link[tab.sock].down),
                     !.up = Append(link[tab.sock].up, [msg |-> "claim", id |-> m.view.id])]]
      BY <2>2, <2>3 DEF Receives
    <3>2. QED
      BY <1>3, <1>5, <1>6, <1>7, <1>8, <2>1, <2>3, <3>1
  <2>4. CASE ~(m.how = "event" /\ m.view.is = "reserved")
    <3>1. link' = [link EXCEPT ![tab.sock] = [link[tab.sock] EXCEPT
                     !.down = Tail(link[tab.sock].down), !.up = link[tab.sock].up]]
      BY <2>2, <2>4 DEF Receives
    <3>2. QED
      BY <1>3, <1>5, <1>7, <1>8, <2>1, <2>4, <3>1
  <2>5. QED
    BY <2>3, <2>4
<1>10. PICK k \in SocketT : /\ k = [link[tab.sock] EXCEPT !.down = d, !.up = r]
                            /\ k.open = link[tab.sock].open /\ k.hub = link[tab.sock].hub
                            /\ k.down = d /\ k.up = r
  <2>1. PICK y \in SocketT : y = link[tab.sock]
    BY <1>2
  <2>2. [y EXCEPT !.down = d] \in SocketT
    BY DEF SocketT
  <2>3. \A z \in SocketT : [z EXCEPT !.up = r] \in SocketT
    BY DEF SocketT
  <2>4. [y EXCEPT !.down = d, !.up = r] \in SocketT
    BY <2>2, <2>3
  <2>5. QED
    BY <2>1, <2>4 DEF SocketT
<1>11. /\ LinkOK' /\ link'[tab.sock] = k
       /\ \A s \in SocketIds : s # tab.sock => link'[s] = link[s]
  <2>1. k.open
    BY <1>2, <1>10 DEF Open
  <2>2. link' = [link EXCEPT ![tab.sock] = k]
    BY <1>9, <1>10
  <2>3. QED
    BY <1>2, <2>1, <2>2, LinkUpdates
<1>12. \A s \in SocketIds : /\ link'[s].open = link[s].open /\ link'[s].hub = link[s].hub
                            /\ ToSet(link'[s].down) \subseteq ToSet(link[s].down)
                            /\ ToSet(link[s].up) \subseteq ToSet(link'[s].up)
  BY <1>3, <1>5, <1>7, <1>8, <1>10, <1>11
<1>13. /\ tab' \in TabT /\ tab'.sock = tab.sock
       /\ tab'.req \in {0, tab.req} \/ tab'.req <= srv.id
       /\ Shows(m.view, srv) => Agrees' \/ Missed(m.view.ver)'
  <2>1. m.view.id <= srv.id
    BY <1>1, <1>2, <1>3, <1>4 DEF Inv, Truthful, Current
  <2>2. QED
    BY <1>2, <1>9, <2>1, AppliedIs
<1>14. LinkShape' /\ Open' = Open
  BY <1>2, <1>12, <1>13 DEF LinkShape, Open
<1>15. Gets(<<>>) /\ ToSet(<<>>) = {}
  BY <1>2, <1>9, GetsNone
<1>16. Informed(b)' /\ seen' \in [ver : Versions, last : BOOLEAN]
  <2>1. PICK v \in Views : v = m.view
    BY DEF Message
  <2>2. Current(v, srv, b)
    BY <1>1, <1>2, <1>3, <1>4, <2>1 DEF Inv, Truthful
  <2>3. Coming(b) /\ ~(v.ver >= b) => Coming(b)'
    <3>1. \A y \in ToSet(link[tab.sock].down) : y \in ToSet(link'[tab.sock].down) \/ y = m
      BY <1>3, <1>5, <1>10, <1>11
    <3>2. QED
      BY <1>9, <1>13, <2>1, <3>1, ComingGets
  <2>4. QED
    BY <1>2, <1>9, <1>13, <1>14, <2>1, <2>2, <2>3, LearnsInformed
<1>17. Types'
  <2>1. SrvOK' /\ RtOK' /\ pipe' \in Seq(Command) /\ HttpOK'
    BY <1>2, <1>9 DEF Types, SrvOK, RtOK, HttpOK, Answered
  <2>2. RestOK'
    BY <1>2, <1>9, <1>13, <1>16 DEF Types, RestOK
  <2>3. QED
    BY <1>11, <2>1, <2>2 DEF Types
<1>18. \A y \in ToSet(link[tab.sock].down) :
           \/ y \in ToSet(link'[tab.sock].down)
           \/ y.how = "event" /\ y.view.is = "reserved" =>
                  \E z \in ToSet(link'[tab.sock].up) : z.msg = "claim" /\ z.id = y.view.id
  BY <1>3, <1>5, <1>6, <1>8, <1>10, <1>11
<1>19. QED
  BY <1>1, <1>9, <1>12, <1>13, <1>14, <1>15, <1>16, <1>17, <1>18, LinkKeeps

-----------------------------------------------------------------------------
(* The invariant holds, and with it the properties. *)

LEMMA LinkInvNext ==
    ASSUME LinkInv, [LinkNext]_linkVars
    PROVE  LinkInv'
<1>1. CASE RedisAnswers
  BY <1>1, RedisKeeps
<1>2. CASE Allocates
  BY <1>2, AllocatesKeeps
<1>3. CASE OthersMove
  BY <1>3, OthersMoveKeeps
<1>4. CASE TimePasses
  BY <1>4, TimePassesKeeps
<1>5. CASE ServerEnds
  BY <1>5, ServerEndsKeeps
<1>6. CASE Suspends
  BY <1>6, SuspendsKeeps
<1>7. CASE \E x \in rt.starts : StreamStarted(x)
  BY <1>7, StreamStartedKeeps
<1>8. CASE \E x \in rt.stops : StreamStopped(x)
  BY <1>8, StreamStoppedKeeps
<1>9. CASE \E s \in SocketIds : HubReceives(s) \/ HubCloses(s)
  BY <1>9, HubReceivesKeeps, HubClosesKeeps
<1>10. CASE Connects
  BY <1>10, ConnectsKeeps
<1>11. CASE Drops
  BY <1>11, DropsKeeps
<1>12. CASE Refreshes
  BY <1>12, RefreshesKeeps
<1>13. CASE Receives
  BY <1>13, ReceivesKeeps
<1>14. CASE RequestsDevice
  BY <1>14, RequestsDeviceKeeps
<1>15. CASE PostArrives
  BY <1>15, PostArrivesKeeps
<1>16. CASE PostAnswered
  BY <1>16, PostAnsweredKeeps
<1>17. CASE CancelsRequest
  BY <1>17, CancelsRequestKeeps
<1>18. CASE DeleteAnswered
  BY <1>18, DeleteAnsweredKeeps
<1>19. CASE EndsSession
  BY <1>19, EndsSessionKeeps
<1>20. CASE DeleteArrives
  BY <1>20, DeleteArrivesKeeps
<1>21. CASE FetchFails
  BY <1>21, FetchFailsKeeps
<1>22. CASE UNCHANGED linkVars
  <2>1. PICK b \in Nat : Inv(b)
    BY DEF LinkInv
  <2>2. UNCHANGED <<srv, loaded, pipe, rt, link, tab, http, seen, left>>
    BY <1>22 DEF linkVars
  <2>3. Types' /\ LinkShape'
    BY <2>1, <2>2 DEF Inv, Types, SrvOK, RtOK, LinkOK, HttpOK, Answered, RestOK, LinkShape
  <2>4. Truthful(b)'
    BY <2>1, <2>2 DEF Inv, Truthful, Answered
  <2>5. /\ Open' = Open /\ Agrees' = Agrees /\ Missed(seen.ver)' = Missed(seen.ver)
        /\ Coming(b)' = Coming(b) /\ Registering' = Registering
    BY <2>2 DEF Open, Agrees, Missed, Coming, Registering
  <2>6. Informed(b)' /\ Asked' /\ Orders'
    BY <2>1, <2>2, <2>5 DEF Inv, Informed, Asked, Orders, CancelOrder, GoneOrder, MarkOrder
  <2>7. Claimed' /\ Resumed'
    BY <2>1, <2>2, <2>5 DEF Inv, Claimed, Resumed
  <2>8. QED
    BY <2>3, <2>4, <2>6, <2>7 DEF Inv, LinkInv
<1>23. QED
  BY <1>1, <1>2, <1>3, <1>4, <1>5, <1>6, <1>7, <1>8, <1>9, <1>10, <1>11, <1>12, <1>13, <1>14, <1>15, <1>16,
     <1>17, <1>18, <1>19, <1>22, <1>20, <1>21 DEF LinkNext

LEMMA LinkInvInit ==
    ASSUME LinkInit
    PROVE  LinkInv
<1>1. <<>> \in Seq(Command) /\ <<>> \in Seq(Message) /\ <<>> \in Seq(Upward)
  OBVIOUS
<1>2. ToSet(<<>>) = {}
  BY DEF ToSet
<1>3. /\ srv.state = "idle" /\ srv.ver = 0 /\ pipe = <<>> /\ rt.id = 0 /\ rt.starts = {} /\ rt.stops = {}
      /\ srv.id = 0 /\ tab.phase = "idle" /\ tab.req = 0 /\ tab.sock = 0
      /\ http.post = None /\ http.cancel = 0 /\ http.del = None /\ seen.ver = 0 /\ seen.last
      /\ srv \in SrvT /\ rt \in RtT /\ http \in HttpT /\ tab \in TabT
  BY ZeroIsId DEF LinkInit, NoRequest, FreshTab, SrvT, Versions, RtT, HttpT, TabT, Phases
<1>4. \A s \in SocketIds : link[s] = Unused /\ link[s].open = FALSE /\ link[s].down = <<>> /\ link[s] \in SocketT
  BY <1>1 DEF LinkInit, Unused, SocketT
<1>5. Types
  <2>1. link \in [SocketIds -> SocketT]
    BY <1>4 DEF LinkInit
  <2>2. LinkOK
    BY <1>4, <2>1 DEF LinkOK
  <2>3. SrvOK /\ RtOK /\ HttpOK
    BY <1>3 DEF SrvOK, RtOK, HttpOK, Answered
  <2>4. RestOK
    BY <1>3, LinkBoundsAssumption DEF LinkInit, RestOK, Versions
  <2>5. QED
    BY <1>1, <1>3, <2>2, <2>3, <2>4 DEF Types
<1>6. ~Open /\ LinkShape
  BY <1>3, <1>4 DEF Open, LinkShape
<1>7. Truthful(0)
  BY <1>2, <1>3, <1>4 DEF Truthful, BaseOK, Answered
<1>8. Informed(0)
  BY <1>3, <1>6 DEF Informed, Agrees
<1>9. Asked /\ Orders
  BY <1>3, <1>6 DEF Asked, Orders, CancelOrder, NoneBehind, GoneOrder, MarkOrder
<1>10. Claimed /\ Resumed
  BY <1>6 DEF Claimed, Resumed
<1>11. QED
  BY <1>5, <1>6, <1>7, <1>8, <1>9, <1>10 DEF Inv, LinkInv

\* The invariant, for any number of requests, connections and events: the types; that
\* whatever is under way to a tab is true, or older than what is said next; that what
\* a connected tab does not show yet is on its way; and the orders of the commands.
THEOREM LinkAlways == LinkSpec => []LinkInv
<1>1. LinkInit => LinkInv
  BY LinkInvInit
<1>2. LinkInv /\ [LinkNext]_linkVars => LinkInv'
  BY LinkInvNext
<1>3. QED
  BY <1>1, <1>2, PTL DEF LinkSpec

LEMMA SeqIn ==
    ASSUME NEW S, NEW T, S \subseteq T, NEW q \in Seq(S)
    PROVE  q \in Seq(T)
OBVIOUS

LEMMA TypesAreRight ==
    ASSUME Types
    PROVE  LinkTypeOK
<1>1. pipe \in Seq(Commands)
  <2>1. Command \subseteq Commands
    BY DEF Command
  <2>2. QED
    BY <2>1, SeqIn DEF Types
<1>2. srv \in SrvT /\ rt \in RtT /\ (rt.id # 0 => rt.id = srv.id /\ srv.state \in {"active", "away"}) /\ http \in HttpT
  BY DEF Types, SrvOK, RtOK, HttpOK
<1>3. link \in [SocketIds -> SocketT] /\ \A s \in SocketIds : link[s].open \/ link[s].down = <<>>
  BY DEF Types, LinkOK
<1>4. QED
  BY <1>1, <1>2, <1>3 DEF Types, RestOK, LinkTypeOK, SrvT, RtT, Start, HttpT, TabT, SocketT, Message, Upward

\* Every variable has its type, there is a runtime only for a session that is active
\* or suspended, and nothing is under way to an end that is closed.
THEOREM LinkTypeCorrect == LinkSpec => []LinkTypeOK
<1>1. LinkInv => LinkTypeOK
  BY TypesAreRight DEF LinkInv, Inv
<1>2. QED
  BY <1>1, LinkAlways, PTL

LEMMA QuietIsEmpty ==
    ASSUME LinkInv, Quiet
    PROVE  /\ Open /\ tab.sock \in SocketIds
           /\ ToSet(pipe) = {} /\ ToSet(link[tab.sock].down) = {}
           /\ \A s \in SocketIds : ToSet(link[s].up) = {}
           /\ rt.starts = {} /\ rt.stops = {}
<1>1. ToSet(<<>>) = {}
  BY DEF ToSet
<1>2. Open /\ tab.sock \in SocketIds
  BY Typed DEF Quiet, Open, LinkInv, Inv
<1>3. QED
  BY <1>1, <1>2 DEF Quiet

\* A connected tab's reservation is claimed and its session resumed, however its sockets
\* open and close (core.ts, clientConnected and clientDisconnected), unless a deadline
\* has passed, heartbeats were late or the suspension was the first of the process.
THEOREM NothingHangs == LinkSpec => []NothingLeftHanging
<1>1. LinkInv => NothingLeftHanging
  <2>1. ASSUME LinkInv, Quiet, ~srv.late, ~srv.lapsed, srv.state \in {"reserved", "away"}
        PROVE  FALSE
    <3>1. Claimed /\ Resumed
      BY <2>1 DEF LinkInv, Inv
    <3>2. Open /\ ToSet(pipe) = {} /\ ToSet(link[tab.sock].down) = {} /\ \A s \in SocketIds : ToSet(link[s].up) = {}
      BY <2>1, QuietIsEmpty
    <3>3. QED
      BY <2>1, <3>1, <3>2 DEF Claimed, Resumed, Registering
  <2>2. QED
    BY <2>1 DEF NothingLeftHanging
<1>2. QED
  BY <1>1, LinkAlways, PTL

\* A connected tab to which nothing is under way shows the state its client is in
\* (connection.ts, handleMessage and applySnapshot), or a request of its own whose
\* cancellation it was not told of (the fetch in cancelRequest failed, or its page is
\* gone), unless the last answer it got was older than one before.
THEOREM TabIsRight == LinkSpec => []TabAgrees
<1>1. LinkInv => TabAgrees
  <2>1. ASSUME LinkInv, Quiet, seen.last
        PROVE  Agrees \/ MissedCancel
    <3>1. PICK b \in Nat : Inv(b)
      BY <2>1 DEF LinkInv
    <3>2. /\ Open /\ ToSet(pipe) = {} /\ ToSet(link[tab.sock].down) = {}
          /\ rt.starts = {} /\ rt.stops = {}
      BY <2>1, QuietIsEmpty
    <3>3. ~Coming(b)
      BY <3>2 DEF Coming
    <3>4. seen.ver \in Nat /\ b \in Nat
      BY <3>1, Typed DEF Inv
    <3>5. QED
      BY <2>1, <3>1, <3>2, <3>3, <3>4 DEF Inv, Informed, Missed, MissedCancel
  <2>2. QED
    BY <2>1 DEF TabAgrees
<1>2. QED
  BY <1>1, LinkAlways, PTL
-----------------------------------------------------------------------------
(* The client of this module moves as the store lets any client move.  Every *)
(* step leaves its state and id alone or is one of the following.            *)

Rests == srv'.state = srv.state /\ srv'.id = srv.id
Goes(from, to) == srv.state = from /\ srv'.state = to /\ srv'.id = srv.id
GoesOn ==
    \/ Goes("reserved", "active")
    \/ Goes("active", "away")
    \/ Goes("away", "active")
Leaves == srv.state \in Held \cup {"waiting"} /\ srv'.state = "idle" /\ srv'.id = srv.id
Enters ==
    /\ srv.state = "idle" /\ srv.id < MaxRequests
    /\ srv'.state = "waiting" /\ srv'.id = srv.id + 1

Moved == Rests \/ Enters \/ Goes("waiting", "reserved") \/ GoesOn \/ Leaves

LEMMA BecomesOnly ==
    ASSUME Types, NEW is \in Held \cup {"idle", "waiting"}
    PROVE  Becomes(is).state = is /\ Becomes(is).id = srv.id
  BY BecomesIs DEF Types, SrvOK

LEMMA TerminatesMoves ==
    ASSUME Types, NEW id, Terminates(id)
    PROVE  Rests \/ Leaves
<1>1. CASE id # srv.id \/ srv.state \notin Held
  BY <1>1 DEF Terminates, Rests
<1>2. CASE ~(id # srv.id \/ srv.state \notin Held)
  BY <1>2, BecomesOnly DEF Terminates, Leaves
<1>3. QED
  BY <1>1, <1>2

LEMMA ResumesMoves ==
    ASSUME Types, NEW o, NEW from \in {"reserved", "away"}, Resumes(o, from)
    PROVE  Rests \/ GoesOn
<1>1. srv' = srv \/ (srv.state = from /\ srv' = Becomes("active"))
  BY DEF Resumes
<1>2. QED
  BY <1>1, BecomesOnly DEF Held, Rests, GoesOn, Goes

LEMMA RedisMoves ==
    ASSUME Types, RedisAnswers
    PROVE  Moved
<1> DEFINE o == Head(pipe)
<1>1. CASE Resumes(o, "away") \/ Resumes(o, "reserved")
  BY <1>1, ResumesMoves DEF Moved
<1>2. CASE Marks(o)
  <2>1. srv' = srv \/ (srv.state = "active" /\ srv'.state = "away" /\ srv'.id = srv.id)
    BY <1>2 DEF Marks, Becomes, Types, SrvOK, SrvT
  <2>2. QED
    BY <2>1 DEF Moved, Rests, GoesOn, Goes
<1>3. CASE Ends(o)
  BY <1>3, TerminatesMoves DEF Ends, Moved
<1>4. CASE Joins(o)
  <2>1. \/ srv' = srv
        \/ srv.state = "idle" /\ srv.id < MaxRequests /\ srv'.state = "waiting" /\ srv'.id = srv.id + 1
    BY <1>4 DEF Joins, Becomes, Types, SrvOK, SrvT
  <2>2. QED
    BY <2>1 DEF Moved, Rests, Enters
<1>5. CASE Cancels(o)
  <2>1. srv' = srv \/ (srv.state = "waiting" /\ srv'.state = "idle" /\ srv'.id = srv.id)
    BY <1>5 DEF Cancels, Becomes, Types, SrvOK, SrvT
  <2>2. QED
    BY <2>1 DEF Moved, Rests, Leaves
<1>6. CASE UNCHANGED srv
  BY <1>6 DEF Moved, Rests
<1>7. QED
  BY <1>1, <1>2, <1>3, <1>4, <1>5, <1>6
     DEF RedisAnswers, Connected, SessionRead, StateRead, HeldRead, DeviceRead, RequestRead, PoolRead, DisconnectedRead,
         Loads, EndRead, Broadcasts

LEMMA LinkMoves ==
    ASSUME Types, [LinkNext]_linkVars
    PROVE  Moved
<1>1. CASE RedisAnswers
  BY <1>1, RedisMoves
<1>2. CASE Allocates
  BY <1>2, BecomesOnly DEF Allocates, Held, Moved, Goes
<1>3. CASE TimePasses
  BY <1>3 DEF TimePasses, Moved, Rests, Types, SrvOK, SrvT
<1>4. CASE ServerEnds
  BY <1>4, TerminatesMoves DEF ServerEnds, Moved
<1>5. CASE Suspends
  <2>1. srv.state = "active" /\ srv'.state = "away" /\ srv'.id = srv.id
    BY <1>5 DEF Suspends, Becomes, Types, SrvOK, SrvT
  <2>2. QED
    BY <2>1 DEF Moved, GoesOn, Goes
<1>6. CASE UNCHANGED srv
  BY <1>6 DEF Moved, Rests
<1>7. QED
  BY <1>1, <1>2, <1>3, <1>4, <1>5, <1>6
     DEF LinkNext, linkVars, OthersMove, StreamStarted, StreamStopped, HubReceives, HubCloses, Connects, Drops,
         Refreshes, Receives, RequestsDevice, PostArrives, PostAnswered, CancelsRequest, DeleteArrives,
         DeleteAnswered, FetchFails, EndsSession

inStore == [c \in {1} |-> [state |-> StoreState[srv.state], id |-> IF srv.state = "idle" THEN None ELSE srv.id]]

\* What StoreState says of a state, and where the client then is.
LEMMA InStoreIs ==
    ASSUME Types
    PROVE  /\ srv.state = "idle" <=> inStore[1].state = "NONE"
           /\ srv.state = "waiting" <=> inStore[1].state = "WAITING"
           /\ srv.state = "reserved" <=> inStore[1].state = "RESERVED"
           /\ srv.state = "active" <=> inStore[1].state = "ACTIVE"
           /\ srv.state = "away" <=> inStore[1].state = "DISCONNECTED"
           /\ srv.state = "idle" => inStore[1] = InStore!Nowhere
           /\ srv.state # "idle" => inStore[1].id = srv.id
  BY DEF Types, SrvOK, SrvT, Held, inStore, StoreState, InStore!Nowhere, InStore!At

LEMMA InStoreNext ==
    ASSUME Types, Types', Moved
    PROVE  [InStore!Next]_InStore!placeVars
<1>1. srv.id \in Ids /\ srv'.id \in Ids /\ MaxRequests \in Nat
  BY LinkBoundsAssumption DEF Types, SrvOK, SrvT
<1>2. inStore' = [inStore EXCEPT ![1] = inStore'[1]]
  BY DEF inStore
<1>3. CASE Rests
  <2>1. inStore' = inStore /\ (1 .. srv.id)' = 1 .. srv.id
    BY <1>3 DEF Rests, inStore
  <2>2. QED
    BY <2>1 DEF InStore!placeVars, inStore
<1>4. CASE Enters
  <2>1. inStore[1] = InStore!Nowhere /\ srv.id + 1 \in Ids
    BY <1>1, <1>4, InStoreIs DEF Enters, Ids
  <2>2. inStore'[1] = InStore!At("WAITING", srv.id + 1)
    BY <1>4 DEF Enters, inStore, StoreState, InStore!At
  <2>3. srv.id + 1 \notin 1 .. srv.id /\ (1 .. srv.id)' = (1 .. srv.id) \cup {srv.id + 1}
    BY <1>1, <1>4 DEF Enters, Ids
  <2>4. InStore!Join(1, srv.id + 1)
    BY <1>2, <2>1, <2>2, <2>3 DEF InStore!Join, inStore
  <2>5. QED
    BY <2>1, <2>4 DEF InStore!Next
<1>5. CASE Goes("waiting", "reserved")
  <2>1. inStore[1].state = "WAITING"
    BY <1>5, InStoreIs DEF Goes
  <2>2. inStore'[1] = InStore!At("RESERVED", srv.id) /\ (1 .. srv.id)' = 1 .. srv.id
    BY <1>5 DEF Goes, inStore, StoreState, InStore!At
  <2>3. InStore!Serve(1, srv.id)
    BY <1>2, <2>1, <2>2 DEF InStore!Serve, InStore!InSession, inStore
  <2>4. QED
    BY <1>1, <2>3 DEF InStore!Next
<1>6. ASSUME NEW from \in Held, NEW to \in Held, Goes(from, to)
      PROVE  InStore!Moves(1, StoreState[from], StoreState[to])
  <2>1. inStore[1] = [state |-> StoreState[from], id |-> srv.id]
    BY <1>6 DEF Goes, Held, inStore
  <2>2. inStore'[1] = [state |-> StoreState[to], id |-> srv.id] /\ (1 .. srv.id)' = 1 .. srv.id
    BY <1>6 DEF Goes, Held, inStore
  <2>3. [inStore[1] EXCEPT !.state = StoreState[to]] = inStore'[1]
    BY <2>1, <2>2
  <2>4. QED
    BY <1>2, <2>1, <2>2, <2>3 DEF InStore!Moves, inStore
<1>7. CASE GoesOn
  <2>1. /\ StoreState["reserved"] = "RESERVED" /\ StoreState["active"] = "ACTIVE"
        /\ StoreState["away"] = "DISCONNECTED"
    BY DEF StoreState
  <2>2. \/ InStore!Moves(1, "RESERVED", "ACTIVE")
        \/ InStore!Moves(1, "ACTIVE", "DISCONNECTED")
        \/ InStore!Moves(1, "DISCONNECTED", "ACTIVE")
    BY <1>6, <1>7, <2>1 DEF GoesOn, Held
  <2>3. QED
    BY <2>2 DEF InStore!Next
<1>8. CASE Leaves
  <2>1. inStore'[1] = InStore!Nowhere /\ (1 .. srv.id)' = 1 .. srv.id
    BY <1>8 DEF Leaves, inStore, StoreState, InStore!Nowhere, InStore!At
  <2>2. InStore!Cancel(1) \/ InStore!End(1)
    BY <1>2, <1>8, <2>1, InStoreIs
       DEF Leaves, Held, InStore!Cancel, InStore!End, InStore!InSession, inStore
  <2>3. QED
    BY <2>2 DEF InStore!Next
<1>9. QED
  BY <1>3, <1>4, <1>5, <1>7, <1>8 DEF Moved

LEMMA InStoreInit == LinkInit => InStore!Init
<1> SUFFICES ASSUME LinkInit PROVE InStore!Init
  OBVIOUS
<1>1. srv.state = "idle" /\ srv.id = 0
  BY DEF LinkInit
<1>2. 1 .. srv.id = {}
  BY <1>1
<1>3. inStore = [c \in {1} |-> InStore!Nowhere]
  BY <1>1 DEF inStore, StoreState, InStore!Nowhere, InStore!At
<1>4. QED
  BY <1>2, <1>3 DEF InStore!Init, inStore

\* No handler acts on what it has read before an await: every join, claim, reconnect,
\* suspension and end is a move that ClientPlace allows from the state the client is in
\* at that moment, for any number of handlers under way.
THEOREM LinkMovesAsStored == LinkSpec => MovesAsStored
<1>1. LinkInit => InStore!Init
  BY InStoreInit
<1>2. LinkInv /\ LinkInv' /\ [LinkNext]_linkVars => [InStore!Next]_InStore!placeVars
  <2>1. LinkInv => Types
    BY DEF LinkInv, Inv
  <2>2. LinkInv' => Types'
    BY DEF LinkInv, Inv
  <2>3. QED
    BY <2>1, <2>2, LinkMoves, InStoreNext
<1>3. QED
  BY <1>1, <1>2, LinkAlways, PTL DEF LinkSpec, InStore!Spec, MovesAsStored
=============================================================================
